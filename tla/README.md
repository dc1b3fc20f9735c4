# Verification of the web-store API

TLA+ specifications of the API server in this repository (Express, MongoDB
through Mongoose, Redis, BullMQ, SMTP), the TLC configurations that check them
on small instances, and theorems about them with proofs that TLAPS checks.
Paths below are relative to the repository root; `login.service.ts` and the
like stand for files under `src/modules/` or `src/utils/`, `src/services/`.

1. [The system](#1-the-system) - components, state, operations, what is hard
2. [How the code is modelled](#2-how-the-code-is-modelled)
3. [Modules](#3-modules) - each module, its variables and actions, and the code
4. [Runs](#4-runs) - what each run checks, its bounds, what it shows
5. [Proofs](#5-proofs)
6. [Disagreements found](#6-disagreements-found)
7. [What is not modelled](#7-what-is-not-modelled)
8. [Plan](#8-plan)

Running it: `tlc -config MCSessions.cfg MCSessions` (and so on, one `.cfg` per
run of section 4) and `tlapm SessionsProofs.tla` for a proof module.

---

## 1. The system

One Node process serves HTTP. A handler runs alone between two `await`s; at an
`await` any other handler may run. All state that outlives a request is in
MongoDB, in Redis (counters, codes, tokens, locks, all with an expiry), in the
circuit breaker's fields and in the BullMQ queue (in Redis). Several components
start work that they do not await (clean-ups, rate limits), so a request may
have answered while parts of it still run, and are retried, in the background.

### Components

| Component | State | Operations |
|---|---|---|
| Accounts, `authentication` | one `auths` document per account: password hash, `tokenVersion`, `isActive`, `mustChangePassword`, temporary password with expiry and used flag | `create`, `updatePassword`, `adminResetPassword`, `setActiveState`, `storeTempPassword`, `markTempPasswordUsed` |
| Sessions, `token` | none on the server: refresh tokens carry a `tokenVersion`, compared with the account's | issue on login, refresh |
| Login by password, `login` | `login:failed-attempts`, `login:lockout` | guard on the lock; count, expire at midnight, lock; reset after success |
| Login by code, `login` | stored code, cooldown, failed count, resend count | send, verify, clean up |
| Login by magic link, `login` | stored token, cooldown | send, verify, clean up |
| Unlock account, `unlock-account` | hourly counter, cooldown, temporary password in the account | request, verify |
| Sign-up, `signup` | code, cooldown, failed and resend counts, session token; `auths` and `users` documents | check e-mail, send, resend, verify, complete |
| Forgot password, `forgot-password` | per channel (code, link): the secret, cooldown, counts; one reset token per address | send, verify, reset |
| Change password, logout | - | read, compare, update, answer with new tokens; clear the cookie |
| Administration, `user` | the account's `isActive`, password | list, read, lock and unlock, reset password |
| Profiles, `user` | one `users` document per account | create at sign-up, read, edit, public profile |
| Routing, `loaders`, `*.routes.ts` | the order of routers and of each route's layers | match a path, run the layers |
| Guards, request context, pipes | the user of the request in an `AsyncLocalStorage` | check a token, require an identity, reject an input |
| Rate limiters | one bucket per limiter and key, in Redis | admit or refuse |
| Error filter and responses | - | turn any error into a status and a body |
| Circuit breaker, `utils/resilience` | state, failure count, half-open attempts, time of the last failure | `execute` (before and after its await), `reset` |
| E-mail, `services/email`, `services/queue` | jobs with their attempts | dispatch, process, retry, fall back to a direct send |
| MongoDB connection | `connectionState` beside the driver's | connect, events of the driver, disconnect, health |
| Redis connection | the client and its retries | connect, reconnect, give up, close, health |
| Process life cycle, `server.ts` | how far start-up or a shutdown has come | load, listen, shut down, exit |
| Web-app registry, `web-app` | `web_apps` with a unique name, `web_app_categories` | register, edit, list by role and page |
| Favourites, `favorite` | one document per user and application | add, remove, list |
| Contact admin, notifications, login history | a collection each | submit or record, list, read one, update a status or mark read |
| Entitlements, OAuth consents | schemas only | none |
| Seeders, Swagger, logging, i18n, templates | - | - |

How they interact:

* **All flows that accept a credential** (password, code, link, temporary
  password) read the account once and build the answer from that document; they
  write nothing to it. **All flows that set a password** (change, reset,
  administrator's reset) update it atomically and raise `tokenVersion`. Refresh
  compares. That is the only way in which sessions are revoked.
* **Login by password, unlock, administrator's lock** meet in the account
  document and in the lock that the lockout guard reads.
* **Every mail** (codes, links, temporary passwords) goes through the
  dispatcher, the queue or its fallback, and one process-wide breaker.
* **Everything in Redis** is a read, a decision and a write, each its own
  command; a set of commands of one `Promise.all` is sent on one connection.
* **Every request** passes the body parser, then the routers in the order they
  are mounted; each route runs its limiters, guards and pipes before its
  handler, and an error of any of them goes to the error filter. Limiters and
  handlers wait for Redis or MongoDB, so the state of both connections, and a
  shutdown, decides how a request is answered.
* **An application** that is deactivated, or reserved for administrators, stays
  a favourite of whoever added it; the list of favourites filters.

### What is hard here

* a read and the write that depends on it are separated by awaits everywhere:
  guard and count, count of administrators and lock, token read and token
  deletion, document and answer;
* INCR and EXPIRE are two commands; what happens between them decides whether a
  counter ever disappears;
* work left behind with `withRetry` runs after the answer and repeats commands
  that already took effect;
* an error in a promise that nobody awaits stops the server
  (`unhandledRejection`), and the shutdown closes the connections first;
* the breaker is shared: an answer may find it in another state than the one its
  call was made in;
* who may do what is decided by the *order* of mounted routers and of layers: a
  parameter route takes any segment, a limiter by user runs before or after the
  guard that sets the user;
* two things keep the state of one connection, the class and the driver, and
  only events join them;
* an edit is checked against a document that was read and applied to the
  document as it is then; uniqueness is decided by indexes, after the check.

### What makes each component correct

* **Sessions.** What still refreshes was opened with a credential of the
  account's present password generation, through any chain of refreshes; no
  token survives the next revocation; no live session claims a duty to change the
  password that has ended, and one opened with a temporary password lives only
  while the duty lasts.
* **Limits** (wrong codes, wrong passwords, mails). A limit is exceeded by
  requests already past the guard, and by no more.
* **Counters.** While nothing fails, a counter that exists has an expiry or is
  about to get one, and a lockout ends.
* **Accounts.** An address gets at most one account, with its profile.
* **Reset tokens.** A token that was used is not accepted for long.
* **Administrators.** One of them stays active.
* **Breaker and mails.** It opens on its threshold and only then, is never
  stuck half-open, and every mail is over at last.
* **Requests.** The handler that runs is the route's own, behind its guards; a
  limit holds over all routes that share it; every request is answered, also
  while Redis or MongoDB is away, and a shutdown ends.
* **Health** says of MongoDB what the driver says.
* **Registry and favourites.** Names are unique, concurrent edits of different
  fields survive, users see active applications of their role and no others,
  and a page after the other shows each once.
* **Records.** A user changes its own documents only and sees no more of
  another's than the public part of a profile, and what the checks of a text let
  through the schema accepts.

`PROJECT.json` lists the hazards of the code, each at its line, with the
properties that would catch it.

---

## 2. How the code is modelled

* **One step per answer.** A request takes one action for every database or
  Redis answer it awaits: the action is the operation as the server performs it
  together with the code that runs up to the next await. Guards that look only
  at a value already read are decided in the step that reads it. Requests
  interleave in any order, which includes every order in which replies can
  arrive.
* **Slots.** `Requests` are slots: a finished request frees its slot, so runs of
  any length are covered with a bounded number of requests *in flight*. A slot
  stays taken while something its request left behind still runs.
* **Time** is expiry: a key may vanish whenever its owner cannot rule it out.
  Cooldowns and windows may thus end at any moment, also in the middle of a
  request. This includes every real duration.
* **Faults.** A command may fail before or after it took effect, a background
  task may be retried after a part of it took effect, and the process may stop
  (`Crash`), which ends all requests and keeps what is stored. `faults` counts
  them; properties that speak of faults say so.
* **Secrets** are model values. A hash is the secret it accepts; signatures are
  sound. Secrets may repeat (`Codes` is a set a code is drawn from), so nothing
  rests on codes being fresh. The one exception is a reset token: the code draws
  32 random bytes, and with two model values for it a second verification waits
  for the first token to be gone.
* **History variables** (`guesses`, `sent`, `uses`, `mailed`, `overlap`,
  `faults`, `loggedOut`, `probes`, `checks`, `mails`, `edited`, `answer`, the
  `origin` and `proof` of a grant) are read by no guard, apart from the bounds,
  and only serve properties.
* **Routes are data.** `Routes` holds every router as a value: prefix, guards,
  routes with their layers and handler. `Walk` is how Express matches a path
  against them, so a route that takes another's path does so in the model.
* **Counters.** Where the code compares a count with a limit and nothing else,
  the model lets it saturate just above the limit (`failureCount` of the
  breaker at `Threshold`, the unlock rate counter above `MaxRequests`), so that
  no bound on requests is needed.

## 3. Modules

```
AuthRecord ──────┬── Sessions ─── MCSessions          RevocableSessions
                 │      └──────── SessionsProofs ──────────┘
RedisCounters ───┼── PasswordLockout ── MCPasswordLockout
                 │      └────────────── PasswordLockoutProofs ─┐
   └── OtpKeys ──┼── LoginOtp ───────── LoginOtpProofs ────────┤
                 ├── ForgotPassword ─── MCForgotPassword       ├── SlotCounts
                 │      └────────────── ForgotPasswordProofs ──┤
                 └── Signup ─────────── MCSignup               │
                        └────────────── SignupProofs ──────────┘
CircuitBreaker ───── EmailDelivery ─────┐
Routes ─── HttpPipeline ──┐             ├── ProcessProofs
RedisConnection ──────────┼── Server ───┤
MongoConnection ──────────┘             └── MCServer

AdminLock ────────────────┐
Paging ──┬─── Catalogue ──┼── MCDocuments
         └─── Records ────┴── DocumentsProofs
```

**AuthRecord** - the `auths` document and its atomic updates
(`authentication.repository.ts`), and the guards that read it
(`modules/token/guards`, `modules/unlock-account/guards`).

**RevocableSessions** - the abstract specification of sessions: a session
belongs to a generation of the password; it is opened in one atomic step that
checks a credential of that generation, renewed only while its generation is
current; setting a password starts a new generation. No request appears in it.

**Sessions** - every flow that opens, renews or revokes a session of an account.

| State | Code |
|---|---|
| `doc` | the `auths` document |
| `pc`, `pending` | the await a request has reached, the response it builds |
| `grants` | token responses delivered (claims `tokenVersion`, `mustChangePassword`) |
| `loggedOut` | devices that cleared their cookie |

| Actions | Code |
|---|---|
| `PasswordLogin`, `CodeLogin` | the strategies' read of the account and `LoginGrant` |
| `Refresh`, `Issue` | `token.service.ts`, `AuthActiveGuard`, `PasswordNotChangedGuard`, building the answer |
| `ReadForChange`, `ApplyChange` | `change-password.service.ts` |
| `ResetPassword`, `AdminReset`, `SetUserActive` | `forgot-password.service.ts`, `user.service.ts` |
| `ReadForUnlock`, `StoreTemp`, `ReadForTempLogin`, `UseTemp`, `TempExpires` | `unlock-account.service.ts` |
| `Logout`, `Fail` | `logout.service.ts`; an error at any await |

**RedisCounters**, **OtpKeys** - counters with INCR and EXPIRE as the separate
commands they are, limits, and the comparison of a stored code.

**LoginOtp** - `otp-login.strategy.ts`, `magic-link-login.strategy.ts` and their
repositories; a behaviour is about one `channel`, "otp" or "link". Sending
(`RequestCode` ... `MailCode`, `SetRateLimits`, and `FakeLimits` for an address
without an account), verifying (`PresentCode` ... `CountFailure`,
`ExpireFailed`; `RefuseLink`, as a wrong link is not counted) and the clean-up
left behind (`Cleanup`), with `CleanupFails`, `FakeLimitsFail`,
`LinkLimitFails`, `LimitsReject`, `Abort` and `Crash` for what fails.
`LimitsReject` is the promise of the code channel that is neither awaited nor
caught: it stops the server. A link has neither a lockout nor a resend count:
its cooldown and the limiters of its routes are all that limits it.

**PasswordLockout** - `password-login.strategy.ts`,
`failed-attempts.repository.ts`, `unlock-account.service.ts`: counting failures
(`Attempt`, `WrongPassword`, `Track`, `ExpireAtMidnight`, `SetLock`), the reset
left behind (`ResetAll`, `ResetFails`), the unlock request (`RequestUnlock` ...
`MailTemp`) and its verification (`PresentTemp`, `UseTemp`).

**ForgotPassword** - `otp-` and `magic-link-forgot-password.strategy.ts` with
their repositories and guards, and `resetPassword`. A behaviour is about one
channel; the reset token, the only thing both channels share, is contended for
by requests of one channel already.

**Signup** - `signup.service.ts` and its repositories: send and resend, verify,
complete. `CreateUserAccount` is the transaction with the unique index on the
e-mail. The holder of a sign-up session may present it as soon as it is stored,
while the answer that carries it is on its way: a few orders more than real.

**CircuitBreaker** - `circuit-breaker.ts`: `Execute` is the part before the
await, `OnSuccess` and `OnFailure` the part after it, `Refuses` the rejection;
`cooled` says that the waiting time is over. It is a specification of its own
(`BreakerSpec`), which `EmailDelivery` implements.

**EmailDelivery** - dispatcher, BullMQ queue and worker, fallback and direct
sends, all through the breaker. BullMQ and SMTP are external and modelled from
how the code configures and calls them: attempts, concurrency, jobs that survive
a crash.

**AdminLock** - `setUserActive` of `user.service.ts` by administrators on each
other: `ReadTarget`, `CountActiveAdmins`, `Lock`, `Unlock`. An access token is
checked by signature only, so a locked administrator goes on acting until it
expires.

**Routes** - the routing table (`app.ts`, `queue.loader.ts`, `modules.loader.ts`,
`health.loader.ts`, `*.routes.ts`): `Mounted` is the sequence of routers in the
order they are mounted, `Handlers` says what a handler needs of its request and
answers, `Walk` is the sequence of layers that Express runs for a method and
path. In front of the modules stand the documentation (`DocsRouter`) and Bull
Board, the dashboard of the queues, at `/admin/queues` (`QueuesRouter`):
`queue.loader.ts:28` mounts it without a guard, when the queues have a Redis. Its
own routes are the library's; a page and a command stand for them.

**HttpPipeline** - a request in one of `MaxRequests` slots (`Arrive`), its layers
up to the next await (`Run`), the limiter's answer from Redis (`LimiterAnswers`,
`LimiterFails`), the handler's end (`HandlerAnswers`, `HandlerThrows`,
`StatusOf`), the end of a window. `user` is what the request's context holds,
`counts` the limiters' buckets. A request whose body is not JSON
(`ArriveMalformed`) fails in front of everything else. The counting is
express-rate-limit's and external; the keys are the code's: an address is
counted as it is spelled, in lower case but *not* trimmed, because the limiters
stand in front of the pipe that trims. A spelling with blanks has a bucket of its
own, which `AttemptsBounded` therefore does not count. A body whose e-mail is no
string makes the key generator throw, in front of the pipe that would refuse it.
`RoutesAreSound` is what the pipeline needs of the table: the layers a request
meets end with their only handler; unless that is `handleNotFound` it is the
handler of the request's own route, the guards it relies on are in front of it,
and the limiter of what it does is the last one before it. What relies on the
administrators' guard (`IsAdministrative`) is everything under `/admin` and
`/api/v1/admin` but the dashboard. The condition speaks of constants only, and TLC evaluates it on the code's table as a part of `Server!TypeOK`.

**RedisConnection**, **MongoConnection** - each connection as the code sees it
beside the driver: `ConnectRedis`, `AttemptFails` with the retries of
`redis.config.ts`, `ConnectionLost`, `DisconnectRedis`; `ConnectMongo`, the
driver's events (`HandleDisconnected`, `HandleReconnected`), `DisconnectMongo`.
`totalDowntime` and the reconnection timer (`scheduleReconnection`) change
nothing that is reached after start-up.

**Server** - `server.ts` and the loaders over those three: start-up in its order,
each step of which may fail and end the process; serving, with outages of both
connections; `gracefulShutdown`, started by a signal or an unhandled rejection,
also a second time while the first one runs. Closing Redis after the client gave
up throws, and the process exits with 1. A handler whose socket was cut goes on
in the code until the process ends; the model forgets it, for nobody sees its
answer. `Server!Spec` has any number of requests in any order; what keeps an
instance small (`NextSlot`, `MayMeet`, `FirstOnly`) is in `MCServer`, whose
`BoundedSpec` has a part of the behaviours of `Spec`.

**Paging** - `skip`, `limit` and the pages of an ordered result. Of an empty
result most listings count no page (`TotalPages`), the catalogue of a user one
(`AtLeastOne`); `PagesShowAll` holds with both.

**Catalogue** - `web-app` and `favorite`: `createApp` and `updateApp` as the
queries they are (`CreateApp`, `CheckCreateCategory`, `InsertApp`; `UpdateApp`,
`CheckName`, `CheckCategory`, `WriteApp`) with the unique index of the name,
`AddFavorite` (the guard), `MatchFavorite` and `InsertFavorite` (the upsert: two
of them may find nothing before either inserts, and then the unique index of
`user-favorite.ts:29` refuses one, as a conflict or by matching again),
`RemoveFavorite`, and the lists of applications and favourites that a user sees. The code has no
operation that removes an application. Two users' steps are kept apart by a
clock, `now`, that need not move between two of them: `createdAt` may tie.

**Records** - contacts, notifications, login history and profiles: who may read
and change which document, filters and pages, and the lengths of texts as the
body check, the sanitising and the schema see them. `answer` is what the last
request showed to whom. A profile has a public part and a personal one (e-mail,
phone, address, date of birth); `GetPublicProfile`, which asks for no token,
selects the first for anybody (`SelectPublic`). A login's record is written
behind the login (`RecordLogin`, then `HistoryWritten` or `HistoryLost`).
`readAt`, and what is derived from a request (address, device, place), are left
out.

The `MC` modules add what an instance needs: symmetry, bodies, texts, requests
that name no route. **MCDocuments** puts `AdminLock`, `Catalogue` and `Records`
side by side; a behaviour has a `focus` on one collection, as the collections
share nothing. Operators with a `Defect:` comment are the plausible bugs that
`PROJECT.json` lists as mutants: with one in place of the real definition, the
property named there fails.

---

## 4. Runs

| Run | Instance | Distinct states |
|---|---|---|
| `sessions` (MCSessions.cfg) | 2 requests, 2 passwords, 1 temporary password, 2 password settings, 2 responses kept, 1 logout; symmetry | 612 000 |
| `loginOtp` (LoginOtp.cfg) | both channels, 2 requests, 2 codes, `MaxFailed` 2, `MaxResend` 1, 2 tries, 2 codes a window, 1 fault | 661 000 |
| `lockout` (MCPasswordLockout.cfg) | 2 requests, 1 password, 2 temporary passwords, `MaxAttempts` 2, `MaxRequests` 1, 2 tries, 3 failures counted, 1 fault; symmetry | 2 770 000 |
| `email` (EmailDelivery.cfg) | 3 mails, threshold 2, 1 probe, 3 attempts, concurrency 2, 1 crash | 28 500 |
| `forgot` (MCForgotPassword.cfg) | 2 requests, 2 codes, 2 tokens, `MaxFailed` 1, `MaxResend` 1, 2 tries, 2 faults; symmetry | 2 540 000 |
| `signup` (MCSignup.cfg) | 2 requests, 2 codes, `MaxFailed` 2, `MaxResend` 1, 1 fault; symmetry | 524 000 |
| `server` (MCServer.cfg) | every route with every caller and invalid input, and 4 paths without a route; 2 requests, limits divided by 30, no retries of Redis, 1 outage of MongoDB, 2 shutdowns | 190 000 |
| `documents` (MCDocuments.cfg) | 3 administrators, 2 requests; 2 applications, 2 editors, 2 names, 1 category, 9 bodies, 1 user, pages of up to 2, 1 tick; 2 owners, 2 documents of each kind, texts at the limits of their lengths | 734 000 |

The code's constants are larger (10 failures, 3 unlock requests an hour,
threshold 5, 3 tries, concurrency 5, pages of up to 100); the runs use the
smallest values at which "below", "at" and "above" the limit all occur.

Why these bounds are enough to be interesting:

* Two requests in flight are what a race needs; a third actor is always there,
  because expiry, background work, atomic updates by other flows and crashes
  are steps of nobody's slot. Slots are reused, so the number of requests in a
  behaviour is not bounded by them. (`server` is the exception: a slot serves one
  request, see below.)
* Two settings of the password let an answer be overtaken by one change and
  renewed after another; two responses kept let a refresh chain go through both.
* Two faults in `forgot` allow a fault in each of two requests, or a failed
  clean-up followed by a crash; the others have one, after which every bound is
  met exactly.
* Two temporary passwords let a newer one be stored, mailed and used while a
  request still holds the older one.
* Three mails and a threshold of 2 let a call made before the breaker opened
  answer while another one probes.
* `server`: what a request meets depends on its own route and on the buckets it
  shares, so two requests, of which the second is one that shares a limiter with
  the first (`MayMeet`), reach whatever requests can do to each other; divided by
  `Scale` and rounded up, the limits of most routes are 1 and are met by them.
  Outages of MongoDB and shutdowns meet one request (`FirstOnly`). How often the
  client tries before it gives up (`MaxRetries`) decides nothing else: commands
  wait as long as it tries, and fail when it has given up.
* `documents`: two editors race on names, on categories and on fields of one
  application, and one of them creates applications and changes who sees them
  while favourites come and go (`VisibilityBodies`); one user suffices, as users share applications only; two owners are "mine" and
  "another's".

What they show:

* **sessions** - `LiveGrantsProvePassword`, `SessionsDieWithPassword`,
  `ForcedChangeEndsWithRevocation`: however awaits interleave, nothing opened
  before the last password change refreshes. The last one is less obvious than
  it looks: `markTempPasswordUsed` sets `mustChangePassword` on a document that
  may have had a change or a reset since it was read, and a later answer or
  refresh carries the flag as it was read. Yet no live session claims a duty the
  account no longer has, and none that was opened with a temporary password is
  live without the duty. The converse does not hold: a mark that arrives after a
  change raises the flag once more, and a refresh then tells the device that just
  changed its password to change it again. `ImplementsRevocableSessions`: all the awaits together
  behave as atomic sessions. `SessionInv` is the invariant the proof is built
  on.
* **loginOtp**, **forgot**, **signup**, **lockout** - the limits are check-then-act
  and are exceeded; `GuessesBounded`, `MailsBounded`, `ResendsBounded`,
  `UnlockMailsBounded`, `TempUsesBounded`, `UsesBounded` say by how much: by
  requests already admitted, and by those whose count a fault lost.
  `ResendsBounded` of sign-up knows no loss, because sign-up counts before it
  mails. In `lockout`, guesses are counted from one end of a lock to the next: the
  lock, and not the counter it is set by, is what a guess is refused by, and the
  two may end apart. `ExpiryInv` is `TypeOK` with `CountersWillExpire`: without a fault,
  clean-ups and first failures never leave a counter without expiry, in any
  order. With a fault they do, which `lockoutStuck` shows. `NewestMailWorks` (sign-up): without overlapping sends and faults the
  newest mail's code is the stored one; sends that overlap do mail a code that is
  stored no longer. `OneAccount`: two completions with one session
  make one account. `UsedTokenIsForgotten`: a used reset token that is still
  accepted is about to be deleted.
* **email** - `OpensOnThreshold`, `ProbesAreInFlight`: although late answers
  change the breaker under the probes' feet, its count and its quota stay true,
  so it cannot refuse mails for ever; `MailsSettle`, `HalfOpenEnds`.
* **server** - `GuardsHold`: a handler under `/api/v1/admin` begins for
  administrators only, as would one under `/admin` apart from the dashboard of the
  queues, which anybody reaches; and a handler that requires an identity has one. `OwnHandlerAnswers`: no route
  takes another's path (`/users/me` against `/users/:id` and the like), and
  a path without a route reaches no handler. `AttemptsBounded`: the four ways to
  present a credential share one bucket, so that no more than its limit are
  checked in a window, and no more mails of a kind asked for an address than its
  limiter admits. `HealthFollowsDriver`: events alone keep the class's state and
  the driver's together through outages. `EveryRequestAnswered`, `ShutdownEnds`.
* **documents** - `LastAdminStaysAlone`: without overlapping lock requests an
  administrator stays active. `CatalogueInv`: names stay unique and favourites
  single, whoever races; no application gets a category that does not exist.
  `FavoritesStayVisible`: whatever became of an application since it was added,
  a favourite that is shown is one that could be added now and that the pages of
  the catalogue show. `WritesStayNarrow`: concurrent edits of different fields
  both survive, and a second click moves no favourite. `OwnersOnly`: whatever
  identifiers and filters requests contain, a user is shown its own documents and
  public profiles, and changes its own only. `StoredFitsModel`: what the checks
  let through, the schema accepts; a profile that was edited is exempt.
* Liveness: `LockoutEndsWithoutFaults`, `MailsSettle`, `HalfOpenEnds`,
  `EveryRequestAnswered`, `ShutdownEnds`.

Four more runs show a disagreement each; see section 6.

**Fairness.** `LoginOtp!FairSpec`: a request that can go on does (Node resumes a
handler when an answer arrives), and Redis removes a counter that has an expiry.
Nothing else is fair; in particular nobody has to send a request.
`EmailDelivery!FairDeliverySpec`: a call of the transport ends (nodemailer's connection,
greeting and socket timeouts), the breaker's waiting time passes, and an attempt
that is possible again and again is made: BullMQ serves jobs first in, first out,
so a waiting job gets its turn however often the worker's slots are refilled,
which is strong fairness; the timers of `withRetry` always fire.
`Server!Fairness`: start-up goes on (the connections have timeouts), Redis comes
back or the client gives up, limiters and handlers that wait for an open
connection are answered, and each step of a shutdown ends (each await of it has a
timeout or closes something local). No request has to arrive, MongoDB need not
return, and no signal need come.

**Deadlock** is checked in the `email` run. In the others the system may really
come to rest: nobody has to send a request, and the bounds on faults, codes and
versions end every behaviour at some point.

**Bounds named in the modules:** `MaxVersion`, `MaxGrants`, `MaxLogouts`
(Sessions), `MaxCount` (LoginOtp, PasswordLockout), `MaxFaults` (all with
faults), `MaxCrashes` (EmailDelivery; at most 1, because BullMQ forgives a job
one stall and fails it on the second), `MaxRequests`, `Scale`, `Strays`
(HttpPipeline), `MaxOutages` (MongoConnection), `Shutdowns` (Server),
`NextSlot`, `MayMeet`, `FirstOnly` (MCServer), `MaxTime` (Catalogue).

---

## 5. Proofs

Checked by TLAPS, for every value of the constants that satisfies the modules'
assumptions - any sets of passwords, requests, mails or administrators, any
thresholds and bounds. Every invariant, action property and refinement that a
passing run checks is a theorem, liveness apart.

### Sessions

**SessionsProofs.** `SessionInvariant`: `Spec => []SessionInv`, and from it
`TypesHold`, `OnlyCurrentPassword` (`LiveGrantsProvePassword`),
`RefreshKeepsGeneration` (`SessionsDieWithPassword`), `NoFutureToken`,
`ForcedChange`. The four properties speak of responses delivered; they are not
inductive, because a response being built is delivered later. `SessionInv`
therefore says the same of the responses in flight (`Revocable` and `Forced` of
what a request holds; a verification that has not yet marked the temporary
password is only `Revocable`), and adds that a change of the password waiting for its update
holds only a password and a version that was reached (`MayHold`). The proof goes
by what a step does: it leaves `tokenVersion` alone and can only open something
that is `Revocable` (`RequestStep`, `ReadStep`), or raises it, after which every
older response is trivially revocable (`BumpCarries`).

`SessionsImplement`: `Spec => ImplementsRevocableSessions`. Under the mapping
`generation <- tokenVersion`, `sessions <-` the responses delivered together with
those whose credential has been accepted, every step is an `Open`, a `Renew`, a
`SetPassword`, a `Lose` or a stutter; the lemmas are grouped by that
(`LoginsOpen`, `RefreshRenews`, `PasswordsSet`, `SilentSteps`). `SessionInv`
supplies that what is renewed is of the current generation.

### Limits

**SlotCounts** - lemmas about the number of slots that wait at given steps: there
are no more than slots, one that is elsewhere leaves room for itself, and a step
of one request adds or takes one (`Room`, `Enters`, `Leaves`, `Fewer`, `Apart`).
`CountsLater` is what a limit that is checked first and counted later comes to:
what was done is counted, about to be counted or lost, and what was done together
with what may still be done stays below the limit, the other slots and the loss.
One lemma for each thing a step may do to it (`OneAdmitted`, `OneDone`,
`OneCounted`, `AllCounted`, `CountsLost`) carries it through a flow.

**LoginOtpProofs.** `LimitInvariant`: `Spec => []LimitInv`, and from it
`GuessesStayBounded`, `MailsStayBounded`, `UsesStayBounded`. The bounds are not
inductive: they say how far a limit was exceeded and not why. `LimitInv` counts
the requests between a guard and its count. `GuessInv` has two parts. A wrong
code that was compared is in the counter, or belongs to a request at `count`, or
a fault lost it; and what was compared, together with the requests that will
compare (`Admitted`), stays below the limit, the other slots and the loss. The
guard admits one more only while the counter is below the limit, and then `Room`
gives the new request its place: those admitted and those counting are different
slots, and neither is the new one. `MailInv` and `UseInv` go the same way, with
the mail counted in the step that sends it and the code deleted behind the login.
A fault may lose as many counts as there are slots, whence `Lost`.
`CountersExpire` (`ExpiryInv`) needs none of this: a counter that became 1 has
its own request at the step that will expire it.

**PasswordLockoutProofs.** `LockoutInvariant`: `Spec => []LimitInv`, with
`GuessInv` for passwords, `MailInv` for unlock mails and `UseInv` for temporary
passwords; `GuessesStayBounded`, `UnlockMailsStayBounded`, `TempUsesStayBounded`
and `CountersExpire` follow. What differs from the code login is that a guess is
refused by a *lock*, which is set by whoever's count reaches the limit. So
`GuessInv` has two cases: without a lock, failures are counted, about to be
counted or lost, and those that reached the limit are on their way to set the
lock (`Failing`); while it lasts, only requests admitted before may still fail.
Unlock requests are counted before they are let past, so that `MailInv` knows no
loss, but those let past in one window may mail in the next.

**ForgotPasswordProofs.** `ResetInvariant`: `Spec => []LimitInv`, whose `GuessInv`,
`MailInv` and `ReuseInv` are three uses of `CountsLater`: codes compared, mails
sent, and passwords set with one reset token, which is checked first and deleted
later as a limit of 1 would be. `FreshInv` (a token that is still to be stored is
nobody else's) and `HeldOK` (what a request holds) are what `ReuseInv` needs.
`UsedTokensAreForgotten` (`UsedTokenIsForgotten`) and `TokenUsesStayBounded`, how
often a token sets a password, follow from it; `GuessesStayBounded`,
`MailsStayBounded`, `CountersExpire` as above.

**SignupProofs.** `SignupInvariant`: `Spec => []SignupInv`, and from it
`AddressHasOneAccount` (`OneAccount`), `GuessesStayBounded`,
`ResendsStayBounded`, `NewestMailHasTheCode` (`NewestMailWorks`); and
`CountersExpire` (`ExpiryInv`). A resend and a first send share their steps, so
`ResendInv` counts by `place`, which is where a request is if it is a resend. As
a resend is counted before its mail leaves, no loss appears in it. `MailInv` says
of the time in which no two sends overlapped and nothing failed that one request
at most makes a code, and what it stored is what it will mail.

### The process

**ProcessProofs** is about `Server` without the bounds of `MCServer`, for any
number of requests, retries, outages and shutdowns, and about the breaker.

`RequestsInvariant`: `Spec => []HttpInv`, of two parts. `SlotsOK` says where a
waiting request stands (`StandsAt`): at a limiter or the handler of its own walk,
every layer before it has let it pass, and the identity in its context is the one
those guards established. `RunEffect` is the lemma behind it, that `Run` stops at
the first layer which waits or passes an error; that there is a first one is
`LeastOf`. `LimitsOK` says that what has begun in a window - credentials checked,
mails asked for - was counted in that window's bucket before, and that the bucket
had not passed its limit. It is inductive only because the limiter of a handler is
the *last* one in front of it (`LastLimiterStands`): with another await between
the two, the window could end there, and the handler would begin in a window that
never counted it.

From it follow `GuardsAlwaysHold` (`GuardsHold`), `HandlersAreOwn`
(`OwnHandlerAnswers`), `AttemptsStayBounded` (`AttemptsBounded`) and, with the
types of the process and its connections, `ServerTypes` (`TypeOK`). These five
have the hypothesis `RoutesAreSound`: what a table of fifty-odd routes makes of a
path is a computation over sequences, which TLC does (in every run of `TypeOK`)
and the prover cannot. The theorems say that this static condition is all that
awaits, limiters, lost connections and shutdowns need. Of `OwnHandlerAnswers` the
larger half is in that condition.

`HealthIsTrue` (`HealthFollowsDriver`) needs no hypothesis. Its invariant,
`MongoInv`, adds that nobody closes MongoDB before a shutdown has begun, and that
no outage happens before the first connection.

`DeliveryUsesBreaker`: `DeliverySpec => BreakerSpec`, delivery uses the breaker
only by its operations. Then `BreakerOpensOnThreshold` and `HalfOpenIsNeverStuck`
from the breaker's own inductive invariant `BreakerInv`: the two properties
together with the types and the finiteness of `probes`, which the cardinalities
need as the set of mails may be infinite.

### Documents

**DocumentsProofs.** `LastAdmin`: `[]LastAdminStaysAlone`. `LockInv` adds what a
request has made sure of when it waits to write: somebody other than its target
is active, and while no second lock request is in flight nobody takes that away
(`NoNewRequest`, `AnotherIsActive`).

`CatalogueKeepsKeys`: `CatalogueSpec => []CatalogueInv`, which is inductive as it
stands, for both unique indexes are asked in the very step that writes
(`WriteKeepsInv`, `InsertedIsNew`); `EditsAreChecked`, its part about requests in flight, is what makes the
write of a checked edit safe for the category. `WritesAreNarrow`:
`CatalogueSpec => WritesStayNarrow`.

`PagesAreComplete` is about `Paging` alone: pages of any size cut a result, in
whatever order, so that each of its members is on exactly one page and none is
empty, with either count of the pages of nothing. `FavoritesAreShown`
(`FavoritesStayVisible`) rests on it and on `RegistryStaysFinite`, as only a finite
result has an order: no assumption on the set of applications is needed.

`RecordsInvariant`: `RecordsSpec => []RecordsInv`, and from it `StoredTextsFit`
(`StoredFitsModel`) and `OwnersSeeTheirOwn` (`OwnersOnly`). `RecordsInv` adds to
the types that a stored text was checked as it was stored (`StoredIsChecked`) and
that what is shown to a user is the user's, or public (`ShowsOwn`).

### Assumptions and what is left

**Assumptions.** Those of the modules: ordinary and temporary passwords and the
code are different things, model values for "nothing" are in no other set (the
owner of a record without one is no user), limits are positive numbers, and
`Admins` and the slots of the four flows with limits are finite. TLC evaluates
them in the runs. `RoutesAreSound` is a hypothesis of theorems, as said above.

**Only model-checked:** liveness - `MailsSettle`, `HalfOpenEnds`,
`LockoutEndsWithoutFaults`, `EveryRequestAnswered`, `ShutdownEnds` - because the
prover does neither fairness nor ENABLED; and `RoutesAreSound` itself, a
computation over the table.

---

## 6. Disagreements found

With a run that exhibits it:

| Run | What the code does, against what is said |
|---|---|
| `lastAdminRace` | two administrators who lock each other at once both succeed; "prevents total admin lockout" (`user/swagger/paths.ts`) |
| `resetTokenReuse` | two requests with one reset token, presented before it is deleted, both set a password; "one-time use" (`forgot-password/swagger/paths.ts`) |
| `lockoutStuck` | a fault between INCR and EXPIRE leaves the lockout counter without an expiry; "Please try again in {{minutes}} minutes" (`login.json`) |
| `shutdownCuts` | a shutdown closes the sockets of the requests that are being handled before it waits for them; "Waits up to 30 seconds for in-flight requests to complete" (`README.md:277`) |

Stated as properties in the modules, which a reader can add to the run's `.cfg`:

* `LockBlocksLogin` (Sessions, a PROPERTY of MCSessions.cfg): an account locked
  by an administrator still opens a session by a temporary password mailed
  before; "Blocks future login attempts" (`user/swagger/paths.ts`).
* `ClosesThroughProbe` (EmailDelivery, by EmailDelivery.cfg): a late success
  closes an open breaker directly; the diagram in `circuit-breaker.ts` leaves OPEN
  only for HALF_OPEN.
* `ErrorsAreFormatted` (HttpPipeline, an INVARIANT of MCServer.cfg): a body that
  is not JSON is answered by Express's own page, because the error filter runs
  before the i18n middleware and fails itself; "a consistent JSON format"
  (`README.md:309`).
* `LogoutEndsSession` (Sessions): logout clears the cookie and the refresh token
  goes on working; "invalidate session" (`README.md:201`).
* `TempPasswordUsedOnce` (PasswordLockout): two verifications at once both
  succeed (`TempUsesBounded` bounds it); `sendEmail.json:49,56` say once.

Met while reading, in single steps that need no run (`PROJECT.json`, `findings`):

* a magic link, too, logs in again until its clean-up has run, and for good if
  its tries fail; `sendEmail.json:32` says that it cannot (`UsesBounded` says how
  often);
* `categorySlug` of every favourite is null, because the query that fills it does
  not select the category's name (`web-app.repository.ts:92`);
* an edit of a profile writes around the schema, so a name may be stored shorter
  than the schema allows (`StoredFitsModel` spares the `edited` ones);
* a contact's subject and message are checked sanitised and stored as sent.

Noted only: `scheduleReconnection` of `mongodb.database.ts` calls `connect`, which
would return the promise of the very attempt that waits for it, but no caller
reaches it; `health` reads the state of MongoDB before it awaits the ping of
Redis; listings sort by keys that may tie, and MongoDB promises no order of ties
from one page to the next.

---

## 7. What is not modelled

* **Wording and layout** - formatting of answers, logging, i18n, templates,
  Swagger, tables of status codes. Only the status of an answer and whether it
  has the common format are modelled.
* **Seeders** - scripts run by hand; they fill the categories that the registry
  reads.
* **Entitlements and OAuth consents** - schemas and indexes that no handler uses.
* **The inside of Bull Board** - the pages and commands of the dashboard are the
  library's. That it is mounted, where, and that no guard stands in front of it is
  in `Routes`; `GuardsHold` excepts it by name. Without a Redis for the queues it
  is not mounted, and its paths are answered as missing.
* **The search and sorting of `getAdminUsers`** - an aggregation over two
  collections; the model shows administrators any of the users.
* **An outage of the queue's own Redis** - `Send` takes `queue.add` to settle: the
  job is accepted, or rejected and sent by the fallback. As the connection has
  `maxRetriesPerRequest: null`, while that Redis is away BullMQ keeps the command
  instead, and the worker gets no jobs. `MailsSettle` speaks of a queue that can
  be reached; the breaker's properties do not depend on it.
* **The counting of express-rate-limit, BullMQ, the drivers, nodemailer** -
  external; modelled from how the code configures and calls them. The e-mail,
  login and other flows are modelled without the limiters in front of them: more
  requests are then possible, so what is shown holds with them.
* **Schemas of single inputs** - patterns of e-mails, ids and codes; that a pipe
  stands in front of a handler and refuses is modelled, and lengths where two
  layers disagree could hurt.
* **Texts to search for** in the listings, and what a login's record derives from
  the request.
* **Signatures and the expiry of tokens** - signatures are taken as sound; the
  expiry of a refresh token is a session nobody presents any more.
* **Ties between pages** - `FavoritesStayVisible` holds over any one order; over
  two different orders of ties no property about pages could hold.
* **The body of a conflict** - the loser of a race for a name is refused by the
  index; with which status, the error filter decides, and `TypeOK` checks that
  only by class.

---

## 8. Plan

Order: what decides who is let in first, then what limits abuse, then delivery,
then the rest.

1. *(done)* `Sessions` over `AuthRecord`, with `RevocableSessions` as its
   abstract specification; invariant, properties and the refinement proved.
2. *(done)* `RedisCounters`, `OtpKeys`, `LoginOtp` with both channels,
   `PasswordLockout`: limits and lockouts with faults and retries.
3. *(done)* `CircuitBreaker`, `EmailDelivery`: checked with liveness; the
   breaker's safety proved.
4. *(done)* `AdminLock`: checked and proved.
5. *(done)* `ForgotPassword`, `Signup`: checked.
6. *(done)* `Routes`, `HttpPipeline`, the connections and `Server`: every route
   with what stands in front of it, start-up, outages and shutdown.
7. *(done)* `Catalogue`, `Records`: the registry, favourites and the documents of
   users; the keys of the registry proved.
8. *(done)* The bounds of the four flows with limits (`LoginOtp`, `Signup`,
   `PasswordLockout`, `ForgotPassword`) proved for any number of requests, over
   `SlotCounts`.
9. *(done)* The documents (`FavoritesStayVisible` over any pages, `OwnersOnly`,
   `StoredFitsModel`) and the process (`Server`, `HttpPipeline`, the connections)
   proved; every invariant that a run checks is now a theorem.
10. *Next:* an abstract guard with a limit, an overrun and a loss that the code
    flows implement, so that "exceeded by those in flight" is one statement with
    one proof; and the safety part of the liveness properties, that a step they
    wait for is never disabled by another.
