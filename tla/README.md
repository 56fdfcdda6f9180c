# A formal model of Nexus Gate

Nexus Gate takes attendance with a rotating QR code. A projector shows a code that
changes twice a second; a student's phone collects a few of them, signs a *scan
certificate* and queues it in `localStorage`; the queue sends it to the server when
there is a network; the server checks it and records a time-in or, later, a time-out.
An organizer can enter a student by hand (an *override*), through a queue of the same
kind. Around that stand accounts that live in two stores (the database and Supabase Auth),
sign-in with lockout, second factor and passkeys, caches of accounts in memory and Redis,
rate limits, device keys, the events API and a reminder job.

This directory holds TLA+ models of these parts, TLC configurations that check them on
small instances, and TLAPS proofs of the main safety properties for every value of the
constants. Paths below are relative to the repository.

## 1. Inventory

| Part | State it keeps | Operations | What is hard about it | What makes it correct |
|---|---|---|---|---|
| Attendance server (`src/app/api/attendance/route.ts`, `.../override/route.ts`) | rows of `EventAttendance`, `AttendanceOverride`, `AuditLog` | POST of a scan, POST of an override | no lock and, for scans, no transaction: only unique constraints and one compare-and-set between concurrent handlers; instances die; clients retry | one row per event and student, true answers, one audit entry per transition, time-outs final, instants inside windows |
| Event windows (`src/lib/event-time.ts`) | none | windows of an event | defaults that need not be in order; edges | the instant counts, not the time of syncing |
| Event targeting (`src/lib/event-visibility.ts`, `event-targeting.ts`) | none | who belongs to an event | three definitions of one audience | everyone meant is reminded and admitted |
| Events API (`src/app/api/events`) | `Event` rows | create, patch, cancel, delete | patches are validated on the fields they carry, and overlap | a row no single request could make is still well formed |
| Reminders (`api/cron/event-reminders`) | `Notification` rows | a run | reads by three calls, a retry, overlapping runs | everyone once |
| QR token (`src/lib/qr-token.ts`, `qr-token-client.ts`) | none | make, validate, check liveness | block boundaries, clocks that differ | only live scans pass, and they all pass |
| Scanner (`views/scanner.tsx`) | frames collected, locks | decode, sign, stop, start | a signature finishes after the camera was stopped and started | what it signs is accepted |
| Scan queue (`hooks/use-scan-queue.ts`) | items in `localStorage`, a timer, `onlineRef` | enqueue, drain, remove, clear | drains overlap, outlive their view, page closes in the middle | nothing called sent unless saved, nothing hangs, everything settles |
| Override queue (`hooks/use-override-queue.ts`) | the same | the same, retry | the same, and errors of three kinds; a 409 stands for an entry or for a scan | the same; a recorded entry is not reported failed, the student of a sent one is present |
| Device keys (`device-key-server.ts`, `device-key-client.ts`, `api/profile/device-key`) | `DeviceKey` rows, IndexedDB | generate, register, revoke | count, register, count again; phones overlap, calls die | the cap; what a phone believes of its key |
| Profile and password (`api/profile`, `api/profile/password`, `lib/cooldown.ts`) | dates of the last update in `Account` | update the profile, change the password, an administrator's edit | the checks are made on a row read before; only the cooldown is a condition of the write, and the password is changed before its date is | the cooldown lies between two updates, a course is set once, year and section agree |
| Accounts (`api/accounts`, `api/profile/deactivate`) | `Account` rows, login users | create, edit, batch, delete, restore, deactivate | two stores without a transaction; decisions on rows read earlier | the stores agree, an administrator stays |
| Registration, callback (`api/auth/register`, `callback`, `magic-link`) | the same | register, confirm, link, clean up | the same, by users; `signUp` of a taken address answers as if it had made the user | nobody is activated who did not confirm |
| Login, MFA, passkeys (`api/auth/login`, `mfa`, `passkey`) | attempts, locks, challenges, backup codes, counters | sign in, enrol, verify, disable | increments and compare-and-sets that overlap | locks lock, codes are used once, counters never go back |
| Sessions, maintenance gate (`supabase-session.ts`, `account-cache.ts`, `lib/api.ts`) | caches in memory and Redis | get, fill, invalidate, toggle | a late fill overwrites an invalidation | bounded staleness |
| Rate limits, Redis (`rate-limit.ts`, `redis.ts`) | a sorted set in Redis, buckets in memory, a breaker | ask, count, revive | Redis comes and goes, calls time out, a refused password is remembered for good | each limiter keeps its limit; Redis is used again |
| Audit logger (`src/lib/audit.ts`) | a batch in memory | append, flush | the batch dies with its instance (documented) | at most once |
| Retention, keep-alive, e-mail, realtime, schedules, dashboards, exports, offline snapshots, file import, UI | - | - | - | - (section 8) |

The parts interact like this: scanner -> scan queue (a call), queue -> server (HTTP,
retried), projector -> scanner (pictures of a code, two clocks), server -> database (each
call atomic, nothing between them), administration -> the rows the handlers have read,
account routes -> database and Supabase Auth (two calls, either may fail), every route ->
session caches and limiter. `PROJECT.json` lists the hazards of this code, line by line,
with the properties that would notice.

## 2. Modules

| Module | Models | How it corresponds to the code |
|---|---|---|
| `EventTime` | `event-time.ts` | pure operators, integers for instants, the lags as constants |
| `Targeting` | `event-visibility.ts`, `event-targeting.ts`, the override route's own rule | pure operators |
| `Attendance` | both POST handlers and what goes on around them | below |
| `AttendanceLedger` | the promise, without requests | abstract specification that `Attendance` implements |
| `SyncQueue` | what the two queue hooks share | below |
| `ScanQueue`, `OverrideQueue` | how each takes an error; its buttons; its `Next`, fairness, `Spec` | extend `SyncQueue` |
| `Delivery` | a student's queue together with its requests, the key's registration and the server | extends `ScanQueue`; the table is an instance of `AttendanceLedger` |
| `QrToken` | `qr-token.ts` | pure operators; a code is the tuple it was computed from |
| `ScanCapture` | `handleDecode` and the camera in `scanner.tsx`, projectors with clocks | one action per callback |
| `Events` | create, patch, cancel, hard delete of an event | an action per database call; a body is a partial function of fields, `Valid` is the zod schema with its refinements |
| `Reminders` | the reminder job among the requests of `Events` | extends `Events`; four calls per run, a retry, changes of students |
| `DeviceKeys` | both ends of a registration | phone calls (`Begin`, `Generate`, `Send`, `Receive`, `PutRecord`, ...) and server calls (`Count`, `Find`, `Create`, `Recount`, `RevokeExcess`) |
| `Cooldown` | `cooldown.ts` and the clock | pure operators and `Pass`, which moves the clock up to the end of the oldest request |
| `Profile` | PATCH of a profile by its owner, beside edits by administrators | `Read`, `Check`, `Write`, and `Edit` |
| `PasswordChange` | POST of a new password | `ReadAccount`, `CheckCooldown`, `Verify`, `UpdateUser`, `Stamp`, and resets by e-mail |
| `Accounts` | the two stores and what every account request does to them | shared operators |
| `AccountAdmin`, `Registration` | the administrators' routes; the users' own | extend `Accounts`, an action per call |
| `AccountRequests` | their composition and its properties | `Next` |
| `SignIn`, `SecondFactor` | login, callback and passkeys; second factor | `SecondFactor` extends `SignIn` and has `Next` |
| `Sessions` | `requireAuth`: account cache in memory and Redis, maintenance switch | an action per awaited call, two instances |
| `RateLimit` | `rate-limit.ts`, `redis.ts` | script, memory bucket, breaker, client status |
| `*Proofs` | - | theorems (section 6) |
| `MC*` | - | small instances; three of them put two models side by side, of which a behaviour takes one (section 3) |

**Common conventions.** A handler is a process: a record with a program counter that names the
call it does next and with what it has read, which may be stale. Synchronous code after an await
belongs to the step of the next call. Nothing forces a handler on: one that stops is a dead
instance. Tables are sets of rows or functions; constraints and the `where` of an `updateMany` are
conditions of the step that writes. Variables and fields marked *history* are read by properties
only. A definition named `X_Y` is no part of a model: it is the definition `X` with a slip `Y`, as a
programmer might make it, kept to show that a property notices (see `mutants` in `PROJECT.json`).

**Attendance.** The program counter is `lookup`, `event`, `verify`, `check`, `write`, `audit`, and
for an override `insert` or `update`, the second half of its upsert, which looks for the row first (`FindRow`); what was read is `seen`, `event`, `class`. The unique constraints and foreign keys are conditions of
the writing step (`IsDuplicate`, `ForeignKeysHold`). The two branches of the scan route run the same
checks in the same order, so they share the steps and differ in `FindEvent`, `ScannedInWindow` and the
write. What is posted is a certificate together with the account of the session. The certificate names no account, and the
route does not compare the owner of the key that signed it with the session's account (the override route does), so `signer` and
`student` of a post are two fields. `SendScan` picks a new certificate or one that an earlier request carried (a client whose
request died sends it again), under any session. `genuine` stands for the outcome of the token and sub-frame checks, which is
`QrToken!Genuine`. *Left out*: rate limiting, the realtime message, `lastUsedAt` of a key, forensic
columns, and the in-memory batch of the audit logger (an entry counts from when it is handed over). The
idempotency key is derived from the nonce, so the two are one column `key`.

**SyncQueue.** `order`, `status`, `attempts` are `localStorage`; `shown` is the React state of the view
(the effect and the buttons look at it, the drains do not). A drain is a record: the view whose
closure runs it, the item it waits for, the items of its list it has yet to send, which it takes in the
queue's order. `Proceed` is the loop from one await to the next. Unmounting clears the timer and nothing else; a view that comes back has a new timer
and a new `onlineRef`, while drains of the old one go on with theirs. A scan whose signature was begun in a view
that is gone is queued by that view's hook (`Enqueue`), with a timer that still fires, unless the page was closed (`"dead"`). A crash loses everything but
`localStorage`. *Left out*: a change of account in one view, two tabs, a full `localStorage`, the
texts shown; `online` events are those of one network.

**Delivery.** Each step of the phone is a step of `ScanQueue` with what it means on the network. A drain that waits has a
request (`replies`), which is answered, refused or lost; one that is given up, or whose page was closed, is `late` and may
reach the table at any time. `Serve` is the scan route as the table and the phone see it: the row is there, or the ledger
moves, or the scan is turned away. That the route's calls do nothing else to the table is `Attendance`'s refinement of the
ledger (run `attendance`, theorem `LedgerImplemented`). `Capture` is the end of `handleDecode`: queue the scan, start
the registration in the background. `deviceKey` is the server's side of the phone's one key, `marked` the flag in IndexedDB,
`calls` the registrations under way. A key that another record has replaced is in `DeviceKeys`. *Left out*: the deletion of a key together with its account
(its requests are turned away at the session), and a session that is not the queue's student's: the queue is kept per account, but a sign-in in
another tab changes the cookie its requests go out with. What the server then does is in `Attendance`.

**ScanCapture.** Time is counted in sub-frames. Each projector's clock is ahead of the phone's by a
fixed offset and the picture may be a little old; key access takes up to `MaxSigning`. The module's
assumption says by how much all that may be off: less than the tolerance of the token.

**Accounts.** `accounts` is the table, `users` the users of Supabase Auth. Transactions are those of
TiDB: find and count look at the snapshot taken when the transaction began, `updateMany` and delete take
the rows as they are. Where addresses are to be confirmed, `signUp` of one that is taken is no error: it answers with the user who has
it if he is unconfirmed, with a made-up id if not, or refuses, and the route goes on with the id it got (`AnswersWith`); *history* `reused` marks
such ids. `stale` of a request collects the rows that others wrote since it began, `trusted`
who still passes for an administrator in a cached session; `lost` and `failed` record what a failing call
of the authentication service is known to leave behind (the code logs it).

**Profile and PasswordChange.** One account each; they share the clock only. A role is that of the session,
which need not be the row's. The strings of a profile are members of small sets, a section a pair of its year and a
letter, and `courseModifiedAt` whether it is there. `edited` is history: whether the year and section there are come from
requests of the owner that no edit overtook. The password is a value; the authentication service may fail at
any call, and a request that dies between the change and the stamp leaves the change in `unstamped`. Dates are in
milliseconds, so an answer over the network comes later than the check before it.

**SignIn and SecondFactor.** One account. Counting a failure, setting the lock, bumping the attempts of
a challenge, consuming it, spending a backup code, resetting the counters are steps of their own, as they
are statements of their own. A code or an assertion is a value that is right or not; whether the counter
of a passkey may be stored is `MayStoreCounter`. *Left out*: the rate limits in front, the cookie with a
passkey's challenge.

**Sessions.** Entries carry the time they were cached. Redis may be passed over at any time, and a call
that times out takes effect within `Latency` or never; clocks of the instances agree; there are fewer accounts
than `MEM_MAX`. `was` remembers when a value was replaced, so that the properties can say how old what a
request goes by may be.

**RateLimit.** Times are ages and remaining times, so no bound on the clock is needed. `refused` is `initError`: an attempt to connect
that is answered WRONGPASS or NOAUTH (`RefusePassword`) turns Redis off on its instance for good. *Left out*: the
loading of the script (`EVALSHA` that misses), eviction of memory keys, and that Redis may lose its data when it
breaks (the log is kept, so `RedisWindow` is of a Redis that persists).

## 3. Runs

Ten runs check properties and two end in a disagreement of section 5. `attendance` has three
bounds, `queues`, `scanner` and `profile` two instances each: a variable of the `MC` module says which of them a behaviour is of, and
what belongs to the others rests.

| Run | Instance | Shows |
|---|---|---|
| `attendance` | two scan requests of one student and one override by either of two of the staff, one of them an admin, time 0..2, no edits, two schedules; or one scan, one override, two edits of any kind (a patch of the event leaves its windows or returns to the default ones), two sections, two targets; or two scans, new or the same certificate again, each posted under the session of either of two students whichever one's device signed it, with one deletion or revocation; 1,732,306 states | `UniqueAttendance`, `OverridesAreMarked`, `AnswersAreTrue`, `AuditedOnce`, `TimeOutIsFinal`, `InstantsFellInWindows`, `CancelledEventIsFrozen` when scans, retries and an override race and when events, accounts, lists and devices change under them; and the handlers implement the ledger (`ImplementsLedger`) |
| `queues` | two items, two views, two attempts; two drains at once and one loss of the network, or for overrides one drain at a time and one retry; 509,764 states | `NoneStranded`, `SettledStays`, `RecordedIsNotFailed` with lost answers, conflicts, refusals and retries, and, with fairness, `EverySettles` |
| `scanner` | two projectors two behind and three ahead, blocks of five sub-frames, two blocks of time, one certificate, and every array of up to four of 13 frames; or two scans of one event, one drain at a time, one attempt, two views, the network there or coming, and one of: the event deleted, the student entered by an organizer, the key revoked; 1,137,833 states | `ScansAreAccepted`; `AcceptsAsSorted` (the set definition of a run is the sort-and-compare of the code); `SentIsPresent`, `MarkedIsKnown`, across requests lost, answered twice, given up, or left behind by a page |
| `reminders` | two runs with a retry, one student, an event that is due, two changes (requests of the events API or changes of the student); 713,651 states | `EveryoneIsReminded`, `RemindedOnce`, and of the events `DepartmentalIsForAll`, `GivenTimeOutOpens` |
| `device_keys` | two phones, three registrations, a cap of two, four keys; 574,040 states | `CapHolds`, `RegisteredIsKnown` |
| `accounts` | an administrator, another account in any of eight conditions, an id and two login users to spare, three requests of any kind; 1,892,392 states | `NoUserWithoutRow`, `NoRowWithoutUser`, `GuardedRoutesKeepAnAdmin`, `ActivationIsEarned` |
| `profile` | a cooldown of six and requests that last one; two requests of either kind of session with every valid body (another name by itself), two rows at first, one edit by an administrator, time 0..7; or two changes of a password at a time, two passwords, resets, time 0..7; 1,038,194 states | `CourseOnce`, `PlaceConsistent`, `UpdatesSpaced`; `ChangesInBursts` |
| `sign_in` | three requests of any kind, three initial accounts (no factor, enrolled, on with two challenges open), limits of two, time 0..2; 649,129 states | `FailuresLock`, `ChallengeOnce`, `BackupOnce`, `EnabledWasProved`, `CounterNeverBack`, `ShownCodesAreKept` |
| `sessions` | two instances, two requests, lifetimes of two in memory and in Redis, one write of the row and one of the switch, time 0..8; 2,754,610 states | `AccountsAreRecent`, `SwitchIsRecent` |
| `rate_limit` | one instance, two requests, a limit of two per three units, a cooldown of one, the password refused at any attempt to connect or never; 80,882 states | `RedisWindow`, and, with fairness, `Recovers` |
| `dead_zone` (`MCDeadZone.cfg`) | as `scanner`, two attempts | ends in a violation (section 5) |
| `counted_once` (`MCCountedOnce.cfg`) | as `attendance` | ends in a violation (section 5) |

**Bounds and why they are enough.** A race between a check and a write needs two requests; a third
(the override in `attendance`, any request in `accounts`, `sign_in`, `device_keys`) is what comes
between the two, or finds what the two left. One event suffices for attendance, and one student but for the nonce, which is unique across the
table: the third bound of the run has a second student for it. The proofs assume neither. Time 0..2 with grace 1 has a late
scan, a scan from the future, both edges of both windows and the instant where the adjacent windows meet.
Two edits are a change and its undoing, or a cancellation after a patch. Limits are two instead of five or
ten: with two, "not yet", "the last" and "too many" all occur. Two views are the smallest number with a drain
of a view that is gone. In `scanner` one drain and one attempt are enough because a request nobody waits for goes on beside
the next: a scan is in two requests when it was given up, or its page closed and the next view sent it again; overlapping drains
are in `queues`. The key is registered twice at once only while no request is on its way and nothing happened to the table; the
proofs of `Delivery` have none of these bounds. Blocks of five sub-frames hold a run of three with gaps and let the clock cross a
boundary. Eight units of time in `sessions` are more than one life in Redis, one in memory and the calls
between, which is the staleness claimed. Time 0..7 in `profile` has two updates with their cooldown between them and a request that
spans its end; a cooldown of six leaves room between a burst of password changes (up to two) and the next change (from four). `MaxCounter`, `MaxTime`, `MaxEdits`, `MaxWrites`, `MaxChanges`,
`MaxFailures`, `MaxRetries` bound what would go on for ever and stand in the guards;
`OneAtATime`, `Alone`, `ByO1` and the like, in the `MC` modules, narrow one of two instances and say how.
`CHECK_DEADLOCK FALSE` where requests are finitely many and nothing is left to do when all are answered; the
scanner stops when its certificates and its time are used up; the queues, `sessions` and `rate_limit` always have a step. `SYMMETRY` is used in runs without liveness only.

## 4. Fairness

*Queues.* Timers fire and effects run (`WF` of `Fire` and `Effect`: the browser's event loop); a request
is answered or fails (`WF` of `Answered`: the browser gives up and the server has a `maxDuration`); the network
comes back and the user comes back to the view (`WF` of `LinkUp` and `Mount`; without them nothing can be
promised of an offline queue). Nothing is assumed of which answer comes, of the user's buttons, of unmounting
or of crashes. `EverySettles` holds while no drain, timer or signature outlives its view into the next (`NoneOutlives`).

*Rate limiter.* Time passes; a call that was sent ends, by an answer or by its timeout (`withRedisTimeout`, `REDIS_OP_TIMEOUT_MS`); a
client that is reconnecting or reviving takes its next step (ioredis' timers); and requests keep coming to every
instance (`SF` of `Ask`: it cannot be asked in the instant another request blocks it, but again and again).
Redis itself may break and be repaired for ever; `Recovers` speaks of behaviours in which it stays up in the end, and excuses an instance
whose password was refused at an attempt to connect (`redis.ts:229`, `278`): that one does not come back.

Everything else is safety, and holds of instances that stop at any point.

## 5. Where code and documents differ

Two disagreements are runs of their own:

- `CountedOnce` (run `counted_once`). `POST` decides between time-in and time-out by the row it finds, and
  the update that records a time-out stores no nonce. The same certificate, sent again while both windows cover
  its instant, is counted as time-in and then as time-out. `ARCHITECTURE.md:383` says that re-draining returns
  `alreadyPresent`.
- `DeadZoneCounts` (run `dead_zone`). The key is registered in the background after a scan and at no other time of a
  student's visit (`views/scanner.tsx:326`; `device-key-client.ts:326` says "after login (or on first scan)"). If the first scan is made without a network, that call fails and its
  error is dropped; when the network is back the queue sends the scan, the server turns it away as of an unknown device
  (`api/attendance/route.ts:337`), and each refusal counts as a try: after five the scan is failed for good, within seconds and
  not minutes, unless the student scans once more in time. `README.md:10` promises that a scan made in a dead zone is valid if synced within 15
  minutes. `MarkedIsKnown` is what holds: once the phone has seen its registration succeed, this does not happen.

Others were met while the code was translated. Where a definition is named, it is in the module and no run checks it:

*Attendance and events*
- `Attendance!SyncedInTimeCounts`: a time-out is refused on the time of syncing in a "dead zone"
  (`api/attendance/route.ts:121`), whereas `README.md:10` promises that a scan made in time counts when it syncs later.
- A certificate is not bound to the session that posts it: `attendance/route.ts:128-136` and `334-344` check that the signing key is
  registered, not whose it is (`override/route.ts:145` does). Posted under a second session after it was counted under a first, it runs into the
  nonce, which is unique across the table, and the second student is answered `already_scanned`, "You are already marked present"
  (`:553-560`), without a row. `AnswersAreTrue` names this exception (`CountedForAnother`) and holds otherwise.
- `ALREADY_OVERRIDDEN`, "This student already has an override for this event" (`override/route.ts:311-316`), is also the answer where there is
  none: a scan that writes the row between the two statements of the upsert makes the transaction fail on a unique constraint and roll
  back. The queue counts the 409 as sent (`use-override-queue.ts:164-180`), so the organizer sees an entry sent that does not exist;
  the student is present, by the scan. `AnswersAreTrue` and `OverrideQueue!SyncedIsPresent` say the latter; `RecordedIsNotFailed` is about entries that are there.
- An override of a student who has a row stamps its `scannedAt` again with the time of the entry (`override/route.ts:294`);
  `InstantsFellInWindows` looks at `scannedAtClient` and at the time-out, which it leaves alone.
- `event-time.ts:87-90` says that times out of order fall back to the defaults; for an event that ends within an
  hour the defaults are themselves out of order (line 154), so that nobody can time out.
- `event-targeting.ts:23` says "same semantics" as the events API; for an event with sections and no courses the
  reminder job and the scan route have different audiences.
- `.default("academic")` under `.partial()` (`validation.ts:319`) still fills in the scope, so a patch that does not
  mention the scope resets it (`api/events/[id]/route.ts:159`). `Events` models it so.
- The reminder cron runs once a day at eight (`vercel.json`) and looks 30 minutes ahead: it reminds of events
  that start by half past eight only (`ARCHITECTURE.md:585` says the same, without the consequence).
- `createMany` of a reminder run fails as a whole when one account is deleted meanwhile (a foreign key).

*Queues*
- `ScanQueue!BackoffRespected`: the effect at `use-scan-queue.ts:228` asks for an immediate drain whenever the queue
  changes, and a failed drain changes it. `:7-9` and `ARCHITECTURE.md:526` describe an exponential backoff.
- `SyncQueue!AutoSyncs`: `:221` clears the timer of a view that goes away and leaves its drains running; such a
  drain may put an item back in storage which the new view does not look at. A signature that ends after its view was left
  queues its scan likewise, where the new view does not show it, and the old hook's timer has one try at it. `EverySettles` excludes both.
- `ScanQueue!FailedIsRetried` (under `InsistentSpec`): a failed scan is "kept for manual retry"
  (`ARCHITECTURE.md:527`), but a drain takes pending scans only (`:94`) and no button makes a failed scan pending.

*Accounts and sign-in*
- A registration of an address that is taken (`api/auth/register/route.ts:130-161`): where addresses are to be confirmed, Supabase's `signUp`
  reports no error but answers with the existing user while he is unconfirmed, and with a made-up id once he is confirmed; the "already
  registered" the route looks for (line 141) does not come. The route then creates the row of a user who is another's or nobody's, or fails on a unique
  constraint and removes the user (line 192), whose account row another registration may have created. It takes two registrations
  of one address at once; or, without any overlap, a pending account whose address an administrator changed in the table but not at Supabase
  (the synchronisation failed), and then a registration of the old address. `NoRowWithoutUser` holds except for such users (`reused`).
- A sign-in that read its account as pending sets it ACTIVE by an update that asks for nothing (`callback/route.ts:162`, and likewise
  `login/route.ts`): if an administrator suspended it in between, the suspension is gone. `ActivationIsEarned` is what holds: it
  excepts rows written since they were read, and no others.
- `AccountRequests!ConflictMeansChanged`: demoting an administrator who is suspended or pending always answers
  "just changed", because the update asks for an active one (`api/accounts/[id]/route.ts:145`) and the decision to
  use it does not (`:104-107`).
- `AccountRequests!AnAdminRemains`: `ARCHITECTURE.md:412` speaks of a trigger `guard_last_admin`. It is a
  migration for PostgreSQL (`supabase/migrations/0012_last_admin_guard.sql`); the tables of TiDB (`schema.tidb.prisma`),
  whose isolation the routes reckon with, have none, as a comment of `batch/route.ts` says. Two demotions of two administrators that overlap may leave none, within the limits
  that `GuardedRoutesKeepAnAdmin` draws.
- A batch that demotes administrators narrows its update to live administrators (`batch/route.ts:169`): its other
  targets are skipped without a word, and the answer counts those that were updated.
- A lock is set where `lockedUntil` is null (`login/route.ts:172`). Once a lock has expired it stays in the row until
  a sign-in succeeds, and further failures set none; `FailuresLock` says what is left of "5 failed attempts".
- Two verifies and a disable that overlap may leave the second factor on without a secret. `EnabledWasProved` excludes
  requests that were overtaken so (`overtaken`).
- `Sessions!CachedOnce`: "cached 30s" (`ARCHITECTURE-SECURITY.md:127`) is the life of one entry. The cache in memory
  is filled from the one in Redis, so the two lives add up; `AccountsAreRecent` states the bound that holds.

*Profile and password*
- `Profile!NoOpsAreFree`: the page sends an empty program for "Not specified" (`views/profile.tsx:216`). Where the
  profile has a program, that counts as a change and passes, stamps the date of the update and is not written
  (`api/profile/route.ts:214`): nothing is saved and the cooldown begins. The comment on line 148 says that a submission
  in which nothing changed should not consume it.
- `PasswordChange!PasswordCooldown`: the password is changed before the compare-and-set on
  `lastPasswordChangeAt`, whose count is not looked at (`api/profile/password/route.ts:91`): of requests that overlap each
  changes the password. `README.md:18` says that concurrent requests cannot halve the cooldown. `ChangesInBursts` is what
  holds: the changes within one cooldown are of requests that overlap.
- A request that comes when exactly the cooldown has passed is admitted by `isCooldownExpired` (`>=`,
  `cooldown.test.ts:18`) and refused by its own update, which asks for a date *before* the cutoff: one millisecond
  in which the answer is that of a lost race.

*Rate limits and device keys*
- One refused password turns Redis off on an instance until it is restarted (`redis.ts:229`, `278`: nothing resets `initError`), also
  when it was the server that was misconfigured for a moment. The comment on line 275 says so of authentication errors; `Recovers` excuses such instances.
- Sensitive presets are documented to fail closed (`ARCHITECTURE.md:558`); they go over to the bucket in memory
  (`rate-limit.ts:375-389`), which limits each instance by itself.
- A full window of Redis may admit more than its limit when scripts arrive out of the order in which their
  timestamps were taken: a script that comes late does not see what a later one has removed. `RedisWindow` is about
  the requests that asked within the *last* window, at every moment; of any earlier window, what was never
  cut away is a window less the time a call takes.
- Registering a key that was revoked answers ok and leaves it revoked (`device-key-server.ts:76-82`); `RegisteredIsKnown`
  is about what the server knows, not about what is active.
- The second count of a registration may find too many and revoke a key this request only found
  (`device-key/route.ts:84-90`); a retry of a registration whose answer was lost at the cap gets `DEVICE_LIMIT`
  although the key is there. `markDeviceKeyRegistered` flags whatever record the phone has by then.

## 6. What is proved

54 theorems in eight modules, for every value of the constants; `tlapm` checks them to the last leaf. All safety
properties of the runs are among them but one (section 7); `SentWasSaved`, `OffTheListWasSaved`, `SentEntryIsPresent`, `MemoryHoldsTwice` and
the `TypeCorrect`s have no run of their own. Each is proved from an inductive invariant: the property with
what a step must know of the others to keep it. What follows says what that is, and why the property alone is not enough.

- **`AttendanceProofs`**: every property of the attendance run. `TypeCorrect` knows the shape of a request at each
  program counter, which the rest builds on. The steps are then sorted by their effect on the tables (a row appears, a
  time-out is set, an audit entry is added, nothing changes), and the invariants are proved once per kind of effect.
  - `OneAttempt`, `OverridesStayMarked`, `TimeOutsFinal`: from the constraints, which `Effects` carries to each step.
  - `AnswersStayTrue`: `ToldInv` = one row per pair, posts and rows of known events and students, and every answer
    given so far is borne out by the rows, by a deletion, or by the row the same certificate has under another session (`Elsewhere`);
    `ToldOver` says the same of the answers to entries. A conflict is borne out by the row of the entry that stands (so the proof takes `OverridesAreMarked`) or by
    the row the insert ran into.
  - `OneAuditEach`: `AuditInv` adds that no row is an orphan, that audit entries speak of transitions that happened, and
    that of the requests about to write an entry each claims a transition of its own. Without the last part the invariant is
    not inductive: two requests at `audit` might write the same entry.
  - `InstantsAreVouchedFor`, `CancelledStaysFrozen`: `WorkInv` says what a request between its checks and its write has
    established about the event *it read*, which need not be the event as it is.
  - `LedgerImplemented`: `Spec => Ledger!Spec`, by the mapping of rows to entries (`ledgerOf`). Requests in flight are not
    in the mapping; every step is a step of the ledger (`LedgerMoves`) or leaves it alone.
- **`ClientProofs`**: the scanner and both queues, in one module because they share facts on finite sets and sequences.
  - `WhatIsScannedIsAccepted`: `CaptureInv` says that the frames collected are of one event and block, each once
    (`IsCollection`), and that a signature under way is of such frames, enough of them in a row (`IsViewing`), whose block was
    on the screen when it was begun (`WasShown`), not longer ago than a key access may last (`IsSigning`). That such a certificate passes is `ViewingIsLive` for the sub-frames
    and the module's bound on clocks and delays for the token.
  - `SortedAlike`: sorting the frames and comparing neighbours accepts a set exactly if the models' definition does, for
    every permutation that sorts. `LiveIsViewed`: what the check of the server says of frames it accepts. Both rest on
    `Sortable` (any finite set of frames can be put in order, by taking a least element away, well-founded) and `StepsAddUp`
    (neighbours at least one and at most two apart bound the distance of the ends).
  - `SentWasSaved`, `NoScanHangs`, `OffTheListWasSaved`, `SettledIsLeftAlone` of the scan queue, `SentEntryIsPresent`,
    `GivenUpWasTried` of the overrides. Common to both is `QueueInv`: an item shown as being sent is the one that a drain of this view
    waits for; `Taking` says which item `Proceed` picks. `FailedInv` adds for overrides that an entry that has
    failed was answered as often as it may be, or refused.
  - `SentReachesTheTable`, `MarkedKeysAreKnown`, `DeliveryTypeCorrect` of `Delivery`, and `QueueImplemented`: every step of it is a
    step of `ScanQueue` or leaves the phone's queue alone, so that the invariant of the queue carries over (`DeliveryIsScan`). `DeliveryInv` adds that what
    was acknowledged is accounted for (`Accounted`: the row, or a deletion), and so is what an answer "ok" *on its way* speaks of
    (`RepliesInv`); that an answer belongs to a scan a drain holds and that was signed (`HeldInv`); that a
    registration granted, or the flag, means the server has the key (`KeyInv`), so that no refusal for the key is
    on its way to a scan signed under the flag. Without the part on answers neither property is inductive: what is
    true when the server answers must still be when the answer arrives.
- **`AccountsProofs`**: types, and the four properties of the account requests.
  - `UsersKeepRows`, `RowsKeepUsers`: a login user belongs to one row, or to the one request that made it and has yet to
    write the row (`OneOwner`), unless it is shared: `signUp` answered a registration with it that had not made it (`Sole` is the contrary). Of a shared user nothing
    is known but that rows are unique in it; that users made by administrators or by mails are never shared follows from their being confirmed (`UserShared`). `UsersCovered` and `RowsCovered` are the properties with the requests that account for
    the exceptions; they hold one another up, since a rollback deletes a user who is not shared only when no row has him.
  - `LastAdminIsGuarded`: `KnownInv` is what a request knows *as long as nobody else wrote*: that the row is as it was read,
    the snapshot is the table, and the count of the other administrators still stands. Each write by another request makes it
    stale and so released from that.
  - `ActivationsAreEarned`: `ConfirmedInv`: a callback is of a confirmed address, addresses do not become
    unconfirmed, and a request about to activate a row that is not among those written since (`stale`) has before it a pending row of its own user.
- **`SecondFactorProofs`**: `TypeCorrect` together with `RequestOK`, what a request has in hand at each step;
  `WrongPasswordsLock` (`LockInv`), `OneEntersByAChallenge` (`EnterInv`: a challenge that is consumed has at most one request that
  got past it), `ABackupCodeIsGoodOnce` (`BackupInv`), `AFactorThatIsOnWasProved` (`FactorInv`: a code proved is for the secret
  that was read, and if the secret changed since, the request is marked as overtaken), `PasskeyCounterGrows`,
  `CodesShownAreKept`.
- **`SessionsProofs`**: `StaleAccountsLapse`, `StaleSwitchLapses`. A value in hand was the true value at some instant; the
  invariant gives each place a value can be (the row read, Redis, memory, a request at each step: `RowLag`) the age that
  instant may have there (`RowAt`, `SettingAt`), and each call in flight the time since it was sent (`Timely`). The bound of
  the property is the sum of the ages along the longest way.
- **`RemindersProofs`**: `EventsInv` (every row has its columns and instants, a departmental one has no target, and a patch about
  to be written keeps that of whatever row it finds: `IsRow`, `IsPatch`) gives `DepartmentalStaysForAll` and
  `TimeOutsOpen`. `NobodyIsLeftOut` and `NobodyIsPestered` need it together with `RunInv`: what a run has found starts in
  its window (`HasLooked`); who was due all along is in what it found, in what it is about to write, or reminded
  (`LosesNone`); what was there when it began it does not write again (`RepeatsNone`). The last step needs that a run looks no
  further ahead than it looks back (`Lead <= Memory`), which the code's 30 and 60 minutes satisfy.
- **`RateLimitProofs`**: `RedisHoldsTheLimit`: the log of Redis never holds more than the limit, and what was let through in the
  last window is in it (`Logged`). `MemoryHoldsTwice`: what the memory let through since its bucket began is counted in it, and
  what it let through before is at most the limit again (`Remembered`). Both need that counts over ages shift with time and add
  up over a split of the ages.
- **`ProfileProofs`**: device keys, the profile and the password. `CapIsKept` (`CapInv` adds `OneCreator`: of the requests for a key one at most created it, so that
  no pending registration is counted twice); `BelievedIsKnown` (`KnownInv` adds that a request past the registration has its
  key in the table, and that the calls of a phone hold the key of its record unless it was replaced).
  - `CourseSetOnce`, `PlaceStaysConsistent`, `UpdatesAreSpaced`: `ProfileInv`. That the write asks for the cooldown only is
    enough because of `TooLate`: once the owner has updated the row, a request that read it before carries a stamp whose
    cutoff is not past that update, for no request lives as long as half a cooldown; so it is refused. Of the others
    `ReadStill` says that what they read is what is there, until an edit overtakes them, and `WritesStill` that what they
    are about to write was checked against it.
  - `ChangesComeInBursts`: `PasswordInv`. Every stamped change has a date in the row that is at most two requests' lifetimes
    older than it, or a request that has yet to stamp it (`Accounted`); a request that has passed the check
    knows of every change made before it began or overlaps its request (`KnowsChanges`, `SeenIsLast`).

**Assumptions.** They are the `ASSUME`s of the modules, named after them; TLC evaluates each on a run. Most say that
bounds, lags and lifetimes are numbers and that a value standing for "none" is no other value. Beyond that:
`EventTimeAssumption` that the lags are ordered as in the code; `ScanCaptureAssumption` that clocks and delays together stay
within the token's tolerance (without it no certificate need pass); `RemindersAssumption` `Lead <= Memory`;
`DeliveryAssumption` that an entry of the table is told from none; `RateLimitAssumption` that a call is shorter than a window; `CooldownAssumption` that two requests together last no
longer than the cooldown (the platform ends a request after seconds, the cooldown is 30 days); `ProfileAssumption` that the
values for "none" differ from all others and that a profile is consistent at first, with no cooldown running; `DeviceKeysAssumption` that there are finitely many keys and the cap
holds at first; `AccountRequestsAssumption` that addresses and login users are unique at first, as the table's constraints
have it; `InitialStatesAssumption` that an initial account is consistent (a factor that is on has a secret, a full count of failures has its lock); `EventsAssumption` that the
rows there at first are ones the API could have made and that a body's instants are instants, which zod checks.

## 7. What is only model-checked

- `EverySettles`, `Recovers`: liveness under fairness, and `ENABLED`, are beyond the prover.
- `AcceptsAsSorted` uses `SortSeq`, which the prover cannot expand; `SortedAlike` proves the same of any
  permutation that sorts.
- That `order` remains a sequence of the queued items (`SyncQueue!TypeOK`): the type of what `SelectSeq` returns needs an
  induction over data. The proofs about the queues get along without it.

## 8. What is not modelled, and why

Most of the repository is presentation: views of the interface, the client for the API, charts, formatting, exports,
e-mail templates. It changes no state that several actors share, and a model would say no more than the code. The
models cover the routes and hooks that keep the protocol state and a small share of the lines. In particular:

- *Retention and keep-alive*: independent deletions by age. *Notifications, e-mail, realtime*: fire and forget, to outside
  services. *Schedules*: create, read, update, delete of rows nothing else reads. *Dashboards, exports, offline
  snapshots*: read-only. *File import*: parsing, and checks by outside services.
- Of the parts that are modelled: the QR token of three parts that no client produces any more; two tabs that share a queue,
  and a change of account in one view; the
  in-memory batch of the audit logger; cryptography (a certificate, a code, an assertion is genuine or it is not); tokens and
  cookies of Supabase.
- *Limits of the models*: a call to Redis that times out takes effect within `Latency` or never; memory caches stay below
  `MEM_MAX`; the clocks of the instances agree (those of phone, projector and server do not); Prisma's calls are atomic
  each, and the interactive transactions have TiDB's snapshot reads.

## 9. What could come next

`AnAdminRemains` under the interleavings that keep it; two tabs over one `localStorage`; the organizer's queue composed with
the server, as `Delivery` does for the student's; a proof that the queues drain under the fairness assumed.
