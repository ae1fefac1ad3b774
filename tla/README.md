# Verification of Internet ID

TLA+ modules, TLC configurations and TLAPS proofs for Internet ID: a content
provenance system in which a creator registers the SHA-256 of a file in a
contract, binds platform posts to it, and anyone can check a file or a post
against the registry. Paths below are relative to the repository root; the
modules are in this directory.

## 1. The system

| Component | State it keeps | Operations | Talks to |
|---|---|---|---|
| Registry contract (`contracts/ContentRegistry.sol`, `ContentRegistryV1.sol`) | `entries`, `platformToHash`, `hashToPlatformKeys` | `register`, `updateManifest`, `revoke`, `bindPlatform`, `resolveByPlatform` | emits events |
| Upgradeable proxy (`ContentRegistryV1/V2.sol`, `deploy-upgradeable.ts`, `upgrade-to-v2.ts`) | the same storage, `_owner`, implementation, V2's counter | `initialize`, upgrade, `transferOwnership`, `renounceOwnership`, `registerV2` | delegates to the contract |
| Verification queue (`services/verification-queue.service.ts`, `routes/verification-jobs.routes.ts`) | `VerificationJob` rows, BullMQ jobs, uploads in the temp directory | POST `/verify`, `/proof`, worker, poll, list, stats | Redis, database, RPC, IPFS |
| Cache (`services/cache.service.ts` and the routes that use it) | Redis keys with a TTL | `get`, `set`, `delete`, `getOrSet`, `connect` | Redis, database |
| Publishing (`routes/register, binding, oneshot, manifest, upload.routes.ts`, `content-db.service.ts`) | `Content`, `PlatformBinding`, `User` rows | register, bind, bind-many, one-shot | contract, IPFS, database, cache |
| E-mail (`email-queue.service.ts`, `email.service.ts`, `notification.service.ts`) | BullMQ jobs, `EmailLog`, `EmailPreferences` rows | queue, process, preferences, unsubscribe | Redis, provider, database |
| API gate (`rate-limit.middleware.ts`, `auth.middleware.ts`, `api-auth.middleware.ts`, `api-key.service.ts`, v1 `auth`, `api-key` routes) | counters in memory or Redis, `ApiKey` and `User` rows, tokens | count, create, verify, revoke, delete, log in | Redis, database |
| Uploads to IPFS (`upload-ipfs.ts`, `upload`, `manifest` routes) | a temporary file | try providers in order, retry, force one | IPFS providers |
| Looking up posts (`health`, `v1/verify` routes, `manifest.service.ts`, `registry.service.ts`) | cached entries and manifests | `/resolve`, `/public-verify`, `/v1/verify/platform`, the look-up over all chains | contracts, IPFS, cache |
| Browser extension (`extension/src`) | cached answers, settings, badges on pages, the popup | detect, verify, badge, refresh | API |
| Web application (`web/app`, `web/middleware.ts`) | forms, toasts, lists, the session, linked accounts, cookie choice, language | post, fetch, link, choose | API, database |
| Backups (`ops/backup`, `ops/restore`) | dump files, WAL/incremental files, the database | full, incremental, clean-up, restore | PostgreSQL, file system, S3 |
| Validation and sanitisation, CLI, SDK, deployment scripts, observability | none of their own | | |

What is hard to test in it:

* **Several writers of one row.** The API and the worker both create and
  update a `VerificationJob` row, each in steps separated by awaits, while
  BullMQ retries, recovers stalled jobs and may run a job twice.
* **Two stores updated one after the other.** The contract keeps a table per
  direction; the routes write chain, database and cache in turn and may fail
  in between; the cache is invalidated after the database was written, by some
  writers only.
* **Sentinels and concatenations.** Content hash zero also means "free", and a
  platform key is a concatenation.
* **Old code, new code.** Upgrades and downgrades happen between any two
  transactions, on shared storage.
* **A page is left while it waits.** A form, a video or the popup is gone when
  the answer to its message arrives, another is there instead, and the browser
  may stop the worker that was asked.
* **Caches on top of caches.** The extension caches what the API answers from
  its cache, entry and manifest are cached apart, and Redis may go away.
* **Attempts that count.** Mails and uploads are retried although the first
  attempt may have succeeded; limiters count in several places, and one
  request several times.
* **Rotation.** Clean-up, full and incremental backups and restores run from
  cron over one directory, and any of them may fail.

## 2. Plan

Order: what the rest of the system trusts comes first.

1. `ProvenanceLedger`, `ContentRegistry` (done): the contract, and the abstract
   ledger it implements.
2. `RegistryProxy` (done): upgrades, ownership and V2 around the contract.
3. `VerificationQueue` (done): asynchronous verification.
4. `CacheAside` (done): the cache with its readers and writers.
5. `PublishPipeline` (done): the publishing routes over chain and database.
6. `BackupRotation` (done): backups, rotation, verification, restore.
7. `Notifications` (done): attempts, log rows, preferences.
8. `ApiGate`, `Extension`, `IpfsUpload`, `Lookups`, `WebApp`, `WebPreferences`
   (done): what stands before and behind the routes, and their clients.
9. Proofs (done): `RegistryProofs`, `CacheAsideProofs`, `PublishPipelineProofs`,
   `VerificationProofs`, `NotificationsProofs`, `ApiGateProofs`, `StorageProofs`
   (uploads, look-ups, backups) and `BrowserProofs` (web application, extension).
   Every safety property the runs check is proved.
10. Left: the web application's inline verifications; WAL files and partial
   restores.

## 3. The modules and the code

**`ContentRegistry`** is the contract at transaction granularity, one action
per external function (`Register`, `UpdateManifest`, `Revoke`, `BindPlatform`),
its storage as variables. `boundEvents` is the event log. A platform key is
the concatenation the contract hashes, so that two pairs can share one.
**`ProvenanceLedger`** is what the contract promises: claims and links are
only added. `ContentRegistry!Ledger` is the refinement mapping (a revoked entry
is still a claim).

**`RegistryProxy`** extends it with the owner, the installed implementation
and V2's counter; a step is a transaction of the installed version, an upgrade
in either direction, or a change of ownership.

**`VerificationQueue`** has the handler of POST `/verify` and `/proof`
(`Upload`, `AddJob`, `CreateRow`, the synchronous branch), BullMQ as the code
relies on it (`mq`: waiting, active, delayed, completed, failed, lock loss and
recovery), and `processVerificationJob` with one action per await. Job rows
(`row`) are written by both, and outlive the counter in Redis from which job
ids come. `Upload` includes the validation that answers 400 after the upload
was written. A `scenario` says which requests come and which faults may happen.

**`CacheAside`** takes one cached key of each kind at a time. The source of
truth is a version number; the writers are programs, lists of changes and
deletions in the order of the awaits of a route; the readers are `getOrSet`.
`redis` is the client's connection: commands are queued while it is away, after
three attempts it is gone until the API restarts, which cuts off what is under
way.

**`PublishPipeline`** has a handler per request. Its steps are the awaits of
the routes: pin the manifest, check the creator, estimate and take a nonce,
send, wait for the receipt, read and write the rows. The contract is reduced to
its `require`s (`Allowed`). `Throw` is the catch clause an exception reaches,
which depends on where it is thrown.

**`BackupRotation`** has the full and incremental backup, the verification and
the full restore as processes over one directory. Files are indexed by age in
days; what a dump holds is "whole" or says what went wrong with it.

**`Notifications`** has the callers (`NotificationService`), the BullMQ queue
and its worker, one action per await, the log rows, and the preferences that the
user changes and views meanwhile; both the direct mode and the queue.

**`ApiGate`** takes a request past the limiter of every mount of `app.ts` it
matches, in order (`Passes`), then past the key or token check; `mem` and `shared` are the
counters, `keys`, `users` and `tokens` the rows.

**`Extension`** is a tab (content scripts of YouTube or Twitter), its popup and
the service worker with its cache. Messages have slots; a page that navigates
keeps its observers, intervals and badges, as the scripts do. The popup's
Refresh button is never disabled, so several of its messages may be under way,
each with the floor that holds for its answer (`ClickRetry`, `handleRefresh`).

**`IpfsUpload`** and **`Lookups`** are the requests that surround publishing: one
upload through its providers, with a temporary file whose write and unlink may
fail, and look-ups of posts whose bindings, manifests
and nodes change meanwhile. They share no variable with `PublishPipeline`;
`MC_PublishPipeline` composes the three so that one run explores each.

**`WebApp`** has the home page's tabs and their forms, the toasts, the list and
the dashboard's refreshes, and the Next.js routes before one-shot and bind; a
tab that is left goes on waiting for its answer. **`WebPreferences`** has what
several tabs of a browser share: the cookie choice and the language. `MC_Web`
composes the two in the same way.

`PROJECT.json` maps every definition to its lines. Definitions called
"Mutant of ..." are what the code might have been: each shows that a property
would notice.

## 4. The runs

A run checks the invariants that are about something of their own by name.
Where a module has a type invariant and several smaller ones about one thing,
it conjoins them under one name (`QueueInv`, `UploadInv`, `LookInv`,
`BackupInv`, `NoticeInv`, `GateInv`, `ShowInv`, `WebInv`, `PreferencesInv`);
each part is stated and explained where it is defined. What is proved
for all constants and needs no run (types of the contract, the proxy, the cache
and the pipeline, `BoundIsRegistered`, `ProvenanceImmutable`, `RenouncedForever`)
is left to the proofs.

| Run | Question | Bounds |
|---|---|---|
| `registry` | Behind its proxy, do the contract's two binding tables, its events and its entries agree after any transactions of any accounts, does it implement the ledger, are upgrades and ownership changes invisible to users, and is the counter bounded? | 3 hashes (one is zero), 2 accounts, 4 platform pairs, 2 keys a content, 2 instants; at most one of: proxy not as deployed, a second key, a manifest URI |
| `queue` | Does the row of each job end up telling its outcome while nothing fails; and whatever fails, are jobs settled, rows one's own, uploads removed by their own requests only, and records at most one more per fault? | 2 jobs (one with a file) with one loss of Redis' data, or 1 job with 3 faults of any kind; 2 worker slots, 3 attempts |
| `queue_down` | violation: with Redis configured and away, a request is not answered, where the documents promise synchronous processing | 2 jobs, no fault |
| `cache` | Is staleness bounded, caused by something nameable, and temporary, and do requests end although Redis goes away? | 5 kinds of keys, every pair of kinds of writers that write the key, 2 readers, 1 fault (loss of Redis included) |
| `publish` | With one wallet and concurrent requests, is the database never ahead of the chain, can answers be relied on, and are lost rows due to faults only? Are providers asked in order and look-ups true? | 2 requests, 2 registries, 2 contents, 2 posts, 3 faults; one upload with every set of configured providers; look-ups of 2 posts in one registry, of 1 post with its manifest, of 1 post in 3 registries |
| `publish_links` | violation: one-shot stores bindings without their content | 2 requests |
| `backup` | Is the last backup lost only after a long, announced failure, is no truncated one restored, and do backups resume? | retention 2 days, 4 faults, 2 restores |
| `notify` | Are mails repeated by faults only, is opting out honoured, does the log tell what was sent? | 2 notices, 2 slots, 2 attempts, 2 faults, 1 change of preferences |
| `gate` | Is the first request of a window let through whatever mounts it pays for, is the strict ceiling kept, and do keys decide at once, whatever overlaps? | 3 requests, 2 processes or Redis, 1 new window or restart, 1 fault |
| `extension` | Is what page and popup show true of what they show it for, shown once, and shown in the end, and does each click on Refresh go past the cache? | 2 videos or 1 post, 2 messages, 1 change, 2 refreshes, 1 fault, divided over four budgets |
| `extension_nav` | violation: after a navigation the badge of the video before stays | 2 videos, 1 navigation, no fault |
| `web` | Do forms, toasts, lists and tabs agree, and do fetches end? | 2 posts, 3 fetches and 3 toasts at once; 2 tabs, 3 languages |

Why the bounds are enough. The contract's functions touch one content and one
key each, and its conditions compare at most two contents and two accounts;
the third hash is the sentinel zero. The proxy adds no storage the contract
reads, so the run takes them together and bounds what a state has of both
(`Bounded`). Races over a row, a key, a nonce, a slot
of the page or a cached answer need two parties; a second worker slot is what
lets an execution that lost its lock meet the next one. Three attempts are
BullMQ's setting; `notify` has two, so that two faults can use them up. A
lost queue needs two jobs, for an id to be given twice; the other faults meet
one job, and three of them use up its attempts. Two one-shots fill a strict
counter, and of three requests one can use a key that
the second revokes before the third comes. Three chains are the first, one in
the middle and the last. For the backups, a retention of two days separates
"older than a day" (alert) from "older than the retention" (deleted); four
faults let every full backup of a whole retention period fail, which is the case
`LossNeedsLongFailure` is about. Symmetry is used in runs without temporal
properties beyond `[][A]_v`.

Deadlock is checked in every run. `PublishPipeline`, `VerificationQueue` and
the modules of clients have an explicit state of rest, so a handler that is
stuck is a deadlock.

### What `queue` and `publish` taught

* A one-shot that a restart cuts off can lose two rows, its content's and the
  one of the binding under way; the bound of `MissingRowsAreFaults` says so.
  Nothing repairs them: a retry reverts with "Already registered", before
  the row is written.
* The row of a job that BullMQ has completed cannot be relied on to stay
  completed once something fails (`CompletedIsFinal` is about behaviours without
  faults).
* Job ids start again when Redis loses its data, while the rows stay. A request
  that is given an old id is refused when it creates its row, so no two requests
  that were answered 200 poll one row; but its job writes its hash and its
  result there, and `PollsOwnRow` has to allow for them.

## 5. Fairness

* `VerificationQueue`: a handler that has begun goes on (Node's event loop), an
  execution goes on, delayed and stalled jobs are taken up again (BullMQ's
  timers). No fairness for requests to arrive, nor for any fault.
* `CacheAside`: time passes, a fetch and a fill that were begun go on, a command
  that waits for Redis is sent when it is back, and the client's attempts to
  reconnect end (`reconnectStrategy` stops after three). Writers may stop for
  ever between two awaits: `Converges` rests on the TTL alone.
* `Extension`: the worker and the page handle the messages they have, timers,
  intervals and observers fire; `AddBadge` needs strong fairness, because the
  title it waits for comes and goes with navigation while its interval goes on.
* `WebApp`: requests are answered, toasts expire, the dashboard's interval fires.
  None for what the user does.
* `BackupRotation`: scripts that run end, cron starts the daily ones, the
  verification runs, days pass (strong fairness, because the hourly clean-up
  interrupts the condition "no script is running" again and again). Faults and
  restores are finitely many by their bounds, none is forced.
* The other modules: none; their properties are safety properties.

## 6. Proofs

Each proof module extends the module it is about. What it proves holds for every
value of the constants that satisfies the named assumptions of that module, and
the runs check the same formulas on small instances. The shape is the same
throughout: an invariant `IInv` that is inductive, one lemma per action, a
lemma that puts the actions together, and theorems that follow from `IInv`.

### The contract: `RegistryProofs`

| Theorem | Says |
|---|---|
| `TypeCorrect` | `[]TypeOK` |
| `BoundContentExists` | `[]BoundIsRegistered` |
| `BindingTablesAgree` | `[]TablesAgree` |
| `EventsAgree` | `[]EventsMatchTable` |
| `ProvenanceNeverChanges` | creator and timestamp never change |
| `Refinement` | the contract implements `ProvenanceLedger` |
| `PlatformKeyInjective` | names without a colon make the key unambiguous |
| `OnlyBoundPairsResolve` | `[]ResolvesOnlyBoundPairs` |

Assumptions: the zero word is a hash, the zero account is no account, the
bounds are natural numbers. The inductive invariant is the conjunction
of the first four: `TablesAgree` alone is not inductive, because a push
keeps an array free of duplicates only if the array agrees with the table
`bindPlatform` has tested; and an event's key keeps its content only because
a bound key is tested to be bound. `PushOccurrences` is the lemma
about pushing on the array, `EntryCases` the one about the shape of
entries. `Refinement` maps initial states and then each action to a ledger step
or a stutter, under `IInv`. `OnlyBoundPairsResolve` supposes what the API checks,
platform names without a colon: what a pair resolves to is changed by a binding
under the same key only, and by `PlatformKeyInjective` that is one of the pair
itself.

### The proxy: `RegistryProofs`

| Theorem | Says |
|---|---|
| `UpgradesInvisible` | `ProxySpec => UpgradeTransparent`: the proxy implements the contract |
| `ProxyTypeCorrect` | `[]ProxyTypeOK` |
| `RenouncedIsFinal` | after `renounceOwnership` neither owner nor code changes |
| `CounterNeverAhead` | `[]CounterBounded`, for a finite set of contents |

Every step of the proxy is a step of the contract or leaves its storage alone,
so the contract's invariant carries over, and with it the theorems above. The
counter is bounded because a registration that counts makes the set of
registered contents larger by one, and nothing makes it smaller.

### The cache: `CacheAsideProofs`

| Theorem | Says |
|---|---|
| `TypeCorrect` | `[]TypeOK` |
| `StalenessIsBounded` | `[]BoundedStaleness` |
| `StaleHasCause` | `[]StaleNeedsCause` |

Assumptions: the keys and the kinds of writers are those of the code, time is
counted in natural numbers. Staleness is bounded because a fill stores a value
at most `Lag` ticks old, and from then on each tick that ages the entry also
takes one from what is left of its TTL. A stale entry has a cause because a
`DEL`, where a route sends one, is its last step: a writer that has changed the
source still owes the `DEL`, or has none.

### The publishing routes: `PublishPipelineProofs`

| Theorem | Says |
|---|---|
| `TypeCorrect` | `[]TypeOK` |
| `RowsStayOnChain` | `[]RowsAreOnChain` |
| `OkMeansPublished` | `[]AnswersAreTrue` |
| `OnlyFaultsLoseRows` | `[]MissingRowsAreFaults` |

Assumptions: `Null` is none of the things it stands in for, the wallet is not
the other account. That a row is written only for what is on the
chain follows from where its handler stands, so `IInv` says of every handler
what the chain holds at its step (`Settled`): after the receipt its own
registration or binding. Before the receipt (`Waiting`) it says that whatever
there is of this request at its nonce, in the pool or in a block, is the
transaction the request sent: another request may replace it, and then the
receipt is not its own. Entries and bindings are only added (`Grows`), so what
one handler relies on no other takes away.

`MissingRowsAreFaults` speaks of the end and counts over all contents and posts,
so it needs an account that holds at every step. `Tally` keeps it: what is
*astray* is a missing row that no handler is on its way to write, or a
transaction that will be mined with nobody waiting for it (`Astray`); there are
at most as many of these as faults, and two for each request a restart cut off.
A mined transaction only changes what its handler minds, from the transaction
to the row; a row that is written is missing no longer; a failing call leaves
one thing astray, be it the row or the transaction; a restart two per handler,
the content of a one-shot and the binding it is at. When nothing is under way,
everything missing is astray. The set of requests need not be finite: those that
have begun are (`Begun`).

### The verification queue: `VerificationProofs`

| Theorem | Says | Holds |
|---|---|---|
| `TypeCorrect` | `[]TypeOK` | always |
| `AcceptedPollTheirOwn` | `[]PollsOwnRow` | always |
| `UploadsAreFollowed` | `[]UploadsFollowAnswers` | always |
| `RecordsNeedFaults` | `[]DuplicatesNeedFaults` | always |
| `RowsTellOutcomes` | `[]QueueInv` (about rows: until the first fault) | `MaxAttempts > 1` |
| `CompletedRowsAreFinal` | `CompletedIsFinal` (until the first fault) | `MaxAttempts > 1` |

Assumptions: finitely many submissions and slots, and "none" is no submission.
`IInv` ties the three records of a job together: the request that queued it
(`HandlerOK`), BullMQ's entry (`JobOK`) and the execution with its lock
(`LockOK`), of which there is one at most (`OneHolder`). Nine of the worker's
steps move one execution and touch its own row at most (`StepEffects`); the
other steps move a job (`JobMoves`) or end an execution (`Ends`).

`PollsOwnRow` rests on the ids. When Redis loses its data the counter starts again
and an id may have two owners, one of whom finds the row there and is refused: of
the requests with one id, one at most creates its row (`Apart`). What an execution
or a row speaks of is a request with its id (`Placed`, `Spoken`), so that
another request's hash can only have come from one that was given the same id.

`DuplicatesNeedFaults` is not inductive: one more record needs someone who may
still write it. `CInv` counts these with the records: the request, or the
execution that holds its job's lock now or later (`Owed`), and every execution
that lost its lock and goes on (`Strays`). Recording pays one of them off, a
fault makes one at most: a lost lock or a lost queue turns a debt into a stray,
and a row that could not be completed, a crash or a stall after the record make
the retry a new debt.

The row is created by the request or by the worker. The loser of this race is
turned away and the worker's attempt fails without a word in the row, so
that a job whose first attempt is its last one could be failed and its row not:
`RowsTellOutcomes` therefore asks for one retry, which the code has
(`MAX_RETRY_ATTEMPTS` is 3). `QInv` says what the row holds
at each step of the execution and that an attempt after the first finds it;
`GInv` supposes it until the first fault.

### E-mail: `NotificationsProofs`

| Theorem | Says |
|---|---|
| `NoticesAreKept` | `[]NoticeInv` |
| `StatisticsTellMails` | `[]StatsTellMails` |
| `OptOutsAreHonoured` | `OptOutHonoured` |
| `ChoicesDoStand` | `ChoicesStand` |

Assumptions: finitely many slots, at least one attempt. The argument is the one
of the verification queue, with one more account. `SInv` is the structure: a
job has one lock holder, and no two executions write one row. On it stand two
counts for each notice. `Counted` adds to the mails those who may still send one:
the call or the lock holder (`Owed`) and the executions that lost their lock
(`Strays`). `Reported` compares mails with rows that say "sent": executions
whose mail went out and who have not written it yet (`Reporting`) stand between
the two. `ReadOK` and `FirstOK` are what an execution has read of the choices,
and who is past the creation of the first row of preferences.

### The gate: `ApiGateProofs`

| Theorem | Says |
|---|---|
| `GateKeeps` | `[]GateInv` |
| `RevokedStayRefused` | `[]RevokedKeysRefused` |
| `GoodKeysAreServed` | `GoodKeysServed` |

Assumptions: the bounds are natural numbers, the instances finitely many. That
the ceiling holds is one inequality (`CountsOK`): what has passed, with the
room the counters of the open windows still have (`Room`), is at most ten a window; a
hit takes one from the room and a new window adds ten. A lone request meets
counters that its own hits alone have filled (`LonelyOK`), and no path has more than
nine limiters before its handler (`PassesNine`), one less than the smallest
limit. A request that shows a key reported revoked (`late`) finds the row changed
when it is looked up (`ToldOK`), so that it gets no further than the check. Of
racing first logins one has its token as soon as the row exists (`LoginsOK`).

### Uploads, look-ups and backups: `StorageProofs`

| Theorem | Says |
|---|---|
| `UploadsKeepOrder` | `UploadSpec => []UploadInv` |
| `LookupsTellTruth` | `LookSpec => []LookInv` |
| `BackupsAreKept` | `[]BackupInv` |

Assumptions: the uploads and cases are among those the code allows; a retention
of at least two days. An upload asks a provider in its turn (`Reached`), which
stays so because the list of errors only grows; copies are paid for by
responses missed and by the answer. A look-up has seen what it says (`Seen`):
the entry it holds has been on its chain, and every chain before the one it asks
and that had the post was silent. What is cached has been so, too (`FillsOK`):
it is a fill that stores an old value that makes this more than a restatement.
For the backups, `KeptOK` says that the last complete one is still there while it
is within the retention, `AlertOK` that no day without one ends without an
alert, and `RestoreOK` that a file that was found sound stays sound or expires.

### The browser: `BrowserProofs`

| Theorem | Says |
|---|---|
| `PagesKeepPromises` | `WebSpec => []WebInv` |
| `BindingsHaveAccounts` | `WebSpec => BindingsNeedAccounts` |
| `PreferencesHold` | `PreferencesSpec => []PreferencesInv` |
| `ShownIsTrue` | `[]ShowInv` of the extension |
| `RefreshesAreFresh` | `[]RefreshSkipsCache` |

Assumptions: finitely many posts at once (they are counted), the locales have no
"none", no post on the home page. The invariants relate each message under way
to the page that waits for it, by the number of its mount: `PostsFit`,
`FetchesFit` and `ListFits` for the web pages, where a fetch that was begun after
an announcement, or has not read yet, is recent enough; `TweetsFit`,
`SeenFit`, `PopupWaits` and `PopupFits` for the extension. `Truthful` says of every
message of the extension that its answer was true of its subject, `SeenFit` that
what a page has asked about, and shows, is among what it has shown since it was
loaded, and `FloorFits` that nothing older than the floor of a click on Refresh is
in the cache it asks, about to be stored there, or its answer: the floor is the
least of what the API and the answers about to be stored said at that click. Each
message carries its own floor, and the popup the one of the message it shows:
of two clicks the answer to the earlier may come last and stay, and is then no older
than its own floor only. That there is a least one comes from the library's
theorem about well-founded relations.

### What is only model-checked

Everything temporal beyond `[]` and `[][A]_v`: liveness under fairness is out
of the prover's reach (`Converges`, `RequestsEnd`, `JobsSettle`,
`AcceptedEndsTerminal`, `BackupsResume`, `BadgeAppears`, `FetchingEnds`,
`DashboardCatchesUp`). `BindingsAreLinked`, `RequestsAnswered` and
`BadgeIsCurrent` are violated by the code, and each has a run that shows it. `RowsTellOutcomes` and `CompletedRowsAreFinal` are
proved, as they are checked, for a queue in which nothing goes wrong.

## 7. What the code does that its documents do not say

The runs `publish_links`, `queue_down` and `extension_nav` are findings in
`PROJECT.json`. Others that were met while modelling and are not run:

**Contract**

* `bindPlatform` can bind a key again after it was bound to content zero
  (`ContentRegistryV1.sol:157`); `TablesAgree` and `EventsMatchTable` are
  stated for the other hashes. Platform names with a colon can share a key.
* V2's counter is called the total of registrations and counts those made
  through `registerV2` only.

**Queue**

* `docs/VERIFICATION_QUEUE.md:217` says a job fails after its retries; the row
  says "failed" between attempts too.
* The worker may create the row before the API does; the API's create then
  fails and the request is answered with 500 while the job runs.
* A job that carries a file always fails: the worker hashes it with a
  `createHash` that `fs` does not export. Nothing removes the upload of an
  accepted job, nor that of a request which validation answers with 400 after
  multer has written the file (`verification-jobs.routes.ts:45`);
  `UploadsFollowAnswers` is stated for the other requests.
* With `REDIS_URL` set and Redis away a request waits; there is no fall-back
  to synchronous processing (`docs/VERIFICATION_QUEUE.md:375`, run `queue_down`).
* `registry.service.ts:156` decodes `entries` as four outputs; the contract's
  getter returns three. The synchronous verification and the worker depend
  on it (in `VerificationQueue` the check may throw for this reason as for any other).
* Verification rows are stored without `contentId`, so a content's own list of
  verifications is always empty.

**Cache and look-ups**

* Some writes do not invalidate what is cached, so a content is shown as it was
  until its TTL ends. After three failed reconnects the Redis client is closed
  for good while `isConnected` stays true; an API restart brings the cache back.
* GET `/contents/:hash` calls `cacheService.getCachedContent`, which does not
  exist (`content.routes.ts:73`).
* The ABI of `/v1/verify/hash` does not match the contract's entries: a
  registered hash is answered with 500, an unregistered one with a 404 that is
  cached. A revoked content is still answered verified by `/v1/verify/platform`.
* Nothing in the repository but its tests calls the look-ups over all chains;
  their "priority order" is ascending chain id.

**Uploads**

* Time-outs of axios are `ECONNABORTED`, the retries look for `ETIMEDOUT`; a 429
  of Web3.Storage is an answer, not an error: neither is retried. A form that
  was sent once is posted again as it is.
* A local node that answers without `Hash` is taken to have stored
  `ipfs://undefined`. A temporary file whose write or unlink fails stays
  (`file.service.ts:10`, `:15`). With only a local node configured its failure is reported
  as "No IPFS provider configured".

**Gate**

* A request passes the limiter of every earlier mount it matches
  (`app.ts:113`-`117`): a one-shot counts five times on the strict limiter, so
  that two pass in a minute where `docs/RATE_LIMITING.md:15` has ten. With Redis
  all limiters count under one prefix and the second one-shot is refused, being
  nine hits on a counter of ten. The properties bound what the limiters do from
  both sides, the first request of a window is let through and ten strict hits
  are never exceeded; ten requests is what neither says.
* POST `/verify` and `/proof` are documented as strict and mounted as
  moderate; the tiers of API keys are stored and not enforced.
* While Redis is away at the start, `createApp` does not return.

**Extension and web application**

* The badge of one video stays on the page of the next, where `TESTING.md:281`
  (TC-11) has "Correct badge for new content" (run `extension_nav`). A request
  that fails is shown as "not verified", where TC-10 has "Error state": the
  worker catches the exception. Refresh can be clicked while an earlier refresh is
  under way, and the answer that comes last stays, be it the older one. The "..." of the tool
  bar is not cleared; Twitter is "twitter" to the extension and "x" to the
  server. The scripts for other sites are placeholders.
* The middleware decodes a JWT where sessions are stored in the database, so a
  user who is signed in is redirected from `/profile` and `/api/app/*` all the
  same (`decodes` is FALSE in the runs for the code as configured, TRUE for
  what the middleware takes for granted).
* `page.tsx:283` calls the toast stable; the hook returns a new object on
  each render, and the list is fetched again with every toast. With the API
  away, that goes on for ever.
* A form that is left and opened again does not know of the post still under
  way, and may send the same a second time (`page.tsx:596`): `OnePostPerMount`
  is about a form that stays on the page.
* A link that was removed stays in the JSON that is sent; an emptied field is
  sent as an empty identifier and refused; the default example `VIDEO_ID` can be
  submitted. "Try Again" bypasses the checks of fields other than the file.
* A choice about cookies does not reach other tabs; web vitals are sent
  whatever it is.

**Backups**

* A full backup that cron starts while a restore loads is a sound file with part
  of the database; a restore whose file the clean-up deletes leaves an empty
  database and says "completed". Errors of `pg_restore` are warnings.
* Point-in-time recovery is documented on top of dumps of `pg_dump`, to which
  WAL cannot be applied; `pitr` only prints instructions.

## 8. What is not modelled

The components with status `not_modelled` in `PROJECT.json`, with the reason
there. Within the modelled ones: the contents of manifests and signatures
(a check is "ok", "not ok" or throws), metrics and logs, the queue's read-only
routes, the scripts that use the API's wallet from outside
(to `PublishPipeline` they are one more request for a nonce, or another
account), the copies of backups on S3, WAL files, partial restores, e-mail
templates, the inline verifications of the web application, and its pages
without state (terms, policies, documentation).

Situations that the modules could reach and no property is stated about,
because the code and its documents promise nothing: a dump that overlaps a
restore, warnings of `pg_restore`, a link removed while a request with it is under
way, a cookie choice made in another tab, Redis away at the start of the API.
