# SuperLock in TLA+

SuperLock keeps an organization's secrets: a Go server over PostgreSQL and Redis, a web
hub that tells clients a secret has changed, a worker that rotates secrets against
external backends, short-lived database credentials, and SDKs that cache an
environment's secrets in the application. This directory models the parts of it whose
correctness depends on the order in which things happen, checks the models with TLC and
proves theorems about them with TLAPS.

All source paths below are relative to `superlock/`.

## The system

| Component | State | Operations that change it | How others touch it |
|---|---|---|---|
| Secrets (`backend/internal/handler/secret.go`, `store/secret.go`) | tables `secrets`, `secret_versions` | create, update, delete, bulk import, rotate | rotation writes values; SDKs and integrations read them |
| Rotation (`rotation/worker.go`, `store/rotation.go`, `handler/rotation.go`) | `rotation_schedules`, `rotation_history`, a Redis key per secret, goroutines | schedule, unschedule, tick, trigger, `rotate` | calls webhooks or databases, writes secrets, broadcasts to the hub |
| Hub (`ws/hub.go`) | map of connections under an RWMutex, a channel per connection | register, unregister, `Broadcast`, two pumps per connection | called by rotation; SDKs connect to it |
| Dynamic leases (`handler/dynamic.go`, `dynamic/dynamic.go`, `store/dynamic.go`, reaper in `cmd/server/main.go`) | `dynamic_secret_configs`, `dynamic_secret_leases`, roles in somebody else's database | generate, revoke, reap | a second database, no common transaction |
| Accounts and access (`middleware/auth.go`, `handler/invite.go`, `cli_auth.go`, `audit_token.go`, their stores) | `users`, `organizations`, `invitations`, `cli_login_codes`, `api_tokens` | provision on first request, invite, accept, revoke, CLI login, mint and revoke tokens | every request passes through it |
| Billing (`handler/billing.go`, `billing/`, `store/billing.go`, `coupon.go`) | plan columns of `organizations`, `coupon_redemptions` | subscribe, cancel, webhooks, coupon | plan limits of secrets, tokens, seats |
| Audit (`store/audit.go`, `handler.writeAudit`) | `audit_events`, a chain of HMACs | append, from a goroutine per event | called by every handler |
| Shares (`handler/share.go`) | `shared_secrets` with a view count | create, view, delete | |
| Projects and environments (`handler/project.go`, `store/project.go`, `billing/limits.go`) | `projects`, `environments` | create and delete a project, create and delete an environment | the plan sets their limits; secrets hang from them |
| Approvals (`handler/approval.go`) | `pending_approvals` | resolve | nothing creates one |
| Access analytics, integrations | append-only log, none | | |
| SDKs (`sdk/go`, `sdk/node`, `sdk/python`, `sdk/java`) | a cache in the application, pollers, a WebSocket | get, refresh, poll, invalidate, close | pull all the values of an environment; watch the hub |
| Pure code (`rbac`, `netguard`, `pgsafe`, `references`, `crypto`) | none | | |

What is hard here, and hardly reached by the unit tests: handlers are goroutines whose SQL
statements commit one by one (two operations use a transaction), with values read in one
statement used in a later one; several server instances share the database, and rotation
relies on a Redis key with an expiry; a rotation and a lease change two systems, and
either change may fail or have its answer lost; the hub closes channels other goroutines
send on; an SDK's cache is written by several goroutines, or by turns of an event loop, and
wiped when it is closed; a user's row is read when a request or a token comes in and used
statements later, when other requests have changed it.
`PROJECT.json` lists the hazards at their lines, with the properties that cover them.

Correct means, for each component:

- **Secrets**: a version number names one value; the history holds only values the secret
  had; an import is all or nothing; deletion is final; every request is answered.
- **Rotation**: one rotation of a secret at a time; the stored value is the credential the
  backend accepts, unless a failure fell between the two, a request given up was carried out late,
  or somebody else wrote the value; a secret that is due is attempted.
- **Hub**: no send on a closed channel; no wait for a slow peer; nothing kept for a peer
  that vanished; what one connection does costs another no event.
- **Leases**: a role without a record only after a lost connection, a crash or an INSERT that
  failed; what a client was handed is on record and works; every expired lease is marked.
- **Accounts**: nobody has or acts with a role that was not granted; a login code makes one
  token, with no more than what was approved.
- **Shares**: only views that overlap pass a link's limit. **Audit**: events are only
  appended, and each leads back to one recorded before it.
- **Billing**: the plan is one that was paid for or redeemed; who keeps paying is served.
- **Projects**: a plan's limit is passed only by creates that overlap; a new project has a
  protected production environment, and a protected one is never deleted.
- **Go and Node SDK**: the cache never goes back in time, follows the server, and `Close`
  and `destroy` end what the client does.

## Modules

Each component has a module with its state, actions and properties, an `MC` module that
TLC runs, and a `Proofs` module; the hub and the two SDKs, which together carry a changed secret to
an application, have their proofs in one, DeliveryProofs. What an SDK promises at any time is in a module of
its own (GoPromises, NodePromises), with the variables it is about, which the SDK's module and
DeliveryProofs extend. The parameters are CONSTANTS with a named assumption; the
proofs are about all their values, the `.cfg` files choose small ones. Several definitions
come with a *mutant*, named after it and never used by a specification: the change a
plausible bug would make, by which each property is shown to depend on the code.

### SecretStore

One environment. A request (or rotation worker) is a process with a place `pc`; an action
is one SQL statement, or the reads and checks before it. `row` is `secrets` (at most one
row per key: the unique index covers soft-deleted rows and no statement removes one),
`history` is `secret_versions`, `lock`/`pending`/`saving` are what the open transactions of
`RotateSecretValue` and `BulkImportSecrets` have written (READ COMMITTED: others see it on
`Commit` only and wait for its rows). `CreateSecret`, `UpdateSecret` and `DeleteSecret`
commit each statement. `Fail` is a statement that fails or a client that leaves: the request
context is cancelled and an open transaction rolled back; `Outcome` is a commit whose
answer was lost. `held`, every version a committed row has had, and `unsaved`, the keys for
which the ignored INSERT of `SaveSecretVersion` failed, are auxiliary. A value is named by
the request that writes it.

### AtomicSecrets

What SecretStore promises, as an abstract specification: a request is asked, and later one
step both changes the keys and answers, or refuses and changes nothing. It has no places,
locks, transactions or drafts of rows, and knows five operations on a set of keys. SecretStore
implements it (`Atomic == INSTANCE AtomicSecrets WITH row <- row, ...`, the property
TakesEffectAtomically). The refinement mapping takes the tables as they are committed, `job` and
`answer` to the variables of the same name, and hides all others. A statement inside a transaction is a stutter; `Commit`,
or the one statement of a create, an update or a delete, is `Serve`; what
`SaveSecretVersion` writes before an update is a step of its own (`Save`), since the code
commits it whether or not the update follows.

### Rotation

`sched` and `hist` are the two tables, `lock` the Redis key of each secret, `installed` the
credential each backend accepts (external), as a generation, and `val` the value of each secret:
a credential, named by its backend and generation, or one written by hand. A secret may have
several schedules, each with a backend of its own. `UpdateSecret` stands for whoever else writes a
value: the update handler, an import, an approved update. A job is one goroutine in `rotate`: `AcquireLock` (SETNX), `WritePending`, `LoadSecret`,
`CallBackend`, `WriteFailed` or `WriteValue`, `Reschedule`, `WriteSuccess`, and `Unlock` (the
deferred DEL). `ExpireLock` is the key's 30 seconds, `Crash` the end of a process with all
its jobs. `RotateSecretValue` is one step here; its statements are in
SecretStore, whose refinement of AtomicSecrets shows that one step is what they amount to.
A call that fails may have been carried out, or be carried out later, when its job has
released the lock (`late`, `LateInstall`): a webhook's timeout ends the wait, not the request. `lapsed` (a job
outlived its lock) and `gone` (credentials nobody was told, the store failed to take, or somebody
else replaced) are auxiliary: they state the exceptions in the properties. A job's record is forgotten when
its goroutine returns, which no other job can observe.

### Hub

A watcher is one connection with its read pump `rd`, write pump `wr`, channel `send`/`closed`
and `peer`; a broadcaster is a goroutine in `Broadcast`, in `readers` while it has the read
lock and with the clients still to visit in `left`. `register` and `unregister` are single
steps under the write lock, possible when there is no reader. A peer that sent a close frame or too long a
message is `refused`: gorilla/websocket has answered with a close frame, after which a write fails,
so events still in the channel are lost. `dropped` (auxiliary) has the events a full channel cost its client.

### Leases

One request per lease: `Generate`, `CreateRole`, `Grant` (or `Rollback`), `CreateDynamicLease`
(or the asynchronous `Cleanup`); `RevokeDynamicLease`; and a reaper per instance that lists
(`ListExpiredLeases`, at most `Limit`) and handles (`Reap`) one lease after another. `role` is
the state of the target database: a role, with the privilege to connect or without; PostgreSQL
refuses to drop one that has it (`DropRole`), so that `Cleanup` after a GRANT does nothing. When the
GRANT fails because the connection or the request's context is gone, its DROP fails with it.
`mishap` (auxiliary) says what of that befell a lease. `until` is the expiry the instance computed,
up to `Skew` from the clock of SuperLock's database. When the target database stops accepting the
password is not modelled: it would be a third clock, and no code compares the two.

### GoClient

The values of an environment are one version number, as one response holds the values of
one moment. Threads are the application's goroutines, those a stale `Get` starts, the one in
`New` and the poller; `leader` is the goroutine whose call the singleflight group runs,
`Do`, `Serve`, `Refreshed`/`RefreshFailed` and `EndCall` are the stages of a shared fetch.
`Close` sets `closed`, `Wipe` is its end, after `wg.Wait`. A second `Close` returns at once and changes
nothing, so what is promised after `Close` is about a later time (CloseEnds), not about its return.

### NodeClient

An action is one turn of the event loop, the values are a version number as in GoClient, and
the cache is the entry of one key. There are two fetches at most: that of `_initialLoad`,
and that of the holder of `refreshLock`, which all other readers share (`FetchSecrets`); each
has a `stage`, an `attempt` and the version it `got`. `ws` is the socket with its reconnect
timer and `inbox` the events on their way. A rejection nobody handles, and an 'error' event
nobody listens to, end the process (`alive`). `early` records that the application used the
client before `ready()`: the one case in which the cache may go back.

### Accounts

A request is a process that authenticates (`AuthMiddleware` or, `flex`, `FlexAuthMiddleware`,
with a JWT or a token), is provisioned if its user has no row or no organization, and is then
at the place `handle`, where it acts with the organization and role in `act`: it creates an
organization, invites, accepts (`GetInvitationByToken`, `Join`, and the mark, each a statement),
approves or exchanges a CLI login code, mints or revokes a token. `row` is what it read, which
others may have changed since. Roles are their rank. `joined` records which acceptances found
their invitation valid: with `founder` it says which roles were granted. The plan's token
limit and the scopes of a token only refuse (`Refuse`), and are not modelled further.

### Billing

One organization. A request is `CreateSubscription`, `CancelSubscription` or `RedeemCoupon`, an
action of it one statement of `store/billing.go` or `store/coupon.go`, or one call of
Razorpay, whose answer may be lost. `org` is the row: plan, subscription, status. `rzp` is what
Razorpay knows of each subscription (external) and `hooks` the webhooks it has sent, in no order,
perhaps twice; their handlers run their statements one at a time, too (`HandleActive`, `HandleEnded`,
`HandlePaused`). A webhook is never sent again because of a failure, as the handler answers 200
whatever happens. Razorpay's "pending" and "halted" are states of `rzp` that no handled webhook reports
(`Halt`). `retired` has the subscriptions whose Razorpay plan id is not configured: for them
`PlanFromRazorpayPlanID` answers free (`PlanOf`), and a charge writes the free plan with status active.
`Configure` changes the configured ids. `paid` is what has been paid for; `slipped` and `missed` remember that
the plan was last written against what Razorpay knows, and that the last write of the status failed or was
of an unknown plan id: they are the exceptions PaidPlanIsCovered and FreeIsNotActive name. Signature checks, amounts, and
the periods and retention a plan brings with it are left out, and so is the enterprise plan, which only a
coupon grants and which is handled like business.

### Projects

One organization's `projects` and `environments`. `CreateProject` is `ReadPlan`, `CountProjects`,
`InsertProject` and three times `CreateDefault`; a count that fails counts as 0 and an error of the loop is
ignored, as in the code. `CreateEnvironment` reads and counts in the same way, `DeleteEnvironment`
checks `is_protected` on a row read before the DELETE. `rows` numbers the rows a slug has had, which
stands for the environment's id. `plan` changes at any time (`SetPlan`: what Billing models). `roof`, `peak`,
`unlimited` and `disturbed` are auxiliary: they count what the code can not prevent. Names other
than the three defaults are not needed to tell a duplicate from a new one.

### Audit and Shares

`Audit` is `writeAudit`: `BuildAuditEvent` takes the time, `Link` reads the latest recorded event
and starts the goroutine (`flying`), `WriteAuditEvent` is its INSERT, which may come late or
never. An event is named by its time, its HMAC by the event it stands for. `Shares` extends
it, and its handlers run its steps: `GetSharedSecret` reads the row and checks it, `Increment`
and `Show` come later; creating and deleting a link are audited. `served` and `uncounted`
(increments that failed, which the code ignores) are auxiliary.

## What the runs check

| Run | Instance | Shows |
|---|---|---|
| SecretStoreSafe | 3 requests of any kind, 2 keys | HistoryTruthful, VersionsUnambiguous; FirstVersionKept; AckedWriteLanded; TakesEffectAtomically (the refinement) |
| SecretStoreLive | 2 requests, a limit of 1 secret | EveryRequestAnswered |
| Rotation | 2 instances, 2 jobs, 1 secret, 2 schedules and backends, 1 fault, 2 calls by users | MutualExclusion; InSync, PendingValueIsLatest; HistoryTruthful; DueSecretAttempted |
| Hub | 2 connections, 2 broadcasters, channel of 1, 2 events | SendsOnlyToOpen; BroadcastEnds; BroadcastReaches; VanishedIsForgotten |
| Leases | 2 leases, 2 instances, clocks 1 apart, listing of 1, 2 faults | NoStrayRole; HandedOutIsRecorded; ExpiredIsMarked |
| LeasesNotDropped | 1 lease, no fault | *violated*: RevokedRoleIsDropped |
| GoClient | 2 application goroutines, 1 spawned, 1 retry, 2 writes, 2 faults | SecretsNeverGoBack; EveryCallReturns; CloseEnds; EventuallyFresh |
| NodeClient | 1 retry, 2 writes, 2 faults | NeverGoesBack; EventuallyFresh; DestroyEnds |
| Accounts | 2 users, 2 organizations, 2 requests, 1 invitation, 1 login code, 1 token | RoleWasGranted; ActsWithinGrant; TokenWithinApproval; CodeMintsOnce |
| Shares | 3 requests, 1 link, 4 events, limits 0 to 2 | ViewLimit; ChainRooted |
| Billing | 2 requests, 2 subscriptions of different plans, 2 webhooks under way, 1 fault | TypeOK; PlanWasBought; FreeIsNotActive; PaidPlanIsCovered; PayingIsServed |
| Projects | 3 requests, 2 slugs, 3 plans, 1 fault | ProjectLimit; ProductionIsProtected; ProtectedStays |

The type invariants of the other modules, and DeletedStaysDeleted and ImportAllOrNothing of
SecretStore, are not run again: they are proved, and the refinement implies the latter two's
content.

Deadlock is not checked: requests are finite in number, clocks and counters are bounded, and
a system in which everything is answered or has expired may stop.

### Disagreements found

**Revoked roles are kept** (`handler/dynamic.go:212`), shown by LeasesNotDropped.
"reaper handles actual DB role cleanup" (`dynamic.go:211`): the reaper lists rows whose
`revoked_at` is NULL only.

Seen in the source and not run:

- Secrets. "Previous version saved to `secret_versions` on every update" (CHANGELOG.md:29): two
  overlapping updates read the same row (`handler/secret.go:288`), save it twice, then both
  increment the version, and the first one's value is nowhere. FirstVersionKept, HistoryTruthful
  and VersionsUnambiguous are what does hold.
- Rotation history. A row ends as `success` or `failed` (rotation.md:17, :132), but both writes INSERT with the
  id of the pending row, fail on the primary key, and the error is ignored (`store/rotation.go:82`):
  it stays `pending`. HistoryTruthful is what does hold.
- Billing. "We do NOT update the plan_tier here" (`billing.go:81`): the subscription is stored together with the
  plan as it was read, over what a webhook or a coupon has written since. A cancellation is to
  take effect "at end of period" (`razorpay.go:118`), but the handler passes false (`billing.go:123`) and the plan is
  free at once. A customer who subscribes twice has a first subscription the row no longer
  names; its end is dropped while its payments still set the plan. These are what `slipped` excepts. A plan
  lost by the write-back comes back with the next charge (PayingIsServed), and not before. A payer whose
  plan id is no longer configured gets the free plan, shown as active (`razorpay.go:172`), at every charge.
- Projects. The free plan allows 2 environments per project (`limits.go`) and `CreateProject` inserts 3. The slug
  of a deleted project stays taken, as the unique index covers it.
- Rotation. rotation.md:11 says of the lock "one instance only", but it is held for the time of a
  rotation and nothing after it looks at `next_rotation_at` again, so an instance that had
  listed the schedule rotates it a second time (`worker.go:81`). rotation.md:133 says "there
  is no partial state", but the backend has changed before the store is written, or changes after the
  worker has given the request up, which is why InSync has its exceptions. rotation.md:136 says a failed schedule is retried at its
  next interval, but `next_rotation_at` stays in the past and it is retried at every tick, which
  with LIMIT 50 can starve others; of two schedules of one secret, which nothing forbids, one that
  fails may take the lock in every round. DueSecretAttempted is therefore about the secret, and as long as
  the listing has room.
- Leases. "Attempt to clean up the created DB role" (`dynamic.go:173`): the role has been granted CONNECT, and
  PostgreSQL does not drop a role that has a privilege, so the attempt fails and a failed INSERT leaves a
  role without a record. Migration 003:11 says a lease's stored DSN is "without password"; the code stores the
  one it handed out.
- Go SDK. "Close stops background polling" (`client.go:287`): not yet when a second, concurrent `Close`
  returns. "Zero out the cached secrets from memory" (`client.go:294`): a refresh that a stale
  `Get` started is not in the wait group and stores its response later.
- Node SDK. "Trigger a refresh to pick up the new value" (`index.ts:492`): the refresh joins a fetch
  under way, whose answer may be older; `EventuallyFresh` leaves it to the next poll. "Memory
  zeroing on destroy()" (README.md:51): a fetch under way stores its answer afterwards. "Still
  resolve so callers aren't stuck forever" (`index.ts:259`): when the first load fails, the
  'error' event it then emits ends a process without listener, and the client neither polls
  nor connects. "or null if not found" (`index.ts:164`): also for a key that a message has
  just deleted from the cache.
- Shares. Overlapping views pass the limit (`share.go:168`); ViewLimit says by how many.
- Audit. CHANGELOG.md:31 says the chain is "for tamper detection", but the HMAC is computed from
  an id and a time that are not stored (`handler.go:163`), as docs/developers/README.md:27
  admits, and events under way at the same time have the same predecessor. ChainRooted is
  what does hold.

### Bounds

Bounds are guards named Max... or a CONSTANT (`Limit`, `Capacity`). Two processes are needed
for every race listed above; three requests in SecretStoreSafe let a transaction wait for
another while a third commits. Versions and clocks of 2 or 3 distinguish old, current and next. One fault
shows a single failure and two show a failure during the recovery from another, which is
where the property of Leases makes its exceptions. Rotation's one fault is a failed call, write or DEL, a crash or an
expired lock; the calls by users are two manual triggers, updates or deletes besides the ticks, so that an update
falls between any two steps of a rotation. Two generations of credentials, at one backend or one at each, suffice
for an older one to be stored over a newer, or one backend's over the other's. A channel of one message
is full after one event and so reaches the drop that a channel of 64 reaches after 64. A
listing of one lease makes two batches necessary.
Accounts has one invitation for the lowest role, which is enough to be told apart from
Owner; its two requests may be of one user or of two. The three requests of Shares view
the last allowed time together; limits of 0, 1 and 2 are none, the first and one after a view.
Billing has two subscriptions of different plans, so that a webhook of the wrong one shows, and two webhooks
under way; its one fault is a failed statement, a lost answer, a repeated webhook or a change of plan ids. That is enough for any two to be handled in either order, or one between two statements of
another's handler. The three requests of Projects are two creates and a change of an environment, or
an environment deleted, created again and deleted; the starter plan's limit is scaled to 2, so
that a plan with room, a full one and one without limit are all there.
Symmetry is used in safety runs only, over sets the specification treats alike.

### Fairness

- SecretStore: weak fairness on each request's own steps: net/http runs a goroutine per
  request and PostgreSQL queues lock waiters and aborts a member of a cycle. `Fail` is not fair.
- Rotation: the ticker, each job's steps, the clock and Redis expiry. Failures, crashes and
  triggers are not fair.
- Hub: goroutines run and deadlines expire; a ping need not fail, and nobody has to connect.
- Leases: handlers and reapers run; the clock need not advance.
- GoClient: goroutines run, requests end (the default HTTP client has a timeout; a custom one
  without would void this), the ticker fires, and strong fairness on `Stop`: Go's select
  chooses at random among ready cases, so the poller, for which the ticker and the closed
  stop channel are both ready over and over, takes the latter at some time. Callbacks are
  assumed to return and not to call `Close` or `Refresh`, which would wait for themselves.
- NodeClient: requests end (the timeout aborts them), timers fire, and a socket that is being
  closed is closed. A reconnection, a message and the application's calls need not come.
- Billing: a handler that has started ends, a webhook sent is handled, and Razorpay goes on charging a
  subscription that stays active. The last is what makes PayingIsServed true: a webhook may
  fail for good, and the next charge repairs the row. Calls, pauses and ends are not fair.
- Accounts, Shares and Projects have no liveness property.

## What is proved

For every value of the constants, from the modules' named assumptions only:

| Module | Theorems |
|---|---|
| SecretStoreProofs | TypeCorrect; VersionInvariant; HistoryIsTruthful; VersionsAreUnambiguous; DeletedStays; FirstVersionIsKept; OutcomeInvariant; ImportsAreAtomic; AckedWritesLanded; RequestsAreAtomic |
| RotationProofs | TypeCorrect; OneRotationAtATime; StoreMatchesBackend; PendingIsLatest; HistoryNeverLies |
| DeliveryProofs | the hub: TypeCorrect; NeverSendsOnClosed. The Go SDK: GoTypeCorrect; GoNoRollback. The Node SDK: NodeTypeCorrect; NodeNoRollback |
| LeasesProofs | TypeCorrect; NoStray; HandedOut |
| AccountsProofs | TypeCorrect; CodesAreSingleUse; ApprovalBounds; MembershipsGranted; RequestsGranted |
| SharesProofs | TypeCorrect; AuditChain; ViewsWithinLimit |
| BillingProofs | TypeCorrect; PlanBought; FreeNotActive; PaidCovered; and of Billing and Projects together ProjectsUnderBilling; LimitsWereBought |
| ProjectsProofs | TypeCorrect; ProtectedEnvironmentsStay; ProductionProtected; LimitHolds |

DeliveryProofs extends Hub, GoPromises and NodePromises and has the SDKs as instances (`Go!`, `Node!`), BillingProofs has
ProjectsProofs as one (`Pr!`). The assumption of an instance about its constants is a hypothesis of
the theorems about it; TLC evaluates it in the instance's own run.

The arguments:

- **SecretStore**. HistoryTruthful alone is not inductive: a version is copied from what a
  request read, so `VersionInv` adds that a row about to be copied was committed once
  (`CopiesHeld`, `RowIsVersion`). VersionsUnambiguous needs that the committed row is the newest version
  (`RowIsNewest`) and that an uncommitted row is its successor (`PendingFollows`), which the row lock keeps
  true until `Commit`. The lemmas `NewVersion` and `NewVersions` say that committing a successor, or a set of
  them, keeps versions unambiguous; each action is then a case.
  *The refinement*: RequestsAreAtomic maps each step to one of AtomicSecrets or a stutter, one lemma per
  action. It needs `JobInv`: where a request is tells what it was asked (`PlaceFits`), the items of an
  import are done, written or skipped because their key is in use (`ItemsAccounted`, `SkippedInUse`), and what
  an open transaction has written is the successor of the committed row (`WrittenOpen`); then
  `Commit` writes exactly the keys `Serve` may write. `KeepInv` gives FirstVersionKept: whoever is about to
  replace a row has saved what it read, and a transaction has saved what it replaces. `OutcomeInv` gives
  AckedWriteLanded and ImportAllOrNothing: nothing of a request is in the store before its answer.
- **Rotation**. `HoldsLock`: a job past SETNX owns the key unless it outlived it. Mutual exclusion follows, as a
  key has one owner. With it, `SyncInv`: every credential a backend has installed is among those that
  are `gone`, is in the store or older than what is there, or is the one a job inside is about to store; a job with a
  credential in hand is the only one there (mutual exclusion), and what others write meanwhile is counted in
  `Overwritten`. HistoryTruthful needs `OutcomeKnown`: a job past `WriteValue` knows what became of it.
- **Hub**. `LockInv`: a broadcaster in its loop is a reader, so neither register nor unregister is
  enabled, and the clients left to visit stay on the map with open channels.
- **Leases**. `Progress`: what a request has created before each of its steps; a role without a
  record then belongs to a request still on its way, or to one whose `mishap` says why.
- **GoClient**. `GoAlone`: at most one thread is in a fetch (the leader, or New before the poller
  exists), so the version in an answer is no older than the cache (`GoOrdered`).
- **NodeClient**. `NodeLoadComesFirst`: in an application that awaits `ready()` the holder of `refreshLock`
  fetches only when the first load is over, so one fetch is under way at a time; `NodeOrdered`:
  its answer is no older than the newest version the cache has held.
- **Accounts**. TypeOK needs `TypeInv`, that a request's user, token and code exist while it uses
  them. CodeMintsOnce needs `TokensOfCodes`: the token of a code comes after its claim, and the claim is
  one UPDATE. `TokenInv` follows a token's role from the approval through the exchange to the
  lower of it and the user's (`TokenBounds`). `GrantInv` says that what a request has read was granted
  (`GrantHeld`), and that grants are never taken back (`GrantKept`), so stale reads do no harm.
- **Shares**. ViewLimit counts requests: `ViewsCounted`, while the row is there each view shown or about to
  be is in its count or its count failed; so the check admits a view only if there is room
  for it, and besides it there are at most the other requests (`ViewsBounded`). ChainRooted is
  inductive by itself, as `Link` reads recorded events only.

- **Billing**. TypeOK needs `CallsHold`: a cancellation holds the subscription it read, a coupon its tier.
  PlanWasBought needs `PlanSeen`: a plan on its way into the row was bought before it is written, as a
  subscribe stores the plan it has read, and an 'active' webhook is only sent of a subscription paid for. FreeIsNotActive is inductive with
  the types. PaidPlanIsCovered is not: a plan may be covered by nothing but an 'ended'
  webhook under way, and handling it takes two UPDATEs, of which the second changes only the status.
  `Covered` counts such a webhook only while it has the downgrade still before it (`EndToCome`), so its
  second UPDATE takes no cover away.
- **Projects**. `CallsFit` says that what a request has read still tells what it needs: the project of an
  environment is there, a row it holds is one of those its slug has had, and if that row is
  still there when a delete reaches its DELETE, it is not protected, since no statement changes
  the protection of a row. ProtectedStays follows from it. ProductionIsProtected needs `ProductionKind`, that an
  environment called production is protected unless a create of that name disturbed its project: the
  loop over the defaults ignores that a slug is taken, and may. ProjectLimit is inductive with the types: a
  COUNT and its INSERT move a request between two sets (`Adding`, `Live`), and the lemmas about `Count`
  say by how much each step moves their cardinalities.
- **Billing and Projects together**. `OrgSpec` interleaves the two, Projects reading the plan from
  Billing's row. ProjectsUnderBilling: it implements Projects, each of Billing's steps being a
  `SetPlan` or nothing to it. LimitsWereBought then says what neither module can say alone: no order of
  subscribes, webhooks, coupons, cancellations and creates gives an organization projects under the
  limit of a plan it never bought, except by creates that overlap and statements that fail. Its inductive
  invariant is `UsesOnly(B)`: if B holds every plan the organization has had, then every limit a
  project was or will be counted against is that of a plan in B. B is the set of bought plans, which only grows.

Before they were proved the invariants of this list were checked with TLC on the runs' instances: `CallsHold`,
`PlanSeen` and `Covered` in the states of Billing, `CallsFit` and `ProductionKind` in the 1,552,680 of
Projects, and both statements about `OrgSpec` in 594,424 states (one billing request, two of projects, no
environments, no failures), where only the limits of the free plan do not suffice for LimitsWereBought.
No run remains of `OrgSpec`: what is true of it is proved.

Only model-checked: the liveness properties (EveryRequestAnswered, DueSecretAttempted, BroadcastEnds,
BroadcastReaches, VanishedIsForgotten, ExpiredIsMarked, EveryCallReturns, CloseEnds, EventuallyFresh, DestroyEnds,
PayingIsServed), as the prover has neither fairness nor ENABLED. Every other property of a
passing run is a theorem.

## Plan

Done: SecretStore and its refinement of AtomicSecrets, Rotation, Hub, Leases, GoClient, NodeClient, Accounts,
Audit, Shares, Billing and Projects; proofs of every invariant and action property the runs check; Billing and
Projects together.

Next, in this order:

1. **Rotation over AtomicSecrets**: the store as a component of Rotation, in place of its one-step writes.
2. **Clients over the hub**: NodeClient with the hub's at-most-once delivery instead of an inbox of
   its own: "a missed event costs staleness until the TTL expires".
3. **References**: bounded expansion as a recursive function against a reference definition.
4. **Python and Java SDKs**: a lock around a cache, several threads.

Two hazards have no property. An event still in the channel of a connection that ends is lost, and websockets.md:112
says of delivery guarantees "There are none". The reaper may mark a lease whose password the target database still
accepts, as three clocks are involved; no text says how far apart they may be. Others have a property that
states an exception, named in `PROJECT.json`: schedules beyond a full listing, or second to a failing
one of the same secret; a rotation's history row that stays pending; a Node client used before `ready()`; an audit
chain that forks; a payer whose plan id is no longer configured. An invitation accepted by two users at once serves both:
RoleWasGranted holds for each, as the role was offered to whoever has the link.

## Not modelled

PROJECT.json gives the reason for each part. In short: approvals (nothing creates one),
integrations, e-mail, analytics and the router (I/O or wiring), RBAC tables, address guard,
identifier quoting and encryption (stateless, with unit tests), schema migration and the CLI
(sequential); secret references and the Python and Java SDKs are in the plan.
