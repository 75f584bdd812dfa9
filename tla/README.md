# A verification project for social-media-v1

The repository is a FastAPI backend (with a Next.js front end) for running social-media
channels: accounts and sessions, workspaces and brands, Telegram channels and their posts,
brand memory, and agents that call language models through a gateway. Its state is in
PostgreSQL (through SQLAlchemy sessions) and Redis; it runs as several web processes and
Celery workers. Paths below are relative to `src/apps/backend/app/` unless they start
with `src/`.

Almost every hard behaviour of this code has the same two causes. An HTTP handler is one
READ COMMITTED transaction that keeps values in ORM objects across awaits, so what it
checks may be gone when it writes; and Redis is read and written by commands that are
atomic only one at a time. The models cut handlers exactly there.

## 1. Inventory

| Component | State | Operations | Hard behaviour | What makes it correct |
|---|---|---|---|---|
| Refresh-token sessions: `services/refresh_tokens.py`, `api/routes/auth.py`, `api/deps.py`, `core/security.py` | `users.token_version`, `refresh_tokens` rows (family, parent, `revoked_at`), JWTs at clients | sign-in, 2FA sign-in, rotation, replay wipe, logout, revoke a session, change password, authenticate | handlers of one user overlap, row locks, stale ORM copies, failures between commits | families are trees of one user; a rotated or revoked token stays dead; "sign out everywhere" leaves nothing alive; every handler ends |
| Password reset: `services/password_reset.py` | `password_resets` rows | request, consume | a link used twice, expired, or around other sessions | one change per link; families revoked with it |
| Two-factor authentication: `services/totp.py` | `users.totp_*`, Redis enrolment secret, recovery hashes | enrol, confirm, verify, disable, regenerate | several commits in one request, list of codes read and written back | a recovery code is spent once; disabling revokes |
| LLM gateway: `adapters/llm/circuit_breaker.py`, `polza.py`, `factory.py` | one Redis hash per (provider, model) | admit, call, retry, record a failure | read-modify-write across processes, a crash between HSET and EXPIRE, time | opens only on earned failures, stays open, recovers, every call ends |
| Brands: `services/brands.py`, `api/routes/brands.py`, `models/brand.py` | `brands` rows, partial unique index on the default | create, update, promote, delete, resolve the default (with backfill) | count-then-insert, check-then-write, the index and its waits | quota, one default, never without a brand, no spurious conflict |
| Accounts, workspaces, row-level security: `services/auth.py`, `services/workspaces.py`, `db/rls.py`, `db/session.py`, `api/deps.py` | `users`, `workspaces`, `workspace_members`, first brand; settings of pooled connections | sign-up, sign-in, admission of a request | two sign-ups of one address; what `SET LOCAL` pins and for how long; policies that may or may not bind | whole accounts; no statement under another request's tenant; an owner is admitted |
| Login lockout, MFA limits: `services/auth.py` | Redis counters | check, count, lock, reset | INCR and EXPIRE apart; check before count | the counter dies with its window; attempts stay within the threshold and those in flight |
| E-mail verification: `services/email_verifications.py` | `email_verifications` rows | request, confirm | attempts read and written back; two active codes | at most the allowed attempts per code |
| Memberships and cache: `services/memberships.py`, `memberships_cache.py` | `workspace_members`, Redis entry with TTL | add, set role, remove, read through | invalidation before commit; a reader puts old data back | stale for no longer than the TTL |
| Brand memory: `services/brand_memory.py` | core row with version, entries, Redis cache | get, PATCH with If-Match, entries | cache set and deleted before commit; version checked before the write | no lost update; cache agrees with a committed row |
| Channels and competitors: `services/channels.py`, `competitors.py` | `channels`, `workspace_channels` | connect, compete, detach, drop, verify | upsert races, rollback of the caller | a live binding keeps its role; an owned one has its rights recorded |
| Ingest: `services/channel_ingest.py`, `channel_history.py`, `workers/tasks/channel_backfill.py`, `api/routes/integrations.py` | `channel_posts`, events | webhook, edit, backfill | duplicated and reordered deliveries, savepoints, events before commit | a post is stored once, with its latest text |
| Embeddings: `services/embeddings.py`, `workers/tasks/embed_channel_post.py` | `channel_post_embeddings` | embed, upsert, retry | text read before an await; two workers | the vector is that of the stored text |
| Agent runs: `services/agent_run_writer.py`, `agents/base.py` | `agent_runs`, `llm_calls`, `llm_calls_daily` | start, record a call, finish, fold old calls | a fold that stops half-way | totals, calls and days agree |
| User-bot pool: `adapters/userbot/pool.py` | session rows with cooldown | pick, mark used, flood wait, ban, probe | SKIP LOCKED; a ban from outside the pool | a ban is final |
| Idempotency: `api/middleware/idempotency.py` | Redis answers by key | look up, execute, store | a retry during the first execution | no execution after an answer |
| Event bus, WebSocket: `core/event_bus.py`, `api/routes/events.py`, `src/apps/web/src/lib/realtime.ts` | a pooled connection and a subscription per socket | publish, open, pump, close | at most once; a tab that goes at any await | a tab that has gone holds nothing |
| Plans, quotas, currency: `services/billing/*`, `services/fx.py` | read-only tables | look up | – | – |
| Audit, admin: `services/audit.py`, `admin_audit.py`, `api/routes/admin.py` | appended rows | record, list | – | – |
| Skills compiler: `skills/*.py` | none | parse, compile | – (pure, sequential) | – |
| Configuration, i18n, mail, telemetry, crypto, Telegram adapter, web app | none that the API decides on | – | – | – |

How they interact: every request goes through `get_current_user` (sessions, memberships
cache) and often `get_active_brand` (brands); sign-in resolves the default workspace and the
default brand in its own transaction, so a failure in brands is a failed sign-in. Routes
commit and then publish to the event bus, services called from workers publish before their
caller commits. Agents and the embedding task call the LLM gateway.

`PROJECT.json` lists every component with its status and, under `hazards`, what is hard to
test, at its line, with the properties that cover it or the reason why none does.

## 2. Plan

In order of importance; all of it is built.

1. **Sessions** with the abstract **SessionAuthority**: the core of the security model.
2. **LlmBreaker**.
3. **Brands**.
4. **Ingest** and, on top of the same posts, **Embeddings**.
5. What sits in front of a row in Redis: **Memberships**, **BrandMemory**, **Idempotency**.
6. Credentials: **Lockout**, **EmailCodes**, **SecondFactor**; **Tenancy** for the accounts
   themselves and the identity their statements run under.
7. **Channels**, **AgentRuns**, **Userbots**, **EventStream**.

Theorems follow the models: one for each safety invariant and action property that a passing
run checks, one for the refinement, and for each refuted property the hypothesis under which it
holds (section 5). All but the third finding have that.

What could follow: weaker hypotheses than `Serial` for the session theorems, such as handlers
that overlap but do not bump a version; the half-done `mfa_disable` stated as a property;
billing, once a decision that writes depends on more than the brand limit.

## 3. The modules

### Sessions, SessionAuthority

`Sessions.tla` has the tables (`users`, `rows`, `resets`), the tokens that clients hold
(`access`, `mfaTokens`: pairs of user and `tv` claim) and `req`, the handlers in flight. A
handler is a record: where it is (`pc`), the values its ORM objects carry (`tv`, `parent`),
the row it has inserted (`new`, visible to others only after the commit), and the rows its
UPDATE has locked (`touched`). One action per await:

| Actions | Code |
|---|---|
| `LoginPassword`, `Persist`, `LoginCommit` | `POST /login`, `_persist`, `_build_login_response` |
| `LoginChallenge`, `LoginMfa`, `LoginMfaVerified` | the second factor; `totp.verify` commits and refreshes the user |
| `RefreshSelect`, `RefreshUser`, `Persist`, `RotateCommit` | `POST /refresh`, `rotate_refresh` |
| `Replay`, `Logout`, `RevokeSession`, `RevokeFamily`, `RevokeCommit` | the family wipes |
| `ChangePassword`, `RevokeAll`, `BumpCommit` | `bump_token_version` and its callers |
| `RequestReset`, `ConsumeReset`, `ResetUser` | `password_reset.py` |
| `EnrollMfa`, `EnrollCommit`, `DisableMfa`, `DisableVerified`, `DisableCommit` | `/mfa/enroll/confirm`, `/mfa/disable` with its two commits |
| `Abort` | an exception, or the loss of the process: `get_db` rolls back |
| `ExpireRow`, `ExpireReset`, `ExpireToken`, `BlockUser` | the clock; an operator |

Requests the code refuses change nothing and are not actions. Passwords, codes, hashes,
cookies and bookkeeping columns are abstracted to "it matched". `gen` is history: the version
under which the credentials that opened a family were checked. An UPDATE that waits for a
lock is modelled as starting when the rows are free. The transactions that hold locks from one
step to the next only revoke rows, so the second look PostgreSQL takes at them finds the same;
a rotation locks its parent in the step that also commits it, and what a waiting UPDATE would
miss of it (the new row) it also misses in the order in which the UPDATE goes first. The constant
`Handlers` chooses the endpoints of an instance; the proofs hold for every choice.

`SessionAuthority.tla` is what callers are promised: open a token, renew one exactly once,
close, sign out everywhere in one step, access only at the version in force. It knows no rows
or transactions. The refinement mapping is the INSTANCE at the end of `Sessions`.

### LlmBreaker

`hash` is the Redis hash (age of `opened_at` instead of the instant, time to live), `call`
the provider calls, `seen` and `streak` count transient failures as history. `RecordFailure`
(HGETALL and the decision), `WriteHash` (HSET) and `Expire` (EXPIRE) are separate: the
asyncio lock around them belongs to one breaker object, and `build_default_provider` makes a
new one for each task. `Succeed` leaves the hash alone, since `return await call()` leaves the
function before `record_success`. `Abandon` is a worker that dies or loses Redis. `Tick` is
the clock; that `int(time.time())` truncates to seconds is not modelled. `force_open` and
`force_close` have no caller outside the tests, the response cache is off by default: both are
left out.

### Brands

`brands` is the table of one workspace; `req` the handlers, with the rows they have demoted
or backfilled and not committed; `raced` remembers whether two handlers ever overlapped, so
that a property can say what holds as long as they do not.

| Actions | Code |
|---|---|
| `Resolve`, `DefaultForWorkspace`, `SelectOldest`, `Backfill` | `default_for_workspace`, as sign-in, refresh and `get_active_brand` call it |
| `CreateBrand`, `ResetDefaultFlag`, `DemoteLocked`, `InsertBrand` | `create_brand` |
| `SetBrandDefault`, then the look-up, `ResetDefaultFlag`, `DemoteLocked`, `PromoteBrand` | `POST /brands/{id}/default`, `set_default` |
| `DeleteBrand`, `DeleteGuards`, `DeleteWrite` | `delete_brand` |
| `ServerError`, `Abort` | an IntegrityError; any other failure, a process lost, a deadlock the database breaks |

Here the demotion's snapshot, its lock and the second look at the rows are separate, because
another transaction can demote in between. The last statement of a handler is one step with
the commit that follows. `Rivals` is the partial unique index as `models/brand.py` declares
it: over deleted rows too; an entry another transaction has not settled is waited for.
`Init` is the brand `ensure_default` makes, with the flag set or, for a brand older than the
column, clear. `update_brand` changes no modelled column.

### Ingest, Embeddings

`Ingest` is one channel. `posts` holds the stored revision of each message, `hook` the webhook
deliveries, `bf` the backfill task. Telegram (`tg`, `acked`) is external: it repeats an update
until it has a 2xx. `Deliver`, `LoadPost`, `NoPost`, `RelookPost`, `InsertPost`,
`TouchAndPublish` and `CommitDelivery` are `_handle_new`, `_handle_edited` and
`ingest_snapshots` behind the route; `StartBackfill` to `AuditBackfill` are
`channel_history.py` run by the Celery task. The unique key on the message makes an INSERT
wait, the UPDATE of the channel's row is held until the commit; the two together can deadlock,
which `BreakDeadlock` resolves as PostgreSQL does. An IntegrityError rolls the whole
transaction back: `begin_nested` flushes before it opens the savepoint, so `expunge` then
raises. Service messages and invalid JSON are acknowledged without effect and left out; the
one listener binding is active from connect. The shipped `fetch_channel_history` is a stub that
returns an empty list: `FetchHistory` has that outcome next to the one its contract announces.
The events of a delivery go out before its commit, those of a backfill about rows that are not
committed either; no code under `src` acts on them, so they are part of the step.

`Embeddings` is one post: task messages with retries and `acks_late` (two workers may have the
same one), each attempt cut at its reads, the provider call and the write. The unique key of
the table migration 0011 makes includes `created_at`, so it stops no second row.

### Memberships, BrandMemory, Idempotency

`Memberships`: `add`, `set_role`, `remove` (`Add`, `SetRole`, `Remove`), the DEL inside the
caller's transaction (`Invalidate`), the commit, and readers cut at GET, SELECT and SET. No
route calls the three yet; their callers are taken to commit or roll back.

`BrandMemory`: the core document and one overlay, each a versioned row with a Redis entry.
`EnsureChannelBound`, `CacheGet`, `Select`, `Materialise` and `CacheSet` are a read, `Load`,
`Create`, `Check`, `Update` and `CacheDelete` a PATCH; an overlay's first read writes the empty
placeholder. The payload is the number of the call that wrote it.

`Idempotency`: the requests with one key of one user (the key is not scoped to the path): GET,
execution, SET with a TTL, with expiry, lost answers and aborted clients. A handler commits and
answers 2xx (`Succeed`), commits and answers an error (`CommitAndFail`: sign-up when the workspace
cannot be read, the audit row of a failed sign-in) or commits nothing; only the first is kept.
`unkept` counts the commits whose answer Redis was never given; `odd` says that a SET failed or
that the entry expired. An error of the GET is not caught; a corrupt entry is left out.

### Lockout, EmailCodes, SecondFactor

`Lockout` has both counters of `services/auth.py`: `kind` chooses the order of read, check and
count, and whether a lock is set. `Incr` and `Expire` are separate commands. Shipped values:
threshold 10 with window and lock of 1800 s, MFA 5 in 15 minutes.

`EmailCodes`: `request_verification` is `LoadUser`, `Load`, `InsertCode` (its commit) and
`SendCode`; `confirm_verification` is `Load` and the comparison. A wrong code (`WrongCode`) is
followed by the commit of the counter (`CountAttempt`), which may fail; `uncounted` counts the
comparisons of each row that were lost that way. A right one (`RightCode`, its commit) is followed
by the caller's second commit, `VerifyEmail`, `ChangeEmail` or `EmailExists`. Ages stand for the
cooldown (60 s) and the expiry (15 min).

`SecondFactor`: enrolment (secret in Redis, `StartEnrollment`, `PeekEnrollment`,
`ConfirmEnrollment`), the second step with a TOTP or a recovery code (`Verify`, `SpendCode`),
`Disable` and `Regenerate`. A handler loads the user's row, and reads it again after `verify`'s
commit (`Refresh`); it writes the columns it set.

### Channels, AgentRuns, Userbots

`Channels`: the registry row of one channel and its binding to each brand. `Probe` asks
Telegram; `SelectRegistry`, `TouchRegistry` and `Register` are `_upsert_registry`; then
`SelectBinding`, `Reconnect` or `InsertBinding`. Detaching, dropping a competitor and verifying
load the binding and write it. `expired` is a session whose rollback expired the loaded `User`,
so that the next attribute access raises and the answer is a 500.

`AgentRuns`: a run's row and LLM calls in the caller's transaction, and
`retention_llm_calls_aggregate_run()` of migration 0014 as `Scan`, `Upsert`, `DeleteFolded`,
`CommitFold`. Migration 0014 installs its cron jobs inactive.

`Userbots`: `pick_next` under `FOR UPDATE SKIP LOCKED` and the three marks in the caller's
transaction, and the healthcheck task with its one retry, which reads the row again (`Reload`).
Nothing under `src` but that task
takes a session yet; the callers follow the pool's docstring.

### EventStream

Sockets of one user: the handler's awaits from handshake to close, the task that drains the
socket, the subscription, the publisher, and the hook in `realtime.ts` that opens the next
socket. redis-py's `subscribe()` returns when the command is written, so `RedisTakesSubscribe`
is a step of its own and the greeting may precede it. The session that authenticates the
handshake keeps its connection of the pool (30 in all) until the handler ends; a handshake that
finds none fails after `pool_timeout`.

### Tenancy

Sign-up, sign-in and `get_current_user` with `require_tenant` over a pool of connections. A
statement needs a connection; `guc` is what `SET LOCAL` has pinned on it, `Released` the end of
a transaction. `enforced` says whether the policies of migration 0008 bind the connecting role:
compose files and CI connect as a superuser, whom they do not bind, production may not; both are
checked. Users come from `create_user` only and a token's workspace is its user's own.

## 4. What the runs check

| Run | Instance | Result |
|---|---|---|
| `sessions` | 1 user, 2 handlers, 3 rows, 1 bump; sign-in, 2FA, rotation, replay, password change, disabling, failures, token expiry, blocking | `TypeOK`, `Lineage`, `ParentRetired`, `RevokedIsFinal` hold |
| `sessions_liveness` | as above with logout and row expiry, 2 rows | `HandlersFinish` |
| `sessions_serial` | 2 users, one handler at a time, 3 rows, 2 bumps per user, a reset link, 2FA sign-in, failures | `NoSilentRestore`, `OneLivePerFamily`, `OwnerRevokes`, `ResetOneShot`; implements SessionAuthority |
| `sessions_version_returns` | 1 user, 2 handlers, 2 bumps | `VersionNeverReturns` is violated (finding 1) |
| `sessions_silent_restore` | 1 user, 2 handlers | `NoSilentRestore` is violated (finding 2) |
| `llm_breaker` | 2 calls, threshold 2, 2 attempts, 4 failures, reset after 1 tick, expiry after 4 | `TypeOK`, `TripEarned`, `CallsFinish`, `BreakerRecovers` hold |
| `llm_trip_consecutive` | the same with one call | `TripConsecutive` is violated (finding 3) |
| `llm_open_holds` | the same with two | `OpenHolds` is violated (finding 4) |
| `brands` | 2 handlers, 4 brands ever, a plan of 2 | `TypeOK`, `QuotaHeld`, `KeepsBrand`, `KeepsDefault`, `AloneNoConflict`, `HandlersFinish` hold |
| `brands_repair` | 2 handlers, 2 brands ever | `RepairSafe` is violated (finding 5) |
| `derived_data` | a channel with 2 messages, one edited, 2 deliveries, 1 backfill, 1 fault; a post with 3 revisions, 2 workers, 1 retry, 3 tasks; a membership with 2 readers and 2 changes; a tab with 2 sockets over a pool of 1 | `AckedStored`, `NewestWhenOrdered`, `BackfillComplete`, `EventuallyCurrent`, `OneRowAlone`, `NoOldVector`, `FreshUnlessRaced`, `ChangeTakesHold`, `StreamLetsGo` hold |
| `shared_rows` | 2 requests over the rows of Channels, BrandMemory, Lockout, SecondFactor, EmailCodes, AgentRuns, Userbots, Idempotency, Tenancy | `BindingsSound`, `LiveRoleStable`, `MemoryHolds`, `EditReplacesNamed`, `AttemptsCounted`, `CodesOneShot`, `CodesHold`, `TokensConserved`, `BanIsFinal`, `RetryReplays`, `AccountsHold` hold |

Findings:

1. `bump_token_version` writes "the value I read, plus one". Of two overlapping bumps the
   slower one writes an older version back, and tokens revoked by the faster one match again.
2. A sign-in or rotation whose INSERT is not yet committed is invisible to
   `revoke_all_for_user`, and comes to life after the password change.
3. `record_success` is unreachable; failures count up across successes until the hash
   expires, so "consecutive" is not what the threshold counts.
4. A failure recorded from a read that is older than another call's trip writes CLOSED over
   OPEN.
5. A deletion that has passed `if brand.is_default` while a promotion of the same brand
   commits leaves a deleted default row. The index still holds it, the backfill at the next
   sign-in raises, and so does every later one.

Each violation run checks the one property a doc or comment of the code states; the trace is
the interleaving described.

The last two runs hold several modules that share no variable: `DerivedData` and `SharedRows`
choose the part at the start and a behaviour is one part's, so the states add up and do not
multiply. They take every constant and state the parts' properties; the proofs are about them
too, and their MC modules add only the values. `shared_rows` uses the symmetry of the two requests and of the pairs of
runs, sessions and connections, and checks no liveness.

Many of their properties hold "unless" a history variable says that something overlapped or
failed. That is the code's contract, and the history variable is as narrow as it can be made:
`raced`, `overlapped`, `lost`, `doubled`, `odd` are set by the very interleaving that breaks the
promise, and the next list says which that is. `uncounted` and `unkept` excuse nothing for good:
they count the failures, and the bound grows by one for each.

Other disagreements between code and comments, met while modelling:

- `models/channel_post_embedding.py` says "One embedding row per ``(channel_post_id, model)``
  pair"; two overlapping tasks leave two rows, after which `scalar_one_or_none` raises in every
  later attempt.
- `routes/brand_memory.py` treats an overlay's first GET as "an idempotent placeholder insert";
  a PATCH that creates the row at the same time is overwritten by the empty document.
- `BrandMemoryVersionConflictError` promises that "two concurrent edits can't silently
  overwrite each other"; two PATCHes that both passed the check do. A DEL before the commit
  lets a reader put the old document back, and a first read that rolls back leaves its entry.
- An `IntegrityError` inside `begin_nested` rolls back the whole transaction (ingest), and in the
  registry's upsert the access to an expired attribute after it raises `MissingGreenlet`: a 500
  where the code means to go on.
- `llm_calls_daily` has `brand_id` in its primary key and the fold fails on calls without a brand,
  as the healthcheck agent makes them; two folds at once count twice. `agent.run.*` events go
  out before the commit.
- `mark_flood_wait` sets a status that `pick_next` never selects, and nothing resets it.
- `verify_email` says "in the same transaction", but the code is consumed in a commit before;
  likewise `change_email_confirm`'s check "under the same transaction". Parallel wrong codes
  count once.
- A recovery code can be spent by two overlapping handlers; two confirmations of one enrolment
  show two lists of which one is stored; a regeneration that overlaps a disable stores a list
  for an account without 2FA.
- A wrong code whose commit fails has been compared and is not counted: the limit of attempts is
  exceeded by one for each (`uncounted`).
- A request that stops between INCR and EXPIRE leaves a lockout counter that no window ends.
  `AttemptsCounted` says nothing after that (`odd`), nor after a check that Redis did not answer,
  another command that failed, or an EXPIRE that ran when a request had set the lock already.
- A retry that arrives during the first execution executes again. So does every retry of a request
  whose handler committed and then answered an error: "Error responses should be retryable", says
  the middleware, and what was committed is committed again (`unkept`). After the entry has
  expired nothing is promised.
- Under a role the policies bind, sign-up answers 500 after it has committed, the fill of the
  memberships cache reads nothing, and the brand routes' refresh after the commit fails.
- The greeting on a WebSocket, "deterministic first message", may precede the subscription.
  `user.registered` is published before any socket of that user can be open.

### Bounds

Two handlers are enough for every conflict the code can have between a pair: each hazard
listed is a check in one handler and a write in another. Three rows make a family with a
rotation and a replay, next to a second family; a third generation repeats the second. The
serial run needs two bumps, one to consume a reset link and one to try it again. Two failures
open the breaker, four open it twice. A plan of two brands with four rows lets a brand be
deleted and another be created beyond the quota. `MaxRows`, `MaxVersion`, `MaxIds` and
`MaxFailures` are bounds; a handler that would exceed one is not started, so no started
handler is stuck on a bound. Deadlock is left unchecked
where a system may really stop: in the session instances in which blocking the only user
leaves nothing to do, and in the last two runs, once the calls are used up.

In `derived_data`, two messages are one that is edited and one that is not, so a backfill can
meet either in its snapshot; two deliveries of one update, and a fault, make every redelivery;
a retry of one worker next to a newer task of the other needs three tasks. A second backfill
and a third delivery repeat what the first two do to a row. In `shared_rows`, `MaxCalls` lets
each row be made, changed by two overlapping requests and read; two e-mail codes are one that
supersedes another, two lists of recovery codes likewise; the lockout has six attempts for a
window of two, so a window is reached, overrun, ended and reached again. `MaxMatch` bounds the
version an edit may name. A pool of one connection is the one that runs out.

### Fairness

Handlers: strong fairness of each handler's own next step. The event loop resumes a coroutine
whose await is done and PostgreSQL grants a row lock in queue order; but the lock of a row can
be taken again by a newcomer between two moments at which the model sees it free, so weak
fairness would not express the queue. Nothing forces a request to arrive. Breaker: weak
fairness of each call (HTTP requests have a timeout, `llm_gateway_timeout_seconds`) and of the
clock. A cyclic wait between transactions would be broken by the database, which is one meaning
of `Abort`; as `Abort` is not fair, `HandlersFinish` passing also says that two brand handlers
never reach one.

`Ingest`: handlers and the task run and get their locks in the end (strong, for the same reason),
PostgreSQL breaks a deadlock, and Telegram goes on sending what it has no 2xx for; posts,
edits, connects and starts of the backfill are not fair. `Memberships`: a request that began
goes on, a change commits or rolls back, a TTL runs out (Redis deletes expired keys).
`EventStream`: weak fairness of the handler's awaits, each bounded by a timeout or a turn of
the loop, and of reading a socket whose client has gone; no fairness of Redis, the publisher
or the tab, except that a drained pump leaves its loop.

## 5. What is proved

Every safety invariant and action property of a passing run, and the refinement, is a theorem
for arbitrary constants. The theorems are in eight modules; those about a part of `DerivedData`
or `SharedRows` are about `DataSpec` or `RowSpec`, of which the part's own specification is one
disjunct. Where a property only says what holds unless handlers overlapped, its inductive
invariant says what each handler carries while they have not.

Assumptions: each module's ASSUME, which TLC evaluates in the runs. Sets that are counted or
summed over are finite (`Requests`, `Calls`, `Hooks`, `Messages`, `Runs`), limits are positive
(`Threshold`, `MaxAttempts`, `FailThreshold`, `MaxBrands`), an embedding has at least one text
and a channel at least one message to be about, the bounds are numbers and the names for
"nobody" name nobody. Some theorems have a hypothesis of their own, given with them below.

### Sessions

`TypeOK`, `Lineage`, `ParentRetired` are invariants; `RevokedIsFinal` and `OwnerRevokes` hold of
every step, whatever handlers interleave. `Lineage` and `ParentRetired` are not inductive: what
a handler carries across awaits must fit the table it will write to. `IInv` adds `HandlersOK` (a
row about to be committed is still this handler's own pending row; a parent read earlier is
still a committed row of the same user; locked rows are the acting user's) and
`NewRowsDistinct`.

The promise of `SessionAuthority` is broken by handlers that overlap (findings 1 and 2) and by
`mfa_disable`, which commits twice. `Serial` excludes both: one slot for requests, and that
endpoint closed; it is the instance `sessions_serial` checks, with any number of users, rows,
versions and reset links. Under it `NoSilentRestore`, `OneLivePerFamily`, `ResetOneShot` and
`VersionNeverReturns` hold, and `Spec` implements `SessionAuthority`: each step is mapped to one
of its actions or to a stutter (`AuthorityImplemented`). Aborts, expiry and blocked users go on
between the steps. `SoleInv` is the invariant behind all five: every value the one handler has
read (token version, generation, parent, link, locked rows) is still that of the tables.

### LlmBreaker

`TypeOK` and `TripEarned`. Increments get lost but are never invented: `CountBelow` says that
every copy of the counter plus the failures not yet recorded is at most what has happened, and
an open hash carries at least the threshold. `OpenHolds`, refuted by two calls, holds for one
(`OpenHoldsForOne`): what it is about to write was read while the breaker was not open
(`NothingStale`), and time only closes a breaker.

### Brands

`TypeOK`, `QuotaHeld` and `KeepsBrand`: `Room` counts the brands together with the handlers that
have passed the quota gate; `Alone` and `LeavesBrand` carry the guards of a lone deletion to its
write. `AloneNoConflict` and `KeepsDefault`: `Tidy` says at each point of a lone handler what it
has demoted and backfilled of the rows that are marked, which are at most one. `RepairSafe`,
refuted by two handlers, holds for one (`RepairIsSafeForOne`).

### Ingest, Embeddings, Memberships (DerivedDataProofs)

- `AckedStored`, `NewestWhenOrdered` and `BackfillComplete`. An update is acknowledged after the
  commit of a delivery, so `DeliveriesSound` says at each await what the delivery has found or
  inserted; `TaskSound` that whatever the backfill has fetched is stored or still to be stored,
  and what it has inserted nobody else has; `OrderKept` says that in order means no older update is in anybody's hands.
- `OneRowAlone` and `NoOldVector`. `NotAhead`: no vector and no text in a worker's hands is newer
  than the post. Alone, a worker holds at least the newest text any row was made from.
- `FreshUnlessRaced`. While nothing raced the cache holds the row or nothing, nothing from a DEL
  to its commit, and a reader about to SET has read the row with no change under way.

### Channels

`TypeOK`, `BindingsSound` and `LiveRoleStable`. The registry row is held by whoever may make a
binding live, until its commit; so what a reconnect read about a binding still holds when it
writes, and at most one request writes a binding. A request whose `User` expired writes nothing
more.

### Lockout, EmailCodes, SecondFactor (SignInProofs)

- `AttemptsCounted`. Wrong attempts are at most the counter plus the INCRs to come, and the
  counter is beyond the threshold only by those about to lock; three disjoint sets of requests
  add up to no more than all of them.
- `CodesHold`. While requests for a code do not overlap, the only active row is the newest and a
  request about to insert has it in its hands. While confirmations do not overlap, the counter a
  confirmation writes back is that of the row, and the wrong codes compared with a row are its
  counter, the comparisons whose commit failed and the one whose commit is to come.
- `CodesOneShot`. `CodesMade`: an accepted code is one of a list that was shown; and unless a
  write was lost, the stored list has unspent codes of the newest one only. The attempt to prove it
  found a case that the bound of four calls of `shared_rows` had hidden: a regeneration that
  overlaps a disable stores a list for an account without enrolment. No list is overwritten
  then, so `lost` also compares the enrolment.

### Tenancy

`AccountsHold`. A connection belongs to one request from its first statement to the end of its
transaction, the others are unpinned, uncommitted rows are complete when they commit, and of
what is committed only a membership ever goes.

### BrandMemory, AgentRuns, Userbots, Idempotency (SharedRowsProofs)

- `MemoryHolds` and `EditReplacesNamed`. `Exclusive`: one edit at a time has a row locked. While
  nothing raced, an entry is the committed document, nothing, or the empty core a first read has
  written; a reader about to SET holds what is committed, or that core; an edit about to commit
  has deleted its entry. The proof needs no exception
  for an edit that is under way, so the property has none.
- `TokensConserved`. For any finite set of runs, the tokens of the finished ones are those of
  their calls plus those of the daily rows, and what a fold has scanned is of finished runs
  and of that fold only (`AgtIInv`). The sum is over a set, defined by folding. The library's
  induction theorems for finite sets are out of reach, so `SubsetInduction` takes a set of
  subsets in place of a predicate and finds the least counterexample with the well-foundedness
  of strict inclusion; `SumsExist`, `SumsAgree` and `SumsSplit` are about functions that satisfy
  the equation of a sum on every subset, and `TotalIs` shows the fold to be one.
- `BanIsFinal`. What a caller has picked is active and picked by nobody else, and while it is, no
  other transaction writes the row.
- `RetryReplays`. Until the entry expires (`Tally`), what has been committed and the requests that
  may still commit are no more than the slots and the commits without a kept answer; and while
  there is no entry, every commit belongs to a request still about to store or was not kept. Until
  an answer is lost (`Replayed`), Redis holds one as soon as anybody was answered.

### What TLC alone shows

Liveness: `HandlersFinish` of Sessions and of Brands, `CallsFinish`, `BreakerRecovers`,
`EventuallyCurrent`, `ChangeTakesHold`, `StreamLetsGo`. Liveness under fairness and ENABLED
are beyond the prover. `EventStream` has no theorem, as its one property is of that kind. The
refutations are TLC's traces; that of `TripConsecutive` needs one call only, and no hypothesis
on the instance makes it true while `record_success` is never run.

## 6. What is not modelled

The components marked so in `PROJECT.json`, with their reasons: pure computation (skills
compiler, pricing, templates), read-only tables, appended audit rows, presentation and
stateless clients have no behaviour a model checker would add to. Inside modelled components:
passwords, hashes, TOTP arithmetic, mail texts, the contents of events and posts, lists and
plain reads; `list_overlays`; the user-facing side of the password reset's cooldown; the
policies of `refresh_tokens`, `idempotency_keys` and `invoices`; SQLite, which tests use in
place of PostgreSQL.


## Running

    tlc -workers 2 -config brands.cfg MCBrands
    tlapm BrandsProofs.tla
