# Specifications of the WeChat publishing system

The program collects articles, maps them to WeChat official accounts, has them
reviewed and publishes them with a browser that drives the account's
administration pages. These TLA+ modules model its core logic, the TLC
configurations check it on small instances, and the `*Proofs` modules hold
theorems checked by TLAPS. Paths are relative to the repository's `backend/app`
unless they start with another top directory.

```
tlc -workers 2 -config pipeline_concurrent.cfg MCPublish
tlapm PublishPromiseProofs.tla
```

## Inventory

| part | state it keeps | operations | what makes it hard |
|---|---|---|---|
| Status machines (`core/states.py`) | the status columns of four tables | `ensure_transition` | every other part must go through it; `_fail` swallows its refusal |
| Publish executor (`modules/publish_engine/executor.py`) | `publish_task`, `content_article.status`, `mp_account.wx_login_*`, `publish_log` | `execute_publish`, `takedown` | calls the outside world in the middle of a transaction; no compare-and-set |
| Scheduler (`modules/scheduler/service.py`, `celery_app.py`) | none of its own | `tick`: collect, map, submit, create tasks, watch logins, publish, retry, alert | two worker processes, one commit at the end, queues read before minutes of work |
| Publish API (`modules/publish_engine/service.py`) | `publish_task` | create, retry, cancel, takedown | beside the ticks; a unique key that covers deleted rows |
| Login window (`modules/mp_manager`, `modules/wx_gateway/gateway.py`, `scripts/wx_login.py`) | `wx_login_status`, `wx_login_expires_at`, `wx_login_alerted_at` | scan, revoke, expire, downgrade, announce, resume | time, four writers, one of them with a stale copy |
| Browser channel (`modules/wx_gateway/browser_channel.py`) | the account's public page | publish, takedown | success that looks like failure; only the first article of a group |
| Content centre (`modules/content_center`) | articles, versions, groups, materials | create, edit, submit, audit, roll back, group | version numbers, review switch changed between two steps |
| Material upload (`core/wx_material.py`) | `content_material_wx_ref` | `ensure_material_on_wx` | look-up, upload, insert by concurrent submissions |
| Collector (`modules/collector`, `core/simhash.py`) | sources with cursor, failure count and circuit; collected articles | run, import, enable, reclean, delete | circuit that opens and who closes it, duplicates under concurrency |
| Mapping engine (`modules/mapping_engine`) | rules, produced articles | `process_collect_article`, `run_pending`, rule administration | conflict resolution, daily limit, two ticks |
| Token store (`modules/wx_gateway/token_store.py`) | token and lock in Redis | get, refresh, invalidate | a lock that expires, waiters that give up, rotation of the secret |
| User sessions (`modules/auth_rbac`) | users, roles, white list of refresh tokens, failure counters | log in, refresh, log out, disable, change roles | look-up and write on Redis and MySQL by concurrent requests |
| Account administration (`modules/mp_manager`) | accounts, assignments | create, update, assign, verify | soft deletion under a unique key, data scope |
| Browser client (`frontend/src/api/http.ts`, `stores/auth.ts`) | tokens, refresh in flight, queue | 401 handling, refresh, logout | callbacks of concurrent requests |
| HTML pipeline, adapters, crypto, notifier, audit, views | | | I/O and text |

Interactions. A tick runs collector, mapping engine and content centre first,
and each commits for itself; from the creation of tasks on, it is one
transaction that calls the executor for every due task. A create or retry
request calls the executor inline in a transaction of its own. The executor
reads the account's login, calls the gateway, and writes task, articles and
login. The parts share the MySQL tables and nothing else; the token store and
the user sessions share Redis.

What makes each part correct: a task publishes its articles at most once and
reports the truth about it; no task is forgotten; a cancelled task stays
cancelled; a lost login delays tasks and costs them nothing; an administrator
hears of every loss; an article is produced once per collected article and
account; one refresher of a token at a time, and never an old token over a new
one; a revoked user session stays revoked.

## Modules

| module | role |
|---|---|
| `States` | the status fields and their white lists |
| `PublishDb` | the tables of the pipeline, and what one SQLAlchemy session does to them, flush by flush |
| `PublishPipeline` | ticks, requests, executor, channel and login window of one account |
| `PublishPromise` | abstract specification: what the pipeline promises to the owner of the account |
| `DbSession` | a request that reads once and commits once, for the modules below |
| `ContentReview` | articles, versions, covers, images, submission, review, groups, materials |
| `CollectAndMap` | sources with cursor and circuit, duplicates, rules, mapping |
| `UserAccounts` | users, roles, assignments of accounts, the lock after failed logins |
| `TokenStore` | the access token of an account: cache, lock and refreshers |
| `BrowserSession` | tabs and calls of a user against the white list of refresh tokens |
| `PublishInvariant` | the inductive invariants of `PublishPipeline` |
| `PublishSafetyProofs`, `PublishCommitProofs`, `PublishPromiseProofs`; `TokenProofs`; `BrowserProofs`; `UserProofs`; `ContentProofs`; `CollectProofs` | theorems, one group of modules per component |
| `MCPublish`, `MCContent`, `MCCollect`, `MCUsers`, `MCToken`, `MCBrowser` | instances for TLC |

### The publish pipeline: sessions and the database

A session (`sess[s]`) is one run of an operation: a tick in one of the worker's
two processes or an API request. `copy` is what it sees: the snapshot its first
read took (MySQL 8, InnoDB, REPEATABLE READ, which nothing in the code
changes), updated by its own assignments. `pend` are columns assigned and not
flushed (`autoflush=False`), `wrote` columns flushed and therefore locked until
the end. A flush waits for the rows another session has flushed (`Blocked`),
may be aborted while it waits, and fails on the unique key (`Duplicate`). The
commit sets the written columns and no others: no table has a version column,
so this is where updates are lost, and the model keeps them.

`sess[s].pc` is the position in the code:

| pc | code | actions |
|---|---|---|
| idle | no operation | `StartTick`, `StartCreate`, `StartRetry`, `StartCancel` |
| flush | inside `flush()` | `Flush`, `UniqueViolation`, `LockWaitAborted` |
| login | `_login_watch`, and the select of `_publish_due` | `WatchLogin` |
| due | loop of `_publish_due` | `PublishNext`; `SelectRetries` when it is over |
| retry | loop of `_retry_due` | `RetryNext`; `AlertDeadLetters` when it is over |
| exec | before the call in `execute_publish` | `RefuseUnapproved`, `SuspendForLogin`, `CallGateway` |
| call | `await gateway.publish` | `PublishSucceeds`, `PublishFails`, `LoginLost` |
| commit | `commit()` | `Commit` |

`Crash` ends a session anywhere: a process that dies, or an exception that
leaves the operation. Beside the sessions run the requests of the content
centre that move an article, submission and review: `ReadArticle` is the read
and the check of its status, `MoveArticle` the commit of the new one, whatever
the article has become in between (`audit_article` does not compare), and
`LeaveArticle` a request that fails. `Editors` is how many of them may work on
one article at a time. `Scan`, `Revoke` and `Tick` (the clock) are short
transactions of other parts.

What is abstracted in the pipeline:

* One account. Tasks of different accounts meet only in the tick's loops, and
  a tick that fails for one fails for all (`UniqueViolation`).
* `scheduled_at` and the dates of a backoff: `later` in `WatchLogin` and
  `SelectRetries` is any set of rows whose time has not come. That a backoff
  this tick has set is not over is kept.
* `Content[k]` is constant: re-ordering a group between creation and execution
  is left to the content module. The content centre has no operation that
  deletes an article.
* `last_errcode` is none, the lost login, or another.
* Of `publish_log` only the ALERT rows, which the scheduler reads.
* A select inside a transaction filters on the session's copy. On InnoDB a row
  the session has itself updated shows other sessions' columns too; a row
  selected differently for that reason is one two sessions were working on.
* The rows of one flush are locked together; the deadlocks a row-by-row order
  adds are `LockWaitAborted`.
* A takedown changes the error text of a task and nothing a decision reads.

### Requests that commit once (`DbSession`)

Content, collection and administration have handlers of one shape: read,
check, compute, commit. `sess[s]` holds the snapshot such a request began with
(`seen`) and what it will commit (`new`); a request whose checks fail changes
nothing and is not opened. `Commit` updates the columns in which the two differ
(`Merge`), whatever the row has become since, and fails on a unique key
(`Collides`, and the `Duplicate` of each module). `Abort` is that failure, a
call that fails half way, or a process that dies. So a check that has become
stale, and an update that is lost, are behaviours of the model.

Every commit that meets every other is more than TLC can enumerate at once.
`Offers` is a set of sets of kinds of request; a behaviour takes one of the sets
and makes only requests of these kinds, and the run covers all the sets. Kinds
in `Alone`, and all kinds of a behaviour with the kind "alone" (`Sequential`),
are made while no other request is in flight. The tables below say which kinds
overlap.

### Content (`ContentReview`)

| actions | code |
|---|---|
| `CreateArticle`, `UpdateArticle`, `CreateVersion`, `Rollback` | `content_center/service.py`: the save functions, each with `_snapshot_version` and `_next_version_no`; level 2 access |
| `Submit`, `AutoSubmit` | `submit_article` by a user of level 3, and by the tick for mapped articles outside groups; both with `Transferred`: the image moves to WeChat (`core/wx_material.py`) |
| `Audit`, `SetReview` | `audit_article`; `need_review` of the account |
| `CreateGroup`, `AddToGroup`, `Reorder`, `RemoveFromGroup` | draft groups and positions |
| `UploadMaterial`, `DeleteMaterial` | materials, with the refusal of one an article uses as cover |
| `Published` | what `PublishPipeline` does to an article |

A text is a body and whether its image already points to WeChat; `Versions`
bounds the versions of an article.

### Collection and mapping (`CollectAndMap`)

A feed is a sequence of items in the order they are published. An item may have
a date; `Stamp` is its rank by the order of strings, which is what `fetch_list`
compares, and need not follow the order of publication (RFC 822 dates sort by
the name of the day). The cursor is the greatest date returned so far: of the
dated items a run offers those beyond it, and all without a date (`NewItems`,
`NewCursor`). `RunNow` is a run as a whole: it stores the new items one after
the other, each with its duplicate check
(`Similar`: recall by equal bands of the SimHash, then the Hamming distance),
or stores some and fails. `Kept` is the savepoint around each insert: an item
someone else has stored since the snapshot is passed over and the run goes on.
`MapOne` is `process_collect_article` for one article, which is what
`run_pending` commits at a time: candidates, winner per target account,
products, daily limit. `today` is the date and `NewDay` changes it. A product has
the day it is to appear on: today, or tomorrow if today has reached the limit
of its rule, or none if the rule has no window or drops what is too much
(`Day`); only articles with today's date are counted (`SameDay`). `made` is
history. `Evaluate` and `Detail` translate the two evaluations of
a condition, the one that decides and the one that explains.

### Users (`UserAccounts`)

Administration uses `DbSession`. A login is read, verify, `INCR`, `EXPIRE` or
`DEL`, one action each, with other logins of the user between any two. `wrong`
is a history variable: the wrong passwords tried since the count was last
absent.

### Access token (`TokenStore`)

One action per call to Redis or WeChat, with time in seconds: `Get`, `Acquire`
or `Queue`, `Answered`, `Refused` or `AnswerLost`, `Store`, `Release`; `Poll`
by waiters; `Invalidate` by a new secret; `Crash`; `Tick`. WeChat ends the old
token when it issues a new one, so `wx.latest` is the only one it takes.
`Lifetimes` are the values of `expires_in`, short ones included: the cache keeps
a token for `SafeTtl` less than that, but never for less than `MinTtl`
(`CachedFor`).
`latency` is how long a refresh may take in a behaviour.

### Browser (`BrowserSession`)

`http.ts` and the server's three endpoints for one user. A call goes through
`sent`, `queued` (waits for the refresh of another call of its tab), `refresh`,
`rotate` and `add` (the server's three steps on Redis), `answered` or
`refused`; a logout through `scanned`. Tabs share `localStorage` (`store`) and
nothing else. Of an access token only whether the server still takes it is
kept; tokens not in use are used again, which keeps the instance finite.

## Runs

| run | instance | checks |
|---|---|---|
| `pipeline_concurrent` | one task, three sessions: a tick, a tick or a request, a request; crashes; one retry by the scheduler and one by hand | `NoTaskStranded`, `PublishedIsTrue`, `CancelledIsFinal` |
| `pipeline_sequential` | an article, the group it is in and an automatic article; one session; two retries | `TypeOK`, `AtMostOnce`, `KeepsPromise`, `ApprovedIsSettled` |
| `pipeline_login` | a real account, one automatic task, three units of time, success that looks like failure | `LossCostsNoRetry`, `ResumedAfterScan`, `LossIsAnnounced` |
| `content_review` | two articles, a group of two, a material, two requests; saves, manual versions and rollbacks overlap | `TypeOK`, `VersionsAppendOnly`, `LatestVersionIsText`, `PositionsDistinct`, `CoverExists` |
| `collect_and_map` | one source with a feed of three items, two of them close, one without a date and one with an earlier date than an item before it; two rules, two targets, two days, two requests; collecting and mapping, each one request at a time and overlapping | `TypeOK`, `OnlyLatePassed`, `NearDuplicatesSettled`, `CircuitMatchesCount`, `ProductsMatchStatus`, `BestRuleWins`, `DryRunAgrees`, `TodayWithinLimit` |
| `user_admin` | two users, two roles, an account, two requests, two logins | `TypeOK`, `GuessesBounded`, `LockEnds`, `SuperAdminRemains`, `OneLevelPerAccount` |
| `token_store` | three callers, a lock of two seconds, refreshes of up to one second and of up to three, tokens that live long and tokens that live for less than the least time in the cache | `TypeOK`, `OneRefresher`, `CachedIsLatest`, `CachedHasMargin`, `ReleasesOwnLock`, `LockOpens` |
| `browser_session` | two tabs, three calls, one of them a logout; three refresh tokens | `TypeOK`, `Settled`, `NotThrownOut`, `OneTokenPerSession`, `RevokedStaysOut` |
| `duplicate_publish` | one automatic task, two ticks | `AtMostOnce` is violated |
| `cancelled_key` | two automatic tasks, one session | `CancelledKeyIsFree` is violated |
| `login_dead_letter` | a real account, one automatic task | `LossIsNoDeadLetter` is violated |
| `text_frozen` | the instance of `content_review` with everything overlapping | `TextFrozen` is violated |

### What they show

`pipeline_concurrent` gives every order of three sessions on
one task, with crashes and lock waits anywhere: whatever overlapping executions
of the task overwrite of each other, the row ends in a state the scheduler can go on
from, and PUBLISHED is only ever committed together with the articles' status
and after they went online. That the articles stay marked is claimed while no
two reviews of one article overlap (`OneEditor`, which this instance has): a
second review that read PENDING_REVIEW before the publication writes its own
status over DRAFT_CREATED. Its tables have one row each, because sessions meet row
by row; several tasks in one tick are in `pipeline_sequential`, and the proofs
below hold for any number of tasks and sessions.
`pipeline_sequential` shows that without overlap the pipeline implements
`PublishPromise`, also where an article is the target of two tasks; the retry
limit of one is reached and passed. In `pipeline_login` the window of two units
with a warning of one passes through every login status within three.

`content_review`: two saves that read the same last number cannot both commit
(`uk_art_ver`), and it is this key, not the status check, that keeps the text
equal to the latest version; without it an update is lost. Groups and covers
are checked one request at a time: two overlapping additions do get one
position, and a cover chosen while its material is deleted does dangle.

`collect_and_map`: a run that fails half way or aborts leaves the cursor where
it was, so overlapping runs repeat work, and lose nothing by it. What the cursor
does pass is an item published after another with a date that sorts no higher
(`OnlyLatePassed`); the feed of the instance has one, and a run that comes late
enough never gets it. Recall by bands misses no pair within the threshold: four
bands, at most three bits. Two mappings of one article cannot both commit a
product. What is made on a day for that same day stays within the limit, also
when the day before has left articles for it, which count. What overflows is not
limited: it is sent to the next day unseen, any number of articles of it. The
circuit, the daily limit and duplicates against articles of an overlapping run
are claimed only without overlap (`Sequential =>`), because counts and look-ups
go stale with it. Feeds publish only in behaviours with runs and days pass only
in those with mappings: nothing else reads them.

`user_admin`: the limit of failed logins may be passed by the logins already
under way when it is reached and by no more. The last super administrator stays
if changes of status and roles do not overlap; two administrators who demote
each other at the same time do leave none. `LockEnds` excepts behaviours with a
crash (`reliable`): between `INCR` and `EXPIRE` it leaves a lock without end.

`token_store`: `OneRefresher` and `CachedIsLatest` hold while a refresh takes
less time than its lock lives (`Timely`); the instance has slower ones, for which
the two are not claimed and the other properties are. In the program the lock
lives 10 s, and the HTTP client's limit of 5 s holds for connecting, sending and
each piece of the answer separately, with calls to Redis around it: the
condition is usual, and nothing guarantees it. `CachedHasMargin` is about every
lifetime: `SafeTtl` for a token that lives for `SafeTtl + MinTtl` or longer, and
for a shorter one what the least time in the cache leaves of its life, which is
less than nothing below `MinTtl` (`Margin`): such a token is cached beyond its
end.

`browser_session`: within a tab `isRefreshing` keeps every call from presenting
a token that is rotated already (`NotThrownOut`, `OneTokenPerSession`). Both
are about calm behaviours: one tab, no logout, nothing revoked, no answer lost. Two tabs
that refresh together can log the user out or leave two tokens.
`RevokedStaysOut` excepts a revocation that meets a refresh between its check
and its new key, which escapes it.

### Bounds

`MaxPosts` bounds how often an article is put online (two, one more
than allowed), `MaxRetries` the manual retries (`retry_task` has no limit),
`MaxNow` the clock. `Editors` is one request of the content centre for each
article. `MaxRetry` is the program's `max_retry` (5 by default), set
to 1. `Faults` says which faults a run includes. Two requests suffice for a
stale read: one that read and one that has committed since. `Versions` gives
the edited article its first version and one more number to compete for.
`LastPosition` bounds the positions a reordering gives, beyond those of a list
without repetitions; the program has no bound, for a list may name a member any
number of times. `MaxDay` is two days: one that overflows and one that receives.
`MaxRules` is two, one preferred to the other by priority or by age;
`CircuitThreshold` is two of at most three failures (`MaxFails`), so the circuit
opens, stays open over a further failure, and closes. `MaxRows` (three)
lets an assignment be removed and made again. `MaxFail` is two, with two logins
that can pass the check together. Times of `TokenStore` are small and keep their
order: `SafeTtl` exceeds `LockTtl`, one lifetime exceeds `SafeTtl + MinTtl` and one
is below `MinTtl`, the latencies lie on both sides of `LockTtl`; two tokens (`MaxTokens`)
are an older and a newer one. Three callers are a refresher, one that overtakes
it and a waiter. Requests are interchangeable where a run declares symmetry.
Deadlock is checked except in `collect_and_map`, where the feed may be
read to its end and all sources and articles deleted.

### Fairness

`PublishPipeline` (`FairSpec`): beat posts a tick every minute, so a worker keeps
starting ticks: strong fairness of `StartTick`, as sessions can be busy in
between. An operation that has begun goes on: weak fairness of `Step`. Strong
fairness of `WatchLogin(s, {})` and `SelectRetries(s, {})` says that
`scheduled_at` and every backoff pass some day. Nothing is assumed of requests,
reviews, scans or the clock, and nothing says that a call succeeds. A tick that
has ended by itself may be followed by a request on the same session; a crash
at every tick would refute liveness, so the fair runs have no crashes.

`TokenStore`: time passes (a refresh ends within `latency`, so WeChat or the
HTTP client's timeout ends each call) and a coroutine that can go on does.
`UserAccounts`: a login under way goes on, and Redis lets a key expire.
`BrowserSession`: the server answers or the connection fails; the refresh of
`http.ts` has no timeout, so without this a call could wait for ever.

### Disagreements with the documents

Four runs show where the program and its documents disagree:

* `duplicate_publish`. The design (`docs/公众号管理系统设计.md`, lines 1041 and
  2687) wants every status change as a compare-and-set that is committed before
  the work begins. `execute_publish` sets PUBLISHING and `dispatched` in memory
  and flushes after the browser is back. Two ticks that overlap, or a tick and
  a request, publish an article twice.
* `cancelled_key`. The design (line 2860) says that cancelling releases the
  `biz_key`. The row stays under `uk_biz_key`; the next tick inserts the key
  again and fails, as does every tick after it. This is why
  `ApprovedIsSettled` excepts cancelled automatic tasks.
* `login_dead_letter`. `docs/浏览器发布登录态授权设计.md`, line 241, and
  `tests/test_login_auth.py` say that a lost login never makes a dead letter. A
  login lost during the last retry does.
* `text_frozen`. The comment at `EDITABLE_STATUSES`
  (`modules/content_center/service.py`, line 35) and the design (line 1740) say
  that a text is locked from PENDING_REVIEW on. `update_article` checks the
  status it has read and never again: a save opened before the submission and
  committed after it changes the text under review, or the approved one.

Four more have no run. The passing properties of the parts claim what the code
does do:

* Reviews. The design (line 1035) wants a status changed by an UPDATE that
  compares the one it moves from. `audit_article` compares with its snapshot and
  commits later: of two overlapping reviews the second moves APPROVED to
  REJECTED, or DRAFT_CREATED back to APPROVED after the publication.
  `PublishedIsTrue` claims the marks of the articles for one review at a time
  (`OneEditor`); `MoveArticle` compares as little as the code.
* Short tokens. The header of `modules/wx_gateway/token_store.py` and the design
  (line 2536) say that a token read from the cache lives for five minutes more.
  `max(60, expires_in - SAFE_TTL)` does not see to it when `expires_in` is short.
  `CachedHasMargin` states the margin for each lifetime.
* Dates of a feed. The header of `modules/collector/adapters/rss.py` says that
  only newer items are kept, and all where dates do not compare. Dates are
  compared as strings in whatever format the feed writes them, so a newer item
  may sort below the cursor, and no later run offers it again. `OnlyLatePassed`
  states which items that can happen to.
* The daily limit. The design (line 2305) has a rule limit the articles of each
  day, and looks for a free day (`suggest_slot`, lines 2416-2428).
  `compute_suggested_publish_at` moves what is over today's limit to tomorrow
  without looking at tomorrow. `TodayWithinLimit` states what is limited.

Every property of a passing run has a mutant: an operator with the comment
"Mutant:" that stands before the definition it replaces and is used nowhere
else. `PROJECT.json` lists them.

## Proofs

`PublishSafetyProofs!TypeCorrect`: `Spec => []TypeOK`. One lemma per helper that
builds a record (`Edited`, `Inserted`, `Failed`, `Apply`, ...) and one step per
action.

`PublishSafetyProofs!NeverStranded`: `Spec => []NoTaskStranded`, for any number
of tasks, articles and sessions, with all faults. `NoTaskStranded` speaks of
committed rows and is not inductive: a commit writes what a session has
prepared long before. `StrandInv` adds what every session keeps:

* `status` and `dispatched` of a row are changed and flushed together, and in
  the session's copy `dispatched` is set exactly for PUBLISHING, PUBLISHED and
  FAILED (`DispatchKept`);
* PUBLISHING exists in a copy only during the call, and cannot be flushed there;
* the queue of `_retry_due` holds FAILED rows only, so `ensure_transition` there
  always accepts (`QueueKept`); this needs to know where `execute_publish`
  returns to, hence the conjuncts about `then` and `ret`.

A commit then takes both columns from the session or neither, and the row is
paired either way. The lemmas follow the code: what an assignment does to the
written columns (`EditColumns`), what `_fail` does (`FailedRow`), what each way
out of `execute_publish` does (`Returns`), and one step per group of actions.

`PublishCommitProofs!PublishedMeansOnline`: `Spec => []PublishedIsTrue`. A
commit may publish a row its session saw PUBLISHED long before, so `TruthInv`
says of every session that what it sees PUBLISHED was delivered and is marked
(`ReportTrue`), and that every mark it sees is in the tables or among its own
unflushed or flushed writes (`MarksKept`). With one editor it adds that a review
in flight has read the status the article still has, and that what a session
sees APPROVED or DRAFT_CREATED still is one of the two (`ReviewInv`), so no
review writes over a mark. No mark waits for a flush when the session commits,
hence a committed PUBLISHED comes with its marks. The steps are first sorted by
what they do to the session's copy (`Case`: a flush, a move on, an edit of
existing rows, the edit after a publication, an insertion); each property then
has one argument per case.

`PublishCommitProofs!CancelledStays`: `Spec => CancelledIsFinal`. `CancelInv`
has the row locks (`LocksHeld`: no two sessions have flushed changes of one
row), that a flushed INSERT means the key has no committed row (`RowsSeen`),
and that a session writes `is_deleted` only to set it (`RowWrites`). A commit
that touches a cancelled row therefore either leaves the column alone or sets
it again, and a new row of its key is impossible.

`PublishPromiseProofs!PublishedOnce`: `Spec => []AtMostOnce`, and `PromiseKept`:
`Spec => KeepsPromise`, the refinement of `PublishPromise`, both under
`Undisturbed`: one session and one editor at a time, `Faults = {}`. The condition is necessary:
`duplicate_publish` shows two ticks publishing one article twice. Tasks,
articles, groups, retries and the login are as general as in the other theorems.
`AloneInv` has three parts: what is online was put there once and is marked for
whoever would publish it next, which is the tables between operations and the
session's copy during one (`OnlineMarked`); an operation ends with its commit,
calls the channel only for approved articles of tasks that are not cancelled,
and has marked nothing when one of its INSERTs can still meet a duplicate, so
that a rollback loses no mark (`CourseKept`); a session either publishes, and
then leaves `is_deleted` and PUBLISHED as they are, or cancels one SCHEDULED
task and commits (`Publishing`, `Cancelling`). A publication maps to `Deliver`,
a commit to `Report` or `Withdraw`, every other step to a stutter.

`PublishPromiseProofs!LossIsFree`: `Spec => LossCostsNoRetry` under
`TicksInTurn`: no clients, one tick after the other; faults, accounts, tasks and
groups are arbitrary. `LossInv` says that a FAILED row that waits for the login
has no backoff (`NoBackoff`), and of a tick that where its copy differs from the
tables it has changed the row and, outside a flush or a call, flushed it, so a
row that waits in the tables is never in the retry queue (`TickKept`). The
condition is necessary: with two overlapping ticks and two retries TLC finds the
tick with the older snapshot, which saw the task FAILED for another reason,
retrying it after the other has committed the loss.

`TokenProofs`, for any number of callers and all constants: `TokenTypes`
(`TypeOK`); `OneRefresherAtATime`: while refreshes are timely, a refresher holds
the lock, for the lock's time and the refresh's age add up to `LockTtl`
(`AgeInv`, `HolderInv`), so there is one; `CachedTokenIsLatest`: the newest
token is in the hand of that one, in the cache, lost or deleted (`OrderInv`,
`FreshInv`); `MarginKept`: the life of the newest token exceeds what the cache
will give it by the margin of its lifetime, less the age of the refresh
(`MarginInv`), for every latency and every lifetime; `OwnLockOnly`.

`BrowserProofs`, for any tabs, calls and refresh tokens. `BrowserTypes`
(`TypeOK`) needs that `isRefreshing` of a tab is set exactly while one call of
the tab refreshes, and that calls wait only then (`RefreshKept`), and that for
every call which may still be given a token a number is free, since a call that
was sent again does not refresh a second time (`RoomKept`): the bound on tokens
never ends a behaviour. `RevokedIsOut`: after a revocation the white list is
empty and no call is between its check and its new key, nor gets there
(`OutKept`). `OneTokenCounts` and `NeverThrownOut`: in a calm behaviour the
token that counts is the one in `localStorage`, but while a refresh has deleted
it or carries its successor (`CalmKept`); so no call ever presents a token
rotated away.

`UserProofs`, for any users, accounts, rows, requests and logins. The
committed tables alone do not say what a request in flight will do to them, so
`AdminInv` says of each request that it holds a change of its snapshot of one of
three forms (`UserChange`, `AssignChange`, `AccountChange`), and how the tables
have grown since (`Grown`): no row goes. A lemma per table then says what
`Merge` makes of the columns. `OneLevel`: the new row of an assignment has the
next number, so of two requests that saw no live row one meets `uk_user_mp`.
`SuperAdminStays` rests on `{"status", "roles"} \subseteq Alone` in
`AccountsAssumption`: the two check that another super administrator remains
and then write, and overlapping they do leave none. `GuessesAreBounded`:
`wrong` is the count in Redis, and count and logins that have passed the check
together stay below the limit plus the number of logins (`LoginInv`).

`ContentProofs`, for any articles, groups, materials, versions and requests.
`Effect` says for each kind of request what it may change of its snapshot:
versions only by adding the next one, with the text it leaves (`NewVersion`);
groups, covers and texts only for the kinds that own them. `VersionsOnlyAdded`
holds with everything overlapping: a version is numbered after those of the
snapshot, and if another was committed since, `uk_art_ver` refuses it. The
other theorems name, as a hypothesis, the kind that must overlap no other
request: `"submit"` for `NoSaveIsLost` (a submission writes the text it has
read, with the image moved, and adds no version, so it would undo a save),
`"group"` for `PositionsDiffer`, `"material"` for `CoversExist`; `ContentTypes`
needs none. The configurations meet these hypotheses, and each is needed: TLC
finds a lost save, an equal position and a dangling cover without it. For
positions the invariant adds that groups are finite and within their size
(`Grouped`), so that `next_pos` exceeds the position of every member; positions
themselves have no bound.

`CollectProofs`, for any feeds, items, rules, targets and requests.
`CollectTypes`, `PassesOnlyLate` and `StatusTellsProducts` hold with runs and
mappings overlapping, aborting and failing half way. `Sound` has what the
tables keep: the cursor has passed no item that is not stored, but for one
published after a stored item with no lesser date (`Reached`), a stored item
keeps its row, `TRANSFORMED` means something was made. `Effect` has what a
request does to its snapshot: an item is mapped, stored, deleted or left
(`MapsItem`, `LeavesItem`), and a run moves its cursor only to the greatest date
of items it or others have stored (`RunOf`): the first of them that has this
date is the earlier item of `OnlyLatePassed`. `Grown` needs one thing more than that rows stay:
of an item that no rule wants others make nothing either. Otherwise the commit
of a mapping that found no rule could set UNMATCHED on an article with products.
It holds because rules and confirmations do not change under a request
(`{"create", "rule", "confirm"} \subseteq Alone`), so two mappings decide the
same (`SameDecision`). `KeptIs` covers the savepoint: items met on the way leave
what a run commits a change of its snapshot. `PreferredRuleWins` is an action
property of the same invariant: the winner exists because priority and age order
the rules totally (`FirstRule`).

Without overlap (`AloneInv`): `CircuitCounts`; `DayLimitKept`, where a new product
joins those of its day only if all with today's date, these among them, are
fewer than the limit; and
`DuplicatesSettle`, for `HammingThreshold < 4`. Its lemma `Recall` is the reason
for four bands: texts that differ in fewer bits than there are bands agree in
one. The hypothesis is the program's `HAMMING_THRESHOLD = 3`; with 4 the lemma is
false. A run stores a list one item after another (`Ingested`, a recursive
function); what every step keeps is carried to its end by induction over the
length (`Stepwise`). `DryRunTells` is about the two evaluations of a condition
only: gate by gate they agree.

The assumptions are those named in the modules, and the runs evaluate them:
`ContentAssumption` and `PipelineAssumption` for the pipeline, `TokenAssumption`,
`BrowserAssumption`, `AccountsAssumption`, `ContentAssumption` of
`ContentReview`, `CollectAssumption`. They say of constants that articles,
items, rules' forms, bits and logins are finitely many, that `None` is none of
them, that bounds are natural numbers, and which kinds are in `Alone`.

Only model-checked: the liveness properties (`ResumedAfterScan`,
`LossIsAnnounced`, `ApprovedIsSettled`, `LockEnds`, `LockOpens`, `Settled`),
which the prover's backends do not reach.

## Not modelled

* Content: titles, digests and the other attributes no decision reads, style
  templates, the choice of images inside a text beyond one.
* Collection: test runs, re-cleaning, when a source is due, parsing and cleaning
  (text and I/O), the mock adapter (it makes articles up), items that a feed no
  longer lists, the bound of 200 candidates of a duplicate check.
* Mapping: the transformation of a text, the hour of a publication window.
* Users: signing and decoding of tokens (a library), the client's navigation
  guard, the blacklist of access tokens beyond "blocked".
* Channel and pipeline: page automation, takedown (changes an error text only),
  publish_log rows other than ALERT.
* HTML cleaning (text), encryption (a library), configuration, audit rows,
  notifications and the AI client (nothing reads what they leave), views.

## Plan

1. done: the publish pipeline, content, collection and mapping, token store,
   users, browser; every safety invariant and action property of the passing
   runs and the refinement of `PublishPromise` proved; the liveness properties
   stay with TLC.
2. Model: feeds that drop their oldest items; the order of row locks inside one
   flush; a group re-ordered while it is published.
