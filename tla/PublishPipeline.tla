--------------------------- MODULE PublishPipeline ---------------------------
(***************************************************************************)
(* The publish pipeline of one official account: the scheduler's tick, the *)
(* inline execution of POST /publish-tasks and of a manual retry, the      *)
(* cancellation of a task, the browser channel that puts articles online,  *)
(* and the account's login window.                                         *)
(*                                                                         *)
(* Every operation runs in a database session of its own.  The worker runs *)
(* ticks with concurrency 2, and API requests run beside them; nothing     *)
(* excludes one session from another but the row locks taken by a flush.   *)
(* An operation commits once, at its end, after it has published.          *)
(***************************************************************************)
EXTENDS PublishDb, FiniteSets

CONSTANTS
  AutoKeys,   \* "article:{id}" of the articles outside every draft group
  Workers,    \* sessions of the celery worker, one per slot: they run ticks
  Clients,    \* sessions of API requests
  Editors,    \* requests of content_center, one at a time for each article
  MaxRetry,   \* publish_task.max_retry
  Real,       \* account_type 1 or 2 (browser, login needed), not 3 (mock)
  WarnBefore, \* WX_LOGIN_WARN_HOURS
  Ttl,        \* validity of a scanned login
  Faults,     \* what may go wrong: a subset of {"crash", "lostAck"}
  MaxNow, MaxPosts, MaxRetries  \* bounds on the clock and on the counters

Sessions == Workers \cup Clients

ASSUME PipelineAssumption ==
  /\ Keys # {}
  /\ AutoKeys \subseteq Keys
  /\ \A k \in AutoKeys : Content[k] = {Lead[k]}
  /\ MaxRetry \in Nat /\ MaxNow \in Nat /\ MaxPosts \in Nat /\ MaxRetries \in Nat
  /\ WarnBefore \in Nat /\ Ttl \in Nat \ {0}
  /\ Real \in BOOLEAN
  /\ Faults \subseteq {"crash", "lostAck"}

VARIABLES
  db,     \* the committed tables
  sess,   \* the sessions
  posts,  \* posts[x]: how often article x was put online on the account
  now,    \* the clock
  review  \* review[e][x]: the status of x that e's request has read

vars == <<db, sess, posts, now, review>>

\* Where a session stands: waiting in a flush; in the tick's steps; about to
\* call execute_publish; inside gateway.publish; about to commit.
Pc == {"idle", "flush", "login", "due", "retry", "exec", "call", "commit"}

\* then: the pc after the flush; ret: the pc after execute_publish; cur: the
\* task being executed; todo: what is left of the tick's current queue; since:
\* the tick's own "now"; copy: the session's objects; pend: changed, not
\* flushed; wrote: flushed, so locked until the session ends.
Session ==
  [pc: Pc, then: Pc, ret: Pc, cur: Keys, todo: SUBSET Keys, since: Nat,
   copy: Database, pend: Writes, wrote: Writes]

NoSession ==
  [pc |-> "idle", then |-> "idle", ret |-> "idle", cur |-> CHOOSE k \in Keys : TRUE,
   todo |-> {}, since |-> 0, copy |-> NewDatabase, pend |-> NoWrites,
   wrote |-> NoWrites]

Init ==
  /\ db = NewDatabase
  /\ sess = [s \in Sessions |-> NoSession]
  /\ posts = [x \in Articles |-> 0]
  /\ now = 0
  /\ review = [e \in Editors |-> [x \in Articles |-> "NONE"]]

-----------------------------------------------------------------------------
(* Sessions *)

Idle(s) == sess[s].pc = "idle"

\* The session a request or a tick begins, with the snapshot of its first read.
Opened == [NoSession EXCEPT !.copy = db, !.since = now]

\* Assigning to mapped attributes.
Edited(se, new) ==
  [se EXCEPT !.copy = new, !.pend = Join(@, Changes(se.copy, new))]

Inserted(se, K) ==
  [se EXCEPT
     !.copy.task = [k \in Keys |-> IF k \in K THEN NewTask ELSE @[k]],
     !.pend = Join(@, Inserts(K))]

Flushing(se, next) == [se EXCEPT !.pc = "flush", !.then = next]

Blocked(s) ==
  \E o \in Sessions \ {s} : Conflict(sess[s].pend, sess[o].wrote)

\* Mutant: a unique key over the live rows only.
DuplicateAmongLive(s) ==
  \E k \in Keys : "insert" \in sess[s].pend.task[k] /\ Live(db.task[k])

\* An INSERT that meets a row of the same biz_key, soft-deleted or not.
Duplicate(s) ==
  \E k \in Keys : "insert" \in sess[s].pend.task[k] /\ db.task[k].status # "ABSENT"

Flush(s) ==
  /\ sess[s].pc = "flush"
  /\ ~Blocked(s) /\ ~Duplicate(s)
  /\ sess' = [sess EXCEPT ![s].pc = sess[s].then,
                          ![s].wrote = Join(@, sess[s].pend),
                          ![s].pend = NoWrites]
  /\ UNCHANGED <<db, posts, now, review>>

\* The session is rolled back and its locks are released.
Abort(s) ==
  /\ sess' = [sess EXCEPT ![s] = NoSession]
  /\ UNCHANGED <<db, posts, now, review>>

\* IntegrityError: neither the tick nor create_task catches it.
UniqueViolation(s) ==
  sess[s].pc = "flush" /\ ~Blocked(s) /\ Duplicate(s) /\ Abort(s)

\* Lock wait timeout, or the victim of a deadlock.
LockWaitAborted(s) ==
  sess[s].pc = "flush" /\ Blocked(s) /\ Abort(s)

Commit(s) ==
  /\ sess[s].pc = "commit"
  /\ db' = Apply(db, sess[s].copy, sess[s].wrote)
  /\ sess' = [sess EXCEPT ![s] = NoSession]
  /\ UNCHANGED <<posts, now, review>>

\* The process dies, or an exception nobody maps to an outcome (the browser
\* does not start or does not close) leaves the operation.
Crash(s) == "crash" \in Faults /\ ~Idle(s) /\ Abort(s)

-----------------------------------------------------------------------------
(* The account's login window *)

Window == {"AUTHORIZED", "EXPIRING"}

LoginValid(mp, t) == mp.login \in Window /\ t < mp.expires

\* _login_publishable_clause, and the check before a call.
Publishable(mp, t) == ~Real \/ LoginValid(mp, t)

\* _downgrade_login
Downgraded(mp) ==
  IF mp.login \in {"EXPIRED", "REVOKED"} THEN mp
  ELSE [mp EXCEPT
          !.login = Moved(WxLoginTransitions, @,
                          IF now >= mp.expires THEN "EXPIRED" ELSE "REVOKED"),
          !.alerted = FALSE]

\* Mutant: a revoked login is not announced.
AnnouncedByTime == {"EXPIRING", "EXPIRED"}

\* The states in which _login_watch alerts the administrator, once.
Announced == {"EXPIRING", "EXPIRED", "REVOKED"}

\* _login_watch on one account: time moves the status, the first sight of an
\* expiring or lost login alerts the administrator.
Watched(mp, t) ==
  LET target == IF t >= mp.expires THEN "EXPIRED"
                ELSE IF t + WarnBefore >= mp.expires THEN "EXPIRING"
                ELSE "AUTHORIZED"
      login == IF mp.login \in Window /\ mp.expires # 0
                 THEN Moved(WxLoginTransitions, mp.login, target) ELSE mp.login
  IN  [mp EXCEPT !.login = login,
                 !.alerted = @ \/ login \in Announced]

-----------------------------------------------------------------------------
(* execute_publish *)

\* What the channel puts online when it succeeds: the browser channel takes
\* articles[0] only.
Delivered(k) == IF Real THEN {Lead[k]} ELSE Content[k]

Post(X) ==
  /\ \A x \in X : posts[x] < MaxPosts
  /\ posts' = [x \in Articles |-> IF x \in X THEN posts[x] + 1 ELSE posts[x]]

\* _fail: the illegal move SCHEDULED -> FAILED is swallowed.
Failed(row, err, scheduleRetry) ==
  [row EXCEPT !.status = Moved(TaskTransitions, @, "FAILED"),
              !.err = err,
              !.next = scheduleRetry /\ row.retries < MaxRetry]

\* Mutant: one approved article is enough.
AnyApproved(copy, k) == \E x \in Content[k] : copy.art[x] = "APPROVED"

AllApproved(copy, k) == \A x \in Content[k] : copy.art[x] = "APPROVED"

Executing(s) ==
  LET se == sess[s] IN se.pc = "exec" /\ se.copy.task[se.cur].status = "SCHEDULED"

\* An article is not APPROVED.
RefuseUnapproved(s) ==
  LET se == sess[s] IN
  /\ Executing(s)
  /\ ~AllApproved(se.copy, se.cur)
  /\ sess' = [sess EXCEPT ![s] = Flushing(
       Edited(se, [se.copy EXCEPT !.task[se.cur] = Failed(@, "NONE", FALSE)]), se.ret)]
  /\ UNCHANGED <<db, posts, now, review>>

\* The login is not valid: the task stays SCHEDULED.
SuspendForLogin(s) ==
  LET se == sess[s] IN
  /\ Executing(s)
  /\ AllApproved(se.copy, se.cur)
  /\ ~Publishable(se.copy.mp, now)
  /\ sess' = [sess EXCEPT ![s] = Flushing(
       Edited(se, [se.copy EXCEPT !.task[se.cur].err = "WX_AUTH_EXPIRED",
                                  !.mp = Downgraded(@)]), se.ret)]
  /\ UNCHANGED <<db, posts, now, review>>

\* PUBLISHING and dispatched are set in memory only: nothing is flushed
\* before the browser has come back.
CallGateway(s) ==
  LET se == sess[s] IN
  /\ Executing(s)
  /\ AllApproved(se.copy, se.cur)
  /\ Publishable(se.copy.mp, now)
  /\ sess' = [sess EXCEPT ![s] =
       [Edited(se, [se.copy EXCEPT !.task[se.cur].status = "PUBLISHING",
                                   !.task[se.cur].dispatched = TRUE])
          EXCEPT !.pc = "call"]]
  /\ UNCHANGED <<db, posts, now, review>>

\* Mutant: the articles are not marked.
NoneDrafted(art, k) == art

\* The articles of a published task leave APPROVED.
Drafted(art, k) ==
  [x \in Articles |-> IF x \in Content[k] THEN "DRAFT_CREATED" ELSE art[x]]

PublishSucceeds(s) ==
  LET se == sess[s] IN
  /\ se.pc = "call"
  /\ Post(Delivered(se.cur))
  /\ sess' = [sess EXCEPT ![s] = Flushing(
       Edited(se, [se.copy EXCEPT
         !.task[se.cur] = [@ EXCEPT !.status = "PUBLISHED", !.err = "NONE",
                                    !.next = FALSE],
         !.art = Drafted(@, se.cur)]), se.ret)]
  /\ UNCHANGED <<db, now, review>>

\* A FAILED outcome or a WxApiError.  The browser may have pressed the button
\* and not found the link of the article afterwards ("lostAck").
PublishFails(s) ==
  LET se == sess[s] IN
  /\ se.pc = "call"
  /\ \/ UNCHANGED posts
     \/ Real /\ "lostAck" \in Faults /\ Post(Delivered(se.cur))
  /\ sess' = [sess EXCEPT ![s] = Flushing(
       Edited(se, [se.copy EXCEPT !.task[se.cur] = Failed(@, "OTHER", TRUE)]), se.ret)]
  /\ UNCHANGED <<db, now, review>>

\* The browser lands on the login page.
LoginLost(s) ==
  LET se == sess[s] IN
  /\ Real
  /\ se.pc = "call"
  /\ sess' = [sess EXCEPT ![s] = Flushing(
       Edited(se, [se.copy EXCEPT
         !.task[se.cur] = Failed(@, "WX_AUTH_EXPIRED", FALSE),
         !.mp = Downgraded(@)]), se.ret)]
  /\ UNCHANGED <<db, posts, now, review>>

-----------------------------------------------------------------------------
(* scheduler.tick, from the automatic creation of tasks to the commit *)

\* Mutant: dispatched keeps the value of the failed attempt.
ResubmittedDispatched(row) ==
  [row EXCEPT !.status = Moved(TaskTransitions, @, "SCHEDULED"),
              !.retries = @ + 1, !.err = "NONE", !.next = FALSE]

\* Mutant: the attempts that are left are counted instead of the retries.
ResubmittedCountingDown(row) ==
  [row EXCEPT !.status = Moved(TaskTransitions, @, "SCHEDULED"),
              !.retries = @ - 1, !.dispatched = FALSE, !.err = "NONE",
              !.next = FALSE]

\* FAILED -> SCHEDULED of a retry, counted.
Resubmitted(row) ==
  [row EXCEPT !.status = Moved(TaskTransitions, @, "SCHEDULED"),
              !.retries = @ + 1, !.dispatched = FALSE, !.err = "NONE",
              !.next = FALSE]

\* Mutant: the resumption is counted as a retry.
ResumedCounted(row) == Resubmitted(row)

\* FAILED -> SCHEDULED of a task whose login has come back, not counted.
Resumed(row) ==
  [row EXCEPT !.status = Moved(TaskTransitions, @, "SCHEDULED"),
              !.dispatched = FALSE, !.err = "NONE", !.next = FALSE]

\* _auto_create_tasks: an APPROVED article without a live task gets one.
StartTick(s) ==
  /\ Idle(s)
  /\ sess' = [sess EXCEPT ![s] = Flushing(
       Inserted(Opened, {k \in AutoKeys : /\ db.art[Lead[k]] = "APPROVED"
                                          /\ ~Live(db.task[k])}), "login")]
  /\ UNCHANGED <<db, posts, now, review>>

\* SCHEDULED rows _publish_due may select.
DueRows(copy, t) ==
  {k \in Keys : /\ Live(copy.task[k])
                /\ copy.task[k].status = "SCHEDULED"
                /\ ~copy.task[k].dispatched
                /\ Publishable(copy.mp, t)}

\* FAILED rows _retry_due may select; a backoff this tick has set is not over.
RetryRows(copy, t, w) ==
  {k \in Keys : /\ Live(copy.task[k])
                /\ copy.task[k].status = "FAILED"
                /\ copy.task[k].next /\ "next" \notin w.task[k]
                /\ copy.task[k].retries < MaxRetry
                /\ Publishable(copy.mp, t)}

\* Mutant: a login that is about to expire brings nothing back.
StuckUntilFresh(copy, mp) ==
  {k \in Keys : /\ Real /\ mp.login = "AUTHORIZED"
                /\ Live(copy.task[k])
                /\ copy.task[k].status = "FAILED"
                /\ copy.task[k].err = "WX_AUTH_EXPIRED"}

\* FAILED rows that waited for the login mp has now.
Stuck(copy, mp) ==
  {k \in Keys : /\ Real /\ mp.login \in Window
                /\ Live(copy.task[k])
                /\ copy.task[k].status = "FAILED"
                /\ copy.task[k].err = "WX_AUTH_EXPIRED"}

\* _login_watch and the selection of _publish_due.  later: rows whose
\* scheduled_at is still to come.
WatchLogin(s, later) ==
  LET se == sess[s]
      mp == IF Real THEN Watched(se.copy.mp, se.since) ELSE se.copy.mp
      stuck == Stuck(se.copy, mp)
      new == [se.copy EXCEPT
                !.mp = mp,
                !.task = [k \in Keys |-> IF k \in stuck THEN Resumed(@[k]) ELSE @[k]]]
  IN
  /\ se.pc = "login"
  /\ sess' = [sess EXCEPT ![s] =
       [Flushing(Edited(se, new), "due") EXCEPT
          !.todo = DueRows(new, se.since) \ later]]
  /\ UNCHANGED <<db, posts, now, review>>

PublishNext(s, k) ==
  /\ sess[s].pc = "due"
  /\ k \in sess[s].todo
  /\ sess' = [sess EXCEPT ![s].pc = "exec", ![s].ret = "due", ![s].cur = k,
                          ![s].todo = @ \ {k}]
  /\ UNCHANGED <<db, posts, now, review>>

\* The selection of _retry_due.  later: rows whose next_retry_at is to come.
SelectRetries(s, later) ==
  LET se == sess[s] IN
  /\ se.pc = "due" /\ se.todo = {}
  /\ sess' = [sess EXCEPT
       ![s].pc = "retry",
       ![s].todo = RetryRows(se.copy, se.since, se.wrote) \ later]
  /\ UNCHANGED <<db, posts, now, review>>

RetryNext(s, k) ==
  LET se == sess[s] IN
  /\ se.pc = "retry"
  /\ k \in se.todo
  /\ sess' = [sess EXCEPT ![s] =
       [Flushing(Edited(se, [se.copy EXCEPT !.task[k] = Resubmitted(@)]), "exec")
          EXCEPT !.ret = "retry", !.cur = k, !.todo = @ \ {k}]]
  /\ UNCHANGED <<db, posts, now, review>>

\* Mutant: a task is dead only beyond its last retry.
DeadLettersBeyond(copy) ==
  {k \in Keys : /\ Live(copy.task[k])
                /\ copy.task[k].status = "FAILED"
                /\ copy.task[k].retries > MaxRetry}

\* Tasks whose retries are used up.
DeadLetters(copy) ==
  {k \in Keys : /\ Live(copy.task[k])
                /\ copy.task[k].status = "FAILED"
                /\ copy.task[k].retries >= MaxRetry}

\* _dead_letter_alerts: one ALERT row per dead letter.
AlertDeadLetters(s) ==
  LET se == sess[s] IN
  /\ se.pc = "retry" /\ se.todo = {}
  /\ sess' = [sess EXCEPT ![s] = Flushing(
       Edited(se, [se.copy EXCEPT !.alert = @ \cup DeadLetters(se.copy)]), "commit")]
  /\ UNCHANGED <<db, posts, now, review>>

-----------------------------------------------------------------------------
(* publish_engine.service: the API *)

\* 409 while a live task of the key is SCHEDULED or PUBLISHING, 422 unless
\* every article is APPROVED; then the task is executed inline.
StartCreate(s, k) ==
  /\ Idle(s)
  /\ ~(Live(db.task[k]) /\ db.task[k].status \in {"SCHEDULED", "PUBLISHING"})
  /\ AllApproved(db, k)
  /\ sess' = [sess EXCEPT ![s] =
       [Flushing(Inserted(Opened, {k}), "exec") EXCEPT !.ret = "commit", !.cur = k]]
  /\ UNCHANGED <<db, posts, now, review>>

StartRetry(s, k) ==
  /\ Idle(s)
  /\ Live(db.task[k]) /\ db.task[k].status = "FAILED"
  /\ db.task[k].retries < MaxRetries
  /\ sess' = [sess EXCEPT ![s] =
       [Flushing(Edited(Opened, [db EXCEPT !.task[k] = Resubmitted(@)]), "exec")
          EXCEPT !.ret = "commit", !.cur = k]]
  /\ UNCHANGED <<db, posts, now, review>>

\* Mutant: any task can be cancelled.
CancellableInAnyState(row) == Live(row)

Cancellable(row) == Live(row) /\ row.status = "SCHEDULED"

StartCancel(s, k) ==
  /\ Idle(s)
  /\ Cancellable(db.task[k])
  /\ sess' = [sess EXCEPT ![s] =
       Flushing(Edited(Opened, [db EXCEPT !.task[k].deleted = TRUE]), "commit")]
  /\ UNCHANGED <<db, posts, now, review>>

-----------------------------------------------------------------------------
(* What happens beside the pipeline *)

\* The statuses content_center takes an article up in, and where it takes it.
Reviewable == {"TRANSFORMED", "REJECTED", "PENDING_REVIEW"}
ReviewMoves ==
  {move \in ArticleTransitions : move[1] \in Reviewable /\ move[2] # "TRANSFORMED"}

Unlocked(w) == \A o \in Sessions : ~Conflict(w, sess[o].wrote)

\* content_center: submit_article and audit_article read the article, check its
\* status, ...
ReadArticle(e, x) ==
  /\ review[e][x] = "NONE"
  /\ db.art[x] \in Reviewable
  /\ review' = [review EXCEPT ![e][x] = db.art[x]]
  /\ UNCHANGED <<db, sess, posts, now>>

\* ... and commit a status that may follow the one they have read, whatever the
\* article has become: the UPDATE does not compare.
MoveArticle(e, x, to) ==
  /\ <<review[e][x], to>> \in ReviewMoves
  /\ Unlocked([NoWrites EXCEPT !.art = {x}])
  /\ db' = [db EXCEPT !.art[x] = to]
  /\ review' = [review EXCEPT ![e][x] = "NONE"]
  /\ UNCHANGED <<sess, posts, now>>

\* The request fails: a refused upload, a lock that did not open in time.
LeaveArticle(e, x) ==
  /\ review[e][x] # "NONE"
  /\ review' = [review EXCEPT ![e][x] = "NONE"]
  /\ UNCHANGED <<db, sess, posts, now>>

MpUnlocked == Unlocked([NoWrites EXCEPT !.mp = MpCols])

\* scripts/wx_login.py: the administrator has scanned the code.
Scan ==
  /\ Real /\ MpUnlocked
  /\ db' = [db EXCEPT !.mp = [login |-> "AUTHORIZED", expires |-> now + Ttl,
                              alerted |-> FALSE]]
  /\ UNCHANGED <<sess, posts, now, review>>

\* mp_manager: the administrator revokes the login.
Revoke ==
  /\ Real /\ MpUnlocked
  /\ db.mp.login \in Window
  /\ db' = [db EXCEPT !.mp.login = "REVOKED", !.mp.alerted = FALSE]
  /\ UNCHANGED <<sess, posts, now, review>>

Tick ==
  /\ Real /\ now < MaxNow
  /\ now' = now + 1
  /\ UNCHANGED <<db, sess, posts, review>>

-----------------------------------------------------------------------------

\* The rest of an operation that has begun.
Step(s) ==
  \/ Flush(s) \/ UniqueViolation(s) \/ LockWaitAborted(s) \/ Commit(s)
  \/ RefuseUnapproved(s) \/ SuspendForLogin(s) \/ CallGateway(s)
  \/ PublishSucceeds(s) \/ PublishFails(s) \/ LoginLost(s)
  \/ \E later \in SUBSET Keys : WatchLogin(s, later) \/ SelectRetries(s, later)
  \/ \E k \in Keys : PublishNext(s, k) \/ RetryNext(s, k)
  \/ AlertDeadLetters(s)

Request(s) ==
  \E k \in Keys : StartCreate(s, k) \/ StartRetry(s, k) \/ StartCancel(s, k)

Reviewing ==
  \E e \in Editors, x \in Articles :
    \/ ReadArticle(e, x) \/ LeaveArticle(e, x)
    \/ \E to \in ArticleStatus : MoveArticle(e, x, to)

Environment == Reviewing \/ Scan \/ Revoke \/ Tick

Next ==
  \/ \E s \in Workers : StartTick(s)
  \/ \E s \in Clients : Request(s)
  \/ \E s \in Sessions : Step(s) \/ Crash(s)
  \/ Environment

Spec == Init /\ [][Next]_vars

\* Beat posts a tick every minute, a running operation goes on, and every
\* backoff and every scheduled_at is over some day.
Fairness ==
  /\ \A s \in Workers : SF_vars(StartTick(s))
  /\ \A s \in Sessions :
       /\ WF_vars(Step(s))
       /\ SF_vars(WatchLogin(s, {}))
       /\ SF_vars(SelectRetries(s, {}))

FairSpec == Spec /\ Fairness

-----------------------------------------------------------------------------
(* Correctness *)

\* Types of the tables, the sessions and the counters.
TypeOK ==
  /\ db \in Database
  /\ sess \in [Sessions -> Session]
  /\ posts \in [Articles -> Nat]
  /\ now \in Nat
  /\ review \in [Editors -> [Articles -> Reviewable \cup {"NONE"}]]

\* Whatever the sessions do to each other, a committed task that is SCHEDULED
\* is one _publish_due can pick up (dispatched = 0), and PUBLISHING is never
\* seen by another session: a task cannot be left stranded between two states.
NoTaskStranded ==
  \A k \in Keys :
    /\ db.task[k].status # "PUBLISHING"
    /\ db.task[k].status = "SCHEDULED" => ~db.task[k].dispatched

\* No two requests of content_center work on one article at a time.
OneEditor == \A e, f \in Editors : e = f

\* A committed PUBLISHED is true: what the channel delivers for the task is
\* online; and as long as no two reviews of an article overlap, all its articles
\* have left APPROVED, so no other task takes them again.
PublishedIsTrue ==
  \A k \in Keys : db.task[k].status = "PUBLISHED" =>
    /\ \A x \in Delivered(k) : posts[x] > 0
    /\ OneEditor => \A x \in Content[k] : db.art[x] = "DRAFT_CREATED"

\* An article goes online at most once.
AtMostOnce == \A x \in Articles : posts[x] <= 1

\* A cancelled row is never brought back or replaced: uk_biz_key holds even
\* against sessions that looked before the row was there.
CancelledIsFinal ==
  [][\A k \in Keys : db.task[k].deleted => db'.task[k].deleted]_db

Promise == INSTANCE PublishPromise WITH
  Delivery <- [k \in Keys |-> Delivered(k)],
  online <- posts,
  reported <- {k \in Keys : db.task[k].status = "PUBLISHED"},
  withdrawn <- {k \in Keys : db.task[k].deleted}

\* The pipeline implements its promise.
KeepsPromise == Promise!PromiseSpec

Exhausted(k) == db.task[k].status = "FAILED" /\ db.task[k].retries >= MaxRetry

\* Every approved article of an automatic key ends published or in the dead
\* letters with an alert, unless an automatic task was cancelled: its key then
\* makes every later tick fail on uk_biz_key.
ApprovedIsSettled ==
  \A k \in AutoKeys :
    db.art[Lead[k]] = "APPROVED" ~>
      \/ db.task[k].status = "PUBLISHED"
      \/ Exhausted(k) /\ k \in db.alert
      \/ \E j \in AutoKeys : db.task[j].deleted

\* The design document's promise for a cancelled task: the key is released, so
\* an article still APPROVED gets a task again.  The code does not keep it.
CancelledKeyIsFree ==
  \A k \in AutoKeys :
    db.task[k].deleted ~> Live(db.task[k]) \/ db.art[Lead[k]] # "APPROVED"

AwaitsLogin(k) ==
  /\ Live(db.task[k])
  /\ db.task[k].status = "FAILED"
  /\ db.task[k].err = "WX_AUTH_EXPIRED"

\* What the loss of the login costs a task: time, never one of its retries.
\* (A manual retry does count, and so does one of a tick that overlaps the tick
\* in which the login was lost: the property is for ticks one after the other.)
LossCostsNoRetry ==
  [][\A k \in Keys : AwaitsLogin(k) => db'.task[k].retries = db.task[k].retries]_db

\* The design document's rule for a lost login: the task never becomes a dead
\* letter.  The code does not keep it.
LossIsNoDeadLetter ==
  [][\A k \in db'.alert \ db.alert : db'.task[k].err # "WX_AUTH_EXPIRED"]_db

\* Once the login is valid again, such a task is taken up again.
ResumedAfterScan ==
  \A k \in Keys :
    AwaitsLogin(k) /\ LoginValid(db.mp, now)
      ~> ~AwaitsLogin(k) \/ ~LoginValid(db.mp, now)

\* A login that has ended is announced to the administrator, or scanned again.
LossIsAnnounced ==
  db.mp.login # "UNAUTHORIZED" /\ ~LoginValid(db.mp, now)
    ~> db.mp.alerted \/ LoginValid(db.mp, now)
=============================================================================
