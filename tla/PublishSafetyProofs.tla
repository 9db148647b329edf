------------------------- MODULE PublishSafetyProofs -------------------------
(***************************************************************************)
(* The types of PublishPipeline, for any articles, keys and sessions, and  *)
(* its safety with any number of overlapping ticks and requests, aborted   *)
(* transactions and crashes.                                               *)
(***************************************************************************)
EXTENDS PublishInvariant, TLAPS

-----------------------------------------------------------------------------
(* Types of the rows and of the sets of changed columns *)

LEMMA MovedTask ==
  ASSUME NEW from \in TaskStatus \cup {"ABSENT"}, NEW to \in TaskStatus
  PROVE  Moved(TaskTransitions, from, to) \in TaskStatus \cup {"ABSENT"}
BY DEF Moved

LEMMA MovedLogin ==
  ASSUME NEW from \in WxLoginStatus, NEW to \in WxLoginStatus
  PROVE  Moved(WxLoginTransitions, from, to) \in WxLoginStatus
BY DEF Moved

LEMMA FailedType ==
  ASSUME NEW row \in TaskRow, NEW err \in ErrCodes, NEW b \in BOOLEAN
  PROVE  Failed(row, err, b) \in TaskRow
BY MovedTask, PipelineAssumption DEF Failed, TaskRow, TaskStatus

LEMMA ResubmittedType ==
  ASSUME NEW row \in TaskRow
  PROVE  Resubmitted(row) \in TaskRow
<1>1. row.status \in TaskStatus \cup {"ABSENT"}
  BY DEF TaskRow
<1>2. Moved(TaskTransitions, row.status, "SCHEDULED") \in TaskStatus \cup {"ABSENT"}
  BY <1>1, MovedTask DEF TaskStatus
<1>3. row.retries + 1 \in Nat
  BY DEF TaskRow
<1> QED
  BY <1>2, <1>3 DEF Resubmitted, TaskRow, ErrCodes

LEMMA ResumedType ==
  ASSUME NEW row \in TaskRow
  PROVE  Resumed(row) \in TaskRow
<1>1. row.status \in TaskStatus \cup {"ABSENT"}
  BY DEF TaskRow
<1>2. Moved(TaskTransitions, row.status, "SCHEDULED") \in TaskStatus \cup {"ABSENT"}
  BY <1>1, MovedTask DEF TaskStatus
<1> QED
  BY <1>2 DEF Resumed, TaskRow, ErrCodes

LEMMA NewTaskType == NoTask \in TaskRow /\ NewTask \in TaskRow
BY DEF NoTask, NewTask, TaskRow, TaskStatus, ErrCodes

LEMMA DowngradedType ==
  ASSUME NEW mp \in MpRow
  PROVE  Downgraded(mp) \in MpRow
BY MovedLogin DEF Downgraded, MpRow, WxLoginStatus

LEMMA WatchedType ==
  ASSUME NEW mp \in MpRow, NEW t \in Nat
  PROVE  Watched(mp, t) \in MpRow
BY MovedLogin DEF Watched, MpRow, WxLoginStatus

LEMMA NewDatabaseType == NewDatabase \in Database
BY NewTaskType DEF NewDatabase, Database, MpRow, WxLoginStatus, ArticleStatus

LEMMA WritesTypes ==
  /\ NoWrites \in Writes
  /\ \A K \in SUBSET Keys : Inserts(K) \in Writes
  /\ \A v, w \in Writes : Join(v, w) \in Writes
  /\ \A old, new \in Database : Changes(old, new) \in Writes
<1>1. NoWrites \in Writes
  BY DEF NoWrites, Writes
<1>2. ASSUME NEW K \in SUBSET Keys
      PROVE  Inserts(K) \in Writes
  BY DEF Inserts, NoWrites, Writes
<1>3. ASSUME NEW v \in Writes, NEW w \in Writes
      PROVE  Join(v, w) \in Writes
  BY DEF Join, Writes
<1>4. ASSUME NEW old \in Database, NEW new \in Database
      PROVE  Changes(old, new) \in Writes
  BY DEF Changes, Writes, Database
<1> QED
  BY <1>1, <1>2, <1>3, <1>4

\* A commit keeps the tables well-typed.
LEMMA ApplyType ==
  ASSUME NEW base \in Database, NEW copy \in Database, NEW w \in Writes
  PROVE  Apply(base, copy, w) \in Database
<1>1. ASSUME NEW k \in Keys
      PROVE  [c \in TaskCols |-> IF c \in w.task[k] THEN copy.task[k][c]
                                 ELSE base.task[k][c]] \in TaskRow
  <2>1. base.task[k] \in TaskRow /\ copy.task[k] \in TaskRow
    BY DEF Database
  <2> QED BY <2>1 DEF TaskRow, TaskCols
<1>2. [c \in MpCols |-> IF c \in w.mp THEN copy.mp[c] ELSE base.mp[c]] \in MpRow
  <2>1. base.mp \in MpRow /\ copy.mp \in MpRow
    BY DEF Database
  <2> QED BY <2>1 DEF MpRow, MpCols
<1>3. \A x \in Articles :
        (IF x \in w.art THEN copy.art[x] ELSE base.art[x]) \in ArticleStatus
  BY DEF Database
<1>4. base.alert \cup w.alert \in SUBSET Keys
  BY DEF Database, Writes
<1> QED BY <1>1, <1>2, <1>3, <1>4 DEF Apply, Database

-----------------------------------------------------------------------------
(* Types of the sessions *)

LEMMA NoSessionType == NoSession \in Session
<1>1. (CHOOSE k \in Keys : TRUE) \in Keys
  BY PipelineAssumption
<1> QED
  BY <1>1, NewDatabaseType, WritesTypes DEF NoSession, Session, Pc

LEMMA EditedType ==
  ASSUME NEW se \in Session, NEW new \in Database
  PROVE  Edited(se, new) \in Session
<1>1. se.copy \in Database /\ se.pend \in Writes
  BY DEF Session
<1>2. Join(se.pend, Changes(se.copy, new)) \in Writes
  BY <1>1, WritesTypes
<1> QED BY <1>2 DEF Edited, Session

LEMMA InsertedType ==
  ASSUME NEW se \in Session, NEW K \in SUBSET Keys
  PROVE  Inserted(se, K) \in Session
<1>1. se.copy \in Database /\ se.pend \in Writes
  BY DEF Session
<1>2. Join(se.pend, Inserts(K)) \in Writes
  BY <1>1, WritesTypes
<1>3. [se.copy EXCEPT !.task = [k \in Keys |-> IF k \in K THEN NewTask ELSE @[k]]]
        \in Database
  BY <1>1, NewTaskType DEF Database
<1> QED BY <1>2, <1>3 DEF Inserted, Session

LEMMA FlushingType ==
  ASSUME NEW se \in Session, NEW next \in Pc
  PROVE  Flushing(se, next) \in Session
BY DEF Flushing, Session, Pc

LEMMA OpenedType ==
  ASSUME TypeOK
  PROVE  Opened \in Session
BY NoSessionType DEF TypeOK, Opened, Session

\* A change of one session to a well-typed one, and of nothing else.
LEMMA SessionStepType ==
  ASSUME TypeOK, NEW s \in Sessions, NEW se \in Session,
         sess' = [sess EXCEPT ![s] = se],
         posts' \in [Articles -> Nat], UNCHANGED <<db, now, review>>
  PROVE  TypeOK'
BY DEF TypeOK

LEMMA PostType ==
  ASSUME TypeOK, NEW X, Post(X)
  PROVE  posts' \in [Articles -> Nat]
BY DEF TypeOK, Post

-----------------------------------------------------------------------------
(* Type correctness *)

LEMMA FlushType ==
  ASSUME TypeOK, NEW s \in Sessions, Flush(s)
  PROVE  TypeOK'
<1>1. sess[s] \in Session
  BY DEF TypeOK
<1>2. Join(sess[s].wrote, sess[s].pend) \in Writes /\ NoWrites \in Writes
  BY <1>1, WritesTypes DEF Session
<1> DEFINE se == [sess[s] EXCEPT !.pc = sess[s].then,
                                 !.wrote = Join(@, sess[s].pend), !.pend = NoWrites]
<1>3. se \in Session
  BY <1>1, <1>2 DEF Session
<1>4. sess' = [sess EXCEPT ![s] = se]
  BY DEF Flush, TypeOK
<1> QED BY <1>3, <1>4, SessionStepType DEF Flush, TypeOK

LEMMA AbortType ==
  ASSUME TypeOK, NEW s \in Sessions, Abort(s)
  PROVE  TypeOK'
BY NoSessionType, SessionStepType DEF Abort, TypeOK

LEMMA CommitType ==
  ASSUME TypeOK, NEW s \in Sessions, Commit(s)
  PROVE  TypeOK'
<1>1. sess[s].copy \in Database /\ sess[s].wrote \in Writes /\ db \in Database
  BY DEF TypeOK, Session
<1>2. db' \in Database
  BY <1>1, ApplyType DEF Commit
<1> QED BY <1>2, NoSessionType DEF Commit, TypeOK

\* The steps of execute_publish.
LEMMA ExecuteType ==
  ASSUME TypeOK, NEW s \in Sessions,
         \/ RefuseUnapproved(s) \/ SuspendForLogin(s) \/ CallGateway(s)
         \/ PublishSucceeds(s) \/ PublishFails(s) \/ LoginLost(s)
  PROVE  TypeOK'
<1> DEFINE se == sess[s]
           row == se.copy.task[se.cur]
<1>1. /\ se \in Session /\ se.copy \in Database /\ se.cur \in Keys
      /\ se.ret \in Pc /\ se.copy.mp \in MpRow /\ row \in TaskRow
      /\ Downgraded(se.copy.mp) \in MpRow
  BY DowngradedType DEF TypeOK, Session, Database
<1>2. posts \in [Articles -> Nat] /\ sess \in [Sessions -> Session]
  BY DEF TypeOK
<1> HIDE DEF se
<1>3. CASE RefuseUnapproved(s)
  <2> DEFINE new == [se.copy EXCEPT !.task[se.cur] = Failed(@, "NONE", FALSE)]
  <2>1. Failed(row, "NONE", FALSE) \in TaskRow
    BY <1>1, FailedType DEF ErrCodes
  <2>2. new \in Database
    BY <1>1, <2>1 DEF Database
  <2>3. Flushing(Edited(se, new), se.ret) \in Session
    BY <1>1, <2>2, EditedType, FlushingType
  <2> QED BY <1>2, <1>3, <2>3, SessionStepType DEF RefuseUnapproved, se
<1>4. CASE SuspendForLogin(s)
  <2> DEFINE new == [se.copy EXCEPT !.task[se.cur].err = "WX_AUTH_EXPIRED",
                                    !.mp = Downgraded(@)]
  <2>1. [row EXCEPT !.err = "WX_AUTH_EXPIRED"] \in TaskRow
    BY <1>1 DEF TaskRow, ErrCodes
  <2>2. new \in Database
    BY <1>1, <2>1 DEF Database
  <2>3. Flushing(Edited(se, new), se.ret) \in Session
    BY <1>1, <2>2, EditedType, FlushingType
  <2> QED BY <1>2, <1>4, <2>3, SessionStepType DEF SuspendForLogin, se
<1>5. CASE CallGateway(s)
  <2> DEFINE new == [se.copy EXCEPT !.task[se.cur].status = "PUBLISHING",
                                    !.task[se.cur].dispatched = TRUE]
  <2>1. [row EXCEPT !.status = "PUBLISHING", !.dispatched = TRUE] \in TaskRow
    BY <1>1 DEF TaskRow, TaskStatus
  <2>2. new \in Database
    BY <1>1, <2>1 DEF Database
  <2>3. [Edited(se, new) EXCEPT !.pc = "call"] \in Session
    BY <1>1, <2>2, EditedType DEF Session, Pc
  <2> QED BY <1>2, <1>5, <2>3, SessionStepType DEF CallGateway, se
<1>6. CASE PublishSucceeds(s)
  <2> DEFINE new == [se.copy EXCEPT
         !.task[se.cur] = [@ EXCEPT !.status = "PUBLISHED", !.err = "NONE",
                                    !.next = FALSE],
         !.art = Drafted(@, se.cur)]
  <2>1. [row EXCEPT !.status = "PUBLISHED", !.err = "NONE", !.next = FALSE] \in TaskRow
    BY <1>1 DEF TaskRow, TaskStatus, ErrCodes
  <2>2. Drafted(se.copy.art, se.cur) \in [Articles -> ArticleStatus]
    BY <1>1 DEF Drafted, Database, ArticleStatus
  <2>3. new \in Database
    BY <1>1, <2>1, <2>2 DEF Database
  <2>4. Flushing(Edited(se, new), se.ret) \in Session
    BY <1>1, <2>3, EditedType, FlushingType
  <2>5. posts' \in [Articles -> Nat]
    BY <1>6, PostType DEF PublishSucceeds
  <2> QED BY <1>2, <1>6, <2>4, <2>5, SessionStepType DEF PublishSucceeds, se
<1>7. CASE PublishFails(s)
  <2> DEFINE new == [se.copy EXCEPT !.task[se.cur] = Failed(@, "OTHER", TRUE)]
  <2>1. Failed(row, "OTHER", TRUE) \in TaskRow
    BY <1>1, FailedType DEF ErrCodes
  <2>2. new \in Database
    BY <1>1, <2>1 DEF Database
  <2>3. Flushing(Edited(se, new), se.ret) \in Session
    BY <1>1, <2>2, EditedType, FlushingType
  <2>4. posts' \in [Articles -> Nat]
    BY <1>2, <1>7, PostType DEF PublishFails
  <2> QED BY <1>2, <1>7, <2>3, <2>4, SessionStepType DEF PublishFails, se
<1>8. CASE LoginLost(s)
  <2> DEFINE new == [se.copy EXCEPT
                       !.task[se.cur] = Failed(@, "WX_AUTH_EXPIRED", FALSE),
                       !.mp = Downgraded(@)]
  <2>1. Failed(row, "WX_AUTH_EXPIRED", FALSE) \in TaskRow
    BY <1>1, FailedType DEF ErrCodes
  <2>2. new \in Database
    BY <1>1, <2>1 DEF Database
  <2>3. Flushing(Edited(se, new), se.ret) \in Session
    BY <1>1, <2>2, EditedType, FlushingType
  <2> QED BY <1>2, <1>8, <2>3, SessionStepType DEF LoginLost, se
<1> QED BY <1>3, <1>4, <1>5, <1>6, <1>7, <1>8

\* The steps of a tick.
LEMMA TickType ==
  ASSUME TypeOK, NEW s \in Sessions, NEW later \in SUBSET Keys, NEW k \in Keys,
         \/ StartTick(s) \/ WatchLogin(s, later) \/ PublishNext(s, k)
         \/ SelectRetries(s, later) \/ RetryNext(s, k) \/ AlertDeadLetters(s)
  PROVE  TypeOK'
<1> DEFINE se == sess[s]
<1>1. /\ se \in Session /\ se.copy \in Database /\ se.since \in Nat
      /\ se.copy.mp \in MpRow /\ se.wrote \in Writes /\ se.todo \in SUBSET Keys
  BY DEF TypeOK, Session, Database
<1>2. posts \in [Articles -> Nat] /\ sess \in [Sessions -> Session]
  BY DEF TypeOK
<1> HIDE DEF se
<1>3. CASE StartTick(s)
  <2> DEFINE K == {j \in AutoKeys : /\ db.art[Lead[j]] = "APPROVED"
                                    /\ ~Live(db.task[j])}
  <2>1. K \in SUBSET Keys
    BY PipelineAssumption
  <2> HIDE DEF K
  <2>2. Flushing(Inserted(Opened, K), "login") \in Session
    BY <2>1, OpenedType, InsertedType, FlushingType DEF Pc
  <2> QED BY <1>2, <1>3, <2>2, SessionStepType DEF StartTick, K
<1>4. CASE WatchLogin(s, later)
  <2> DEFINE mp == IF Real THEN Watched(se.copy.mp, se.since) ELSE se.copy.mp
             new == [se.copy EXCEPT
                       !.mp = mp,
                       !.task = [j \in Keys |-> IF j \in Stuck(se.copy, mp)
                                                  THEN Resumed(@[j]) ELSE @[j]]]
  <2>1. mp \in MpRow
    BY <1>1, WatchedType
  <2> HIDE DEF mp
  <2>2. [j \in Keys |-> IF j \in Stuck(se.copy, mp) THEN Resumed(se.copy.task[j])
                                                    ELSE se.copy.task[j]]
          \in [Keys -> TaskRow]
    BY <1>1, ResumedType DEF Database
  <2>3. new \in Database
    BY <1>1, <2>1, <2>2 DEF Database
  <2>4. DueRows(new, se.since) \ later \in SUBSET Keys
    BY DEF DueRows
  <2> HIDE DEF new
  <2>5. [Flushing(Edited(se, new), "due") EXCEPT
           !.todo = DueRows(new, se.since) \ later] \in Session
    <3>1. Flushing(Edited(se, new), "due") \in Session
      BY <1>1, <2>3, EditedType, FlushingType DEF Pc
    <3> QED BY <3>1, <2>4 DEF Session
  <2> QED BY <1>2, <1>4, <2>5, SessionStepType DEF WatchLogin, se, new, mp
<1>5. CASE PublishNext(s, k)
  <2>1. [se EXCEPT !.pc = "exec", !.ret = "due", !.cur = k, !.todo = @ \ {k}]
          \in Session
    BY <1>1 DEF Session, Pc
  <2>2. sess' = [sess EXCEPT ![s] =
                   [se EXCEPT !.pc = "exec", !.ret = "due", !.cur = k,
                              !.todo = @ \ {k}]]
    BY <1>2, <1>5 DEF PublishNext, se
  <2> QED BY <1>2, <1>5, <2>1, <2>2, SessionStepType DEF PublishNext
<1>6. CASE SelectRetries(s, later)
  <2> DEFINE X == RetryRows(se.copy, se.since, se.wrote) \ later
  <2>1. [se EXCEPT !.pc = "retry", !.todo = X] \in Session
    BY <1>1 DEF Session, Pc, RetryRows
  <2>2. sess' = [sess EXCEPT ![s] = [se EXCEPT !.pc = "retry", !.todo = X]]
    BY <1>2, <1>6 DEF SelectRetries, se
  <2> QED BY <1>2, <1>6, <2>1, <2>2, SessionStepType DEF SelectRetries
<1>7. CASE RetryNext(s, k)
  <2> DEFINE new == [se.copy EXCEPT !.task[k] = Resubmitted(@)]
  <2>1. new \in Database
    BY <1>1, ResubmittedType DEF Database
  <2>2. Flushing(Edited(se, new), "exec") \in Session
    BY <1>1, <2>1, EditedType, FlushingType DEF Pc
  <2>3. [Flushing(Edited(se, new), "exec")
           EXCEPT !.ret = "retry", !.cur = k, !.todo = @ \ {k}] \in Session
    BY <2>2 DEF Session, Pc
  <2> QED BY <1>2, <1>7, <2>3, SessionStepType DEF RetryNext, se
<1>8. CASE AlertDeadLetters(s)
  <2> DEFINE new == [se.copy EXCEPT !.alert = @ \cup DeadLetters(se.copy)]
  <2>1. new \in Database
    BY <1>1 DEF Database, DeadLetters
  <2>2. Flushing(Edited(se, new), "commit") \in Session
    BY <1>1, <2>1, EditedType, FlushingType DEF Pc
  <2> QED BY <1>2, <1>8, <2>2, SessionStepType DEF AlertDeadLetters, se
<1> QED BY <1>3, <1>4, <1>5, <1>6, <1>7, <1>8

\* The requests.
LEMMA RequestType ==
  ASSUME TypeOK, NEW s \in Sessions, NEW k \in Keys,
         StartCreate(s, k) \/ StartRetry(s, k) \/ StartCancel(s, k)
  PROVE  TypeOK'
<1>1. /\ db \in Database /\ db.task[k] \in TaskRow /\ Opened \in Session
      /\ sess \in [Sessions -> Session] /\ posts \in [Articles -> Nat]
  BY OpenedType DEF TypeOK, Database
<1>2. CASE StartCreate(s, k)
  <2>1. Flushing(Inserted(Opened, {k}), "exec") \in Session
    BY <1>1, InsertedType, FlushingType DEF Pc
  <2>2. [Flushing(Inserted(Opened, {k}), "exec") EXCEPT !.ret = "commit", !.cur = k]
          \in Session
    BY <2>1 DEF Session, Pc
  <2> QED BY <1>1, <1>2, <2>2, SessionStepType DEF StartCreate
<1>3. CASE StartRetry(s, k)
  <2> DEFINE new == [db EXCEPT !.task[k] = Resubmitted(@)]
  <2>1. new \in Database
    BY <1>1, ResubmittedType DEF Database
  <2>2. Flushing(Edited(Opened, new), "exec") \in Session
    BY <1>1, <2>1, EditedType, FlushingType DEF Pc
  <2>3. [Flushing(Edited(Opened, new), "exec") EXCEPT !.ret = "commit", !.cur = k]
          \in Session
    BY <2>2 DEF Session, Pc
  <2> QED BY <1>1, <1>3, <2>3, SessionStepType DEF StartRetry
<1>4. CASE StartCancel(s, k)
  <2> DEFINE new == [db EXCEPT !.task[k].deleted = TRUE]
  <2>1. [db.task[k] EXCEPT !.deleted = TRUE] \in TaskRow
    BY <1>1 DEF TaskRow
  <2>2. new \in Database
    BY <1>1, <2>1 DEF Database
  <2>3. Flushing(Edited(Opened, new), "commit") \in Session
    BY <1>1, <2>2, EditedType, FlushingType DEF Pc
  <2> QED BY <1>1, <1>4, <2>3, SessionStepType DEF StartCancel
<1> QED BY <1>2, <1>3, <1>4

LEMMA EnvironmentType ==
  ASSUME TypeOK, Environment
  PROVE  TypeOK'
<1>1. db \in Database /\ now \in Nat /\ Ttl \in Nat
  BY PipelineAssumption DEF TypeOK
<1>2. CASE Reviewing
  <2>1. PICK e \in Editors, x \in Articles :
          \/ ReadArticle(e, x) \/ LeaveArticle(e, x)
          \/ \E to \in ArticleStatus : MoveArticle(e, x, to)
    BY <1>2 DEF Reviewing
  <2>2. CASE ReadArticle(e, x) \/ LeaveArticle(e, x)
    BY <2>2 DEF ReadArticle, LeaveArticle, TypeOK
  <2>3. ASSUME NEW to \in ArticleStatus, MoveArticle(e, x, to)
        PROVE  TypeOK'
    <3>1. [db EXCEPT !.art[x] = to] \in Database
      BY <1>1 DEF Database
    <3> QED BY <2>3, <3>1 DEF MoveArticle, TypeOK
  <2> QED BY <2>1, <2>2, <2>3
<1>3. CASE Scan
  <2>1. now + Ttl \in Nat
    BY <1>1
  <2>2. [login |-> "AUTHORIZED", expires |-> now + Ttl, alerted |-> FALSE] \in MpRow
    BY <2>1 DEF MpRow, WxLoginStatus
  <2>3. db' \in Database
    BY <1>1, <1>3, <2>2 DEF Scan, Database
  <2> QED BY <1>3, <2>3 DEF Scan, TypeOK
<1>4. CASE Revoke
  <2>1. db' \in Database
    <3>1. [db.mp EXCEPT !.login = "REVOKED", !.alerted = FALSE] \in MpRow
      BY <1>1 DEF Database, MpRow, WxLoginStatus
    <3> QED BY <1>1, <1>4, <3>1 DEF Revoke, Database
  <2> QED BY <1>4, <2>1 DEF Revoke, TypeOK
<1>5. CASE Tick
  BY <1>1, <1>5 DEF Tick, TypeOK
<1> QED BY <1>2, <1>3, <1>4, <1>5 DEF Environment

\* Every reachable state is well-typed: the tables, the sessions' copies and
\* the columns they have changed (the types of backend/app/models/publish.py).
THEOREM TypeCorrect == Spec => []TypeOK
<1>1. Init => TypeOK
  BY NewDatabaseType, NoSessionType DEF Init, TypeOK
<1>2. TypeOK /\ [Next]_vars => TypeOK'
  <2> SUFFICES ASSUME TypeOK, [Next]_vars PROVE TypeOK'
    OBVIOUS
  <2>1. ASSUME NEW s \in Sessions, Step(s) \/ Crash(s) PROVE TypeOK'
    <3>1. {} \in SUBSET Keys /\ \E k \in Keys : TRUE
      BY PipelineAssumption
    <3>2. CASE Crash(s) \/ UniqueViolation(s) \/ LockWaitAborted(s)
      BY <3>2, AbortType DEF Crash, UniqueViolation, LockWaitAborted
    <3> QED
      BY <2>1, <3>1, <3>2, FlushType, CommitType, ExecuteType, TickType DEF Step
  <2>2. ASSUME NEW s \in Workers, StartTick(s) PROVE TypeOK'
    <3>1. s \in Sessions /\ {} \in SUBSET Keys /\ \E k \in Keys : TRUE
      BY PipelineAssumption DEF Sessions
    <3> QED BY <2>2, <3>1, TickType
  <2>3. ASSUME NEW s \in Clients, Request(s) PROVE TypeOK'
    BY <2>3, RequestType DEF Request, Sessions
  <2>4. CASE UNCHANGED vars
    BY <2>4 DEF vars, TypeOK
  <2> QED BY <2>1, <2>2, <2>3, <2>4, EnvironmentType DEF Next
<1> QED BY <1>1, <1>2, PTL DEF Spec

-----------------------------------------------------------------------------
(* Edits of a session *)

\* The fields of a session after an edit.
LEMMA EditFields ==
  ASSUME NEW se \in Session, NEW new \in Database
  PROVE  LET e == Edited(se, new) IN
         /\ e.pc = se.pc /\ e.then = se.then /\ e.ret = se.ret /\ e.cur = se.cur
         /\ e.todo = se.todo /\ e.wrote = se.wrote /\ e.copy = new
         /\ e.pend = Join(se.pend, Changes(se.copy, new))
BY DEF Edited, Session

\* What an edit adds to the columns of a row to be written.
LEMMA EditColumns ==
  ASSUME NEW se \in Session, NEW new \in Database, NEW k \in Keys, NEW c \in TaskCols
  PROVE  c \in Edited(se, new).pend.task[k] <=>
           c \in se.pend.task[k] \/ new.task[k][c] # se.copy.task[k][c]
<1> DEFINE ch == Changes(se.copy, new)
<1>1. Edited(se, new).pend = Join(se.pend, ch)
  BY EditFields
<1>2. Join(se.pend, ch).task[k] = se.pend.task[k] \cup ch.task[k]
  BY DEF Join
<1>3. ch.task[k] = {d \in TaskCols : new.task[k][d] # se.copy.task[k][d]}
  BY DEF Changes
<1> QED BY <1>1, <1>2, <1>3

-----------------------------------------------------------------------------
(* What the steps change in a session's copy *)

\* fin is se after an edit, waiting to flush it.
EditedTo(se, new, fin) ==
  /\ fin.pc = "flush" /\ fin.copy = new
  /\ fin.wrote = se.wrote /\ fin.pend = Edited(se, new).pend

LEMMA FlushingEdit ==
  ASSUME NEW se \in Session, NEW new \in Database, NEW next \in Pc
  PROVE  LET fl == Flushing(Edited(se, new), next) IN
         /\ fl \in Session /\ EditedTo(se, new, fl)
         /\ fl.then = next /\ fl.ret = se.ret /\ fl.cur = se.cur /\ fl.todo = se.todo
BY EditedType, FlushingType, EditFields DEF Flushing, Session, EditedTo

\* execute_publish returns to the tick or the request after one edit, of the
\* task it was called for: a SCHEDULED row keeps its status, a row in the call
\* ends PUBLISHED, with its articles marked, or FAILED.
Returns(s, new) ==
  LET se == sess[s]
      row == se.copy.task[se.cur]
      newRow == new.task[se.cur]
  IN
  /\ sess' = [sess EXCEPT ![s] = Flushing(Edited(se, new), se.ret)]
  /\ \A k \in Keys \ {se.cur} : new.task[k] = se.copy.task[k]
  /\ newRow.deleted = row.deleted /\ newRow.dispatched = row.dispatched
  /\ \/ /\ se.pc = "exec" /\ row.status = "SCHEDULED" /\ newRow.status = "SCHEDULED"
        /\ new.art = se.copy.art
     \/ /\ se.pc = "call"
        /\ row.status = "PUBLISHING" => newRow.status = "FAILED"
        /\ newRow.status = "PUBLISHED" => row.status = "PUBLISHED"
        /\ newRow.status = "ABSENT" => row.status = "ABSENT"
        /\ new.art = se.copy.art
     \/ /\ se.pc = "call" /\ newRow.status = "PUBLISHED" /\ PublishSucceeds(s)
        /\ new.art = Drafted(se.copy.art, se.cur)

LEMMA FailedRow ==
  ASSUME NEW row \in TaskRow, NEW err \in ErrCodes, NEW b \in BOOLEAN
  PROVE  LET new == Failed(row, err, b) IN
         /\ new \in TaskRow
         /\ new.deleted = row.deleted /\ new.dispatched = row.dispatched
         /\ row.status = "SCHEDULED" => new.status = "SCHEDULED"
         /\ row.status = "PUBLISHING" => new.status = "FAILED"
         /\ new.status = "PUBLISHED" => row.status = "PUBLISHED"
         /\ new.status = "ABSENT" => row.status = "ABSENT"
<1> DEFINE st == Moved(TaskTransitions, row.status, "FAILED")
<1>1. /\ row.status = "SCHEDULED" => st = "SCHEDULED"
      /\ row.status = "PUBLISHING" => st = "FAILED"
      /\ st \in {row.status, "FAILED"}
  BY DEF Moved, TaskTransitions
<1> HIDE DEF st
<1>2. /\ Failed(row, err, b).status = st
      /\ Failed(row, err, b).deleted = row.deleted
      /\ Failed(row, err, b).dispatched = row.dispatched
  BY DEF Failed, TaskRow, st
<1> QED BY <1>1, <1>2, FailedType

LEMMA ExecuteReturns ==
  ASSUME TypeOK, NEW s \in Sessions,
         \/ RefuseUnapproved(s) \/ SuspendForLogin(s)
         \/ PublishSucceeds(s) \/ PublishFails(s) \/ LoginLost(s)
  PROVE  \E new \in Database : Returns(s, new)
<1> DEFINE se == sess[s]
           row == se.copy.task[se.cur]
<1>1. /\ se \in Session /\ se.copy \in Database /\ se.cur \in Keys
      /\ se.copy.mp \in MpRow /\ row \in TaskRow
      /\ Downgraded(se.copy.mp) \in MpRow
  BY DowngradedType DEF TypeOK, Session, Database
<1> HIDE DEF se
<1>2. CASE RefuseUnapproved(s)
  <2> DEFINE new == [se.copy EXCEPT !.task[se.cur] = Failed(@, "NONE", FALSE)]
  <2>1. /\ se.pc = "exec" /\ row.status = "SCHEDULED"
        /\ sess' = [sess EXCEPT ![s] = Flushing(Edited(se, new), se.ret)]
    BY <1>2 DEF RefuseUnapproved, Executing, se
  <2> DEFINE newRow == Failed(row, "NONE", FALSE)
  <2>2. /\ newRow \in TaskRow
        /\ newRow.deleted = row.deleted /\ newRow.dispatched = row.dispatched
        /\ row.status = "SCHEDULED" => newRow.status = "SCHEDULED"
        /\ row.status = "PUBLISHING" => newRow.status = "FAILED"
        /\ newRow.status = "PUBLISHED" => row.status = "PUBLISHED"
        /\ newRow.status = "ABSENT" => row.status = "ABSENT"
    BY <1>1, FailedRow DEF ErrCodes
  <2>3. /\ new \in Database /\ new.art = se.copy.art
        /\ \A k \in Keys \ {se.cur} : new.task[k] = se.copy.task[k]
        /\ new.task[se.cur] = newRow
    BY <1>1, <2>2 DEF Database
  <2> HIDE DEF new, newRow
  <2>4. Returns(s, new)
    BY <1>1, <2>1, <2>2, <2>3 DEF Returns, se
  <2> QED BY <2>3, <2>4
<1>3. CASE SuspendForLogin(s)
  <2> DEFINE new == [se.copy EXCEPT !.task[se.cur].err = "WX_AUTH_EXPIRED",
                                    !.mp = Downgraded(@)]
             newRow == [row EXCEPT !.err = "WX_AUTH_EXPIRED"]
  <2>1. /\ se.pc = "exec" /\ row.status = "SCHEDULED"
        /\ sess' = [sess EXCEPT ![s] = Flushing(Edited(se, new), se.ret)]
    BY <1>3 DEF SuspendForLogin, Executing, se
  <2>2. /\ newRow \in TaskRow /\ newRow.status = row.status
        /\ newRow.deleted = row.deleted /\ newRow.dispatched = row.dispatched
    BY <1>1 DEF TaskRow, ErrCodes
  <2>3. /\ new \in Database /\ new.art = se.copy.art
        /\ \A k \in Keys \ {se.cur} : new.task[k] = se.copy.task[k]
        /\ new.task[se.cur] = newRow
    BY <1>1, <2>2 DEF Database
  <2> HIDE DEF new, newRow
  <2>4. Returns(s, new)
    BY <1>1, <2>1, <2>2, <2>3 DEF Returns, se
  <2> QED BY <2>3, <2>4
<1>4. CASE PublishSucceeds(s)
  <2> DEFINE newRow == [row EXCEPT !.status = "PUBLISHED", !.err = "NONE",
                                   !.next = FALSE]
             new == [se.copy EXCEPT
                       !.task[se.cur] = [@ EXCEPT !.status = "PUBLISHED",
                                                  !.err = "NONE", !.next = FALSE],
                       !.art = Drafted(@, se.cur)]
  <2>1. /\ se.pc = "call"
        /\ sess' = [sess EXCEPT ![s] = Flushing(Edited(se, new), se.ret)]
    BY <1>4 DEF PublishSucceeds, se
  <2>2. /\ newRow \in TaskRow /\ newRow.status = "PUBLISHED"
        /\ newRow.deleted = row.deleted /\ newRow.dispatched = row.dispatched
    BY <1>1 DEF TaskRow, ErrCodes, TaskStatus
  <2>3. Drafted(se.copy.art, se.cur) \in [Articles -> ArticleStatus]
    BY <1>1 DEF Drafted, Database, ArticleStatus
  <2>4. /\ new \in Database /\ new.art = Drafted(se.copy.art, se.cur)
        /\ \A k \in Keys \ {se.cur} : new.task[k] = se.copy.task[k]
        /\ new.task[se.cur] = newRow
    BY <1>1, <2>2, <2>3 DEF Database
  <2> HIDE DEF new, newRow
  <2>5. Returns(s, new)
    BY <1>4, <2>1, <2>2, <2>4 DEF Returns, se
  <2> QED BY <2>4, <2>5
<1>5. CASE PublishFails(s)
  <2> DEFINE new == [se.copy EXCEPT !.task[se.cur] = Failed(@, "OTHER", TRUE)]
  <2>1. /\ se.pc = "call"
        /\ sess' = [sess EXCEPT ![s] = Flushing(Edited(se, new), se.ret)]
    BY <1>5 DEF PublishFails, se
  <2> DEFINE newRow == Failed(row, "OTHER", TRUE)
  <2>2. /\ newRow \in TaskRow
        /\ newRow.deleted = row.deleted /\ newRow.dispatched = row.dispatched
        /\ row.status = "SCHEDULED" => newRow.status = "SCHEDULED"
        /\ row.status = "PUBLISHING" => newRow.status = "FAILED"
        /\ newRow.status = "PUBLISHED" => row.status = "PUBLISHED"
        /\ newRow.status = "ABSENT" => row.status = "ABSENT"
    BY <1>1, FailedRow DEF ErrCodes
  <2>3. /\ new \in Database /\ new.art = se.copy.art
        /\ \A k \in Keys \ {se.cur} : new.task[k] = se.copy.task[k]
        /\ new.task[se.cur] = newRow
    BY <1>1, <2>2 DEF Database
  <2> HIDE DEF new, newRow
  <2>4. Returns(s, new)
    BY <1>1, <2>1, <2>2, <2>3 DEF Returns, se
  <2> QED BY <2>3, <2>4
<1>6. CASE LoginLost(s)
  <2> DEFINE new == [se.copy EXCEPT
                       !.task[se.cur] = Failed(@, "WX_AUTH_EXPIRED", FALSE),
                       !.mp = Downgraded(@)]
  <2>1. /\ se.pc = "call"
        /\ sess' = [sess EXCEPT ![s] = Flushing(Edited(se, new), se.ret)]
    BY <1>6 DEF LoginLost, se
  <2> DEFINE newRow == Failed(row, "WX_AUTH_EXPIRED", FALSE)
  <2>2. /\ newRow \in TaskRow
        /\ newRow.deleted = row.deleted /\ newRow.dispatched = row.dispatched
        /\ row.status = "SCHEDULED" => newRow.status = "SCHEDULED"
        /\ row.status = "PUBLISHING" => newRow.status = "FAILED"
        /\ newRow.status = "PUBLISHED" => row.status = "PUBLISHED"
        /\ newRow.status = "ABSENT" => row.status = "ABSENT"
    BY <1>1, FailedRow DEF ErrCodes
  <2>3. /\ new \in Database /\ new.art = se.copy.art
        /\ \A k \in Keys \ {se.cur} : new.task[k] = se.copy.task[k]
        /\ new.task[se.cur] = newRow
    BY <1>1, <2>2 DEF Database
  <2> HIDE DEF new, newRow
  <2>4. Returns(s, new)
    BY <1>1, <2>1, <2>2, <2>3 DEF Returns, se
  <2> QED BY <2>3, <2>4
<1> QED BY <1>2, <1>3, <1>4, <1>5, <1>6

\* What CallGateway changes.
LEMMA CallChanges ==
  ASSUME TypeOK, NEW s \in Sessions, CallGateway(s)
  PROVE  \E new \in Database :
           LET se == sess[s] IN
           /\ se.pc = "exec" /\ se.copy.task[se.cur].status = "SCHEDULED"
           /\ AllApproved(se.copy, se.cur)
           /\ sess' = [sess EXCEPT ![s] = [Edited(se, new) EXCEPT !.pc = "call"]]
           /\ new.art = se.copy.art
           /\ \A k \in Keys \ {se.cur} : new.task[k] = se.copy.task[k]
           /\ new.task[se.cur] = [se.copy.task[se.cur] EXCEPT
                                    !.status = "PUBLISHING", !.dispatched = TRUE]
<1> DEFINE se == sess[s]
           row == se.copy.task[se.cur]
           new == [se.copy EXCEPT !.task[se.cur].status = "PUBLISHING",
                                  !.task[se.cur].dispatched = TRUE]
           newRow == [row EXCEPT !.status = "PUBLISHING", !.dispatched = TRUE]
<1>1. se \in Session /\ se.copy \in Database /\ se.cur \in Keys /\ row \in TaskRow
  BY DEF TypeOK, Session, Database
<1>2. /\ se.pc = "exec" /\ row.status = "SCHEDULED" /\ AllApproved(se.copy, se.cur)
      /\ sess' = [sess EXCEPT ![s] = [Edited(se, new) EXCEPT !.pc = "call"]]
  BY DEF CallGateway, Executing
<1> HIDE DEF se
<1>3. newRow \in TaskRow
  BY <1>1 DEF TaskRow, TaskStatus
<1>4. /\ new \in Database /\ new.art = se.copy.art
      /\ \A k \in Keys \ {se.cur} : new.task[k] = se.copy.task[k]
      /\ new.task[se.cur] = newRow
  BY <1>1, <1>3 DEF Database
<1> QED BY <1>2, <1>4 DEF se

\* Rows go back from FAILED to SCHEDULED.
Reopens(old, new) ==
  /\ new.art = old.art
  /\ \A k \in Keys :
       \/ new.task[k] = old.task[k]
       \/ /\ old.task[k].status = "FAILED" /\ new.task[k].status = "SCHEDULED"
          /\ ~new.task[k].dispatched
          /\ new.task[k].deleted = old.task[k].deleted

\* A SCHEDULED row is soft-deleted.
Withdraws(k, old, new) ==
  /\ new.art = old.art
  /\ old.task[k].status = "SCHEDULED" /\ new.task[k].status = "SCHEDULED"
  /\ new.task[k].dispatched = old.task[k].dispatched /\ new.task[k].deleted
  /\ \A j \in Keys \ {k} : new.task[j] = old.task[j]

\* The edits of a tick and of a request that are not those of execute_publish.
Rewrites(old, new) ==
  /\ new.art = old.art
  /\ \A k \in Keys :
       \/ new.task[k] = old.task[k]
       \/ /\ old.task[k].status = "FAILED" /\ new.task[k].status = "SCHEDULED"
          /\ ~new.task[k].dispatched
          /\ new.task[k].deleted = old.task[k].deleted
       \/ /\ old.task[k].status = "SCHEDULED" /\ new.task[k].status = "SCHEDULED"
          /\ new.task[k].dispatched = old.task[k].dispatched
          /\ new.task[k].deleted

LEMMA ReopensRewrites ==
  ASSUME NEW old, NEW new, Reopens(old, new)
  PROVE  Rewrites(old, new)
BY DEF Reopens, Rewrites

LEMMA ReopenedRows ==
  ASSUME NEW row \in TaskRow, row.status = "FAILED"
  PROVE  /\ Resumed(row).status = "SCHEDULED" /\ ~Resumed(row).dispatched
         /\ Resumed(row).deleted = row.deleted
         /\ Resubmitted(row).status = "SCHEDULED" /\ ~Resubmitted(row).dispatched
         /\ Resubmitted(row).deleted = row.deleted
<1>1. Moved(TaskTransitions, row.status, "SCHEDULED") = "SCHEDULED"
  BY DEF Moved, TaskTransitions
<1> QED BY <1>1 DEF Resumed, Resubmitted, TaskRow

Watches(s, new) ==
  /\ sess[s].pc = "login" /\ Reopens(sess[s].copy, new)
  /\ EditedTo(sess[s], new, sess'[s])
  /\ sess'[s].then = "due" /\ sess'[s].ret = sess[s].ret
  /\ \A k \in sess'[s].todo : ~new.task[k].deleted

LEMMA WatchChanges ==
  ASSUME TypeOK, NEW s \in Sessions, NEW later \in SUBSET Keys, WatchLogin(s, later)
  PROVE  \E new \in Database : Watches(s, new)
<1> DEFINE se == sess[s]
           mp == IF Real THEN Watched(se.copy.mp, se.since) ELSE se.copy.mp
           new == [se.copy EXCEPT
                     !.mp = mp,
                     !.task = [j \in Keys |-> IF j \in Stuck(se.copy, mp)
                                                THEN Resumed(@[j]) ELSE @[j]]]
<1>1. /\ se \in Session /\ se.copy \in Database /\ se.since \in Nat
      /\ se.copy.mp \in MpRow
  BY DEF TypeOK, Session, Database
<1>2. /\ se.pc = "login"
      /\ sess'[s] = [Flushing(Edited(se, new), "due") EXCEPT
                       !.todo = DueRows(new, se.since) \ later]
  BY DEF WatchLogin, TypeOK
<1>3. mp \in MpRow
  BY <1>1, WatchedType
<1> HIDE DEF se, mp
<1>4. \A j \in Keys : se.copy.task[j] \in TaskRow /\ Resumed(se.copy.task[j]) \in TaskRow
  BY <1>1, ResumedType DEF Database
<1>5. /\ new \in Database /\ new.art = se.copy.art
      /\ \A j \in Keys : new.task[j] = IF j \in Stuck(se.copy, mp)
                                         THEN Resumed(se.copy.task[j])
                                         ELSE se.copy.task[j]
  BY <1>1, <1>3, <1>4 DEF Database
<1>6. \A j \in Stuck(se.copy, mp) : se.copy.task[j].status = "FAILED"
  BY DEF Stuck
<1> HIDE DEF new
<1>7. Reopens(se.copy, new)
  BY <1>4, <1>5, <1>6, ReopenedRows DEF Reopens
<1> DEFINE fl == Flushing(Edited(se, new), "due")
<1>8. "due" \in Pc
  BY DEF Pc
<1>9. /\ fl \in Session /\ EditedTo(se, new, fl)
      /\ fl.then = "due" /\ fl.ret = se.ret
  BY <1>1, <1>5, <1>8, FlushingEdit
<1> HIDE DEF fl
<1>10. /\ EditedTo(se, new, sess'[s])
       /\ sess'[s].then = "due" /\ sess'[s].ret = se.ret
       /\ \A k \in sess'[s].todo : ~new.task[k].deleted
  <2>1. sess'[s] = [fl EXCEPT !.todo = DueRows(new, se.since) \ later]
    BY <1>2 DEF fl
  <2>2. \A k \in DueRows(new, se.since) : ~new.task[k].deleted
    BY DEF DueRows, Live
  <2> QED BY <1>9, <2>1, <2>2 DEF EditedTo, Session
<1> QED BY <1>2, <1>5, <1>7, <1>10 DEF se, Watches

Retries(s, k, new) ==
  /\ sess[s].pc = "retry" /\ k \in sess[s].todo /\ Reopens(sess[s].copy, new)
  /\ \A j \in Keys \ {k} : new.task[j] = sess[s].copy.task[j]
  /\ EditedTo(sess[s], new, sess'[s])
  /\ sess'[s].then = "exec" /\ sess'[s].ret = "retry" /\ sess'[s].cur = k
  /\ sess'[s].todo = sess[s].todo \ {k}

LEMMA RetryChanges ==
  ASSUME TypeOK, NEW s \in Sessions, NEW k \in Keys, RetryNext(s, k),
         QueueKept(sess[s])
  PROVE  \E new \in Database : Retries(s, k, new)
<1> DEFINE se == sess[s]
           new == [se.copy EXCEPT !.task[k] = Resubmitted(@)]
<1>1. /\ se \in Session /\ se.copy \in Database /\ se.copy.task[k] \in TaskRow
      /\ Resubmitted(se.copy.task[k]) \in TaskRow
  BY ResubmittedType DEF TypeOK, Session, Database
<1>2. /\ se.pc = "retry" /\ k \in se.todo
      /\ sess'[s] = [Flushing(Edited(se, new), "exec") EXCEPT
                       !.ret = "retry", !.cur = k, !.todo = @ \ {k}]
  BY DEF RetryNext, TypeOK
<1>3. se.copy.task[k].status = "FAILED"
  BY <1>2 DEF QueueKept, Target
<1> HIDE DEF se
<1>4. /\ new \in Database /\ new.art = se.copy.art
      /\ new.task[k] = Resubmitted(se.copy.task[k])
      /\ \A j \in Keys \ {k} : new.task[j] = se.copy.task[j]
  BY <1>1 DEF Database
<1> HIDE DEF new
<1>5. Reopens(se.copy, new)
  BY <1>1, <1>3, <1>4, ReopenedRows DEF Reopens
<1> DEFINE fl == Flushing(Edited(se, new), "exec")
<1>6. "exec" \in Pc
  BY DEF Pc
<1>7. /\ fl \in Session /\ EditedTo(se, new, fl)
      /\ fl.then = "exec" /\ fl.todo = se.todo
  BY <1>1, <1>4, <1>6, FlushingEdit
<1> HIDE DEF fl
<1>8. /\ EditedTo(se, new, sess'[s]) /\ sess'[s].then = "exec"
      /\ sess'[s].ret = "retry" /\ sess'[s].cur = k
      /\ sess'[s].todo = se.todo \ {k}
  <2>1. sess'[s] = [fl EXCEPT !.ret = "retry", !.cur = k, !.todo = @ \ {k}]
    BY <1>2 DEF fl
  <2> QED BY <1>7, <2>1 DEF EditedTo, Session
<1> QED BY <1>2, <1>4, <1>5, <1>8 DEF se, Retries

Alerts(s, new) ==
  /\ sess[s].pc = "retry" /\ sess[s].todo = {} /\ Reopens(sess[s].copy, new)
  /\ EditedTo(sess[s], new, sess'[s])
  /\ sess'[s].then = "commit" /\ sess'[s].ret = sess[s].ret /\ sess'[s].todo = {}

LEMMA AlertChanges ==
  ASSUME TypeOK, NEW s \in Sessions, AlertDeadLetters(s)
  PROVE  \E new \in Database : Alerts(s, new)
<1> DEFINE se == sess[s]
           new == [se.copy EXCEPT !.alert = @ \cup DeadLetters(se.copy)]
<1>1. se \in Session /\ se.copy \in Database
  BY DEF TypeOK, Session
<1>2. /\ se.pc = "retry" /\ se.todo = {}
      /\ sess'[s] = Flushing(Edited(se, new), "commit")
  BY DEF AlertDeadLetters, TypeOK
<1> HIDE DEF se
<1>3. new \in Database /\ new.art = se.copy.art /\ new.task = se.copy.task
  BY <1>1 DEF Database, DeadLetters
<1> HIDE DEF new
<1>4. Reopens(se.copy, new)
  BY <1>3 DEF Reopens
<1>5. "commit" \in Pc
  BY DEF Pc
<1>6. /\ EditedTo(se, new, sess'[s]) /\ sess'[s].then = "commit"
      /\ sess'[s].ret = se.ret /\ sess'[s].todo = {}
  BY <1>1, <1>2, <1>3, <1>5, FlushingEdit
<1> QED BY <1>2, <1>3, <1>4, <1>6 DEF se, Alerts

Asks(s, k, new) ==
  /\ Idle(s)
  /\ EditedTo(Opened, new, sess'[s]) /\ sess'[s].todo = {}
  /\ \/ /\ Reopens(db, new) /\ ~new.task[k].deleted
        /\ sess'[s].then = "exec" /\ sess'[s].ret = "commit" /\ sess'[s].cur = k
     \/ /\ Withdraws(k, db, new)
        /\ sess'[s].then = "commit" /\ sess'[s].ret = "idle"

LEMMA AsksRewrites ==
  ASSUME NEW s, NEW k \in Keys, NEW new, Asks(s, k, new)
  PROVE  /\ Rewrites(db, new)
         /\ sess'[s].then \in {"commit", "exec"} /\ sess'[s].ret \in {"idle", "commit"}
BY ReopensRewrites DEF Asks, Withdraws, Rewrites

LEMMA RequestChanges ==
  ASSUME TypeOK, NEW s \in Sessions, NEW k \in Keys,
         StartRetry(s, k) \/ StartCancel(s, k)
  PROVE  \E new \in Database : Asks(s, k, new)
<1>1. /\ db \in Database /\ db.task[k] \in TaskRow
      /\ Opened \in Session /\ Opened.ret = "idle" /\ Opened.todo = {}
  BY OpenedType DEF TypeOK, Database, Opened, NoSession
<1>2. "exec" \in Pc /\ "commit" \in Pc
  BY DEF Pc
<1>3. CASE StartRetry(s, k)
  <2> DEFINE new == [db EXCEPT !.task[k] = Resubmitted(@)]
             fl == Flushing(Edited(Opened, new), "exec")
  <2>1. /\ Idle(s) /\ db.task[k].status = "FAILED" /\ ~db.task[k].deleted
        /\ sess'[s] = [fl EXCEPT !.ret = "commit", !.cur = k]
    BY <1>3 DEF StartRetry, Live, TypeOK
  <2>2. /\ new \in Database /\ new.art = db.art
        /\ new.task[k] = Resubmitted(db.task[k])
        /\ \A j \in Keys \ {k} : new.task[j] = db.task[j]
    BY <1>1, ResubmittedType DEF Database
  <2> HIDE DEF new
  <2>3. Reopens(db, new) /\ ~new.task[k].deleted
    BY <1>1, <2>1, <2>2, ReopenedRows DEF Reopens
  <2>4. fl \in Session /\ EditedTo(Opened, new, fl) /\ fl.then = "exec" /\ fl.todo = {}
    BY <1>1, <1>2, <2>2, FlushingEdit
  <2> HIDE DEF fl
  <2>5. /\ EditedTo(Opened, new, sess'[s]) /\ sess'[s].then = "exec"
        /\ sess'[s].ret = "commit" /\ sess'[s].todo = {} /\ sess'[s].cur = k
    BY <2>1, <2>4 DEF EditedTo, Session
  <2> QED BY <2>1, <2>2, <2>3, <2>5 DEF Asks
<1>4. CASE StartCancel(s, k)
  <2> DEFINE new == [db EXCEPT !.task[k].deleted = TRUE]
             newRow == [db.task[k] EXCEPT !.deleted = TRUE]
  <2>1. /\ Idle(s) /\ db.task[k].status = "SCHEDULED"
        /\ sess'[s] = Flushing(Edited(Opened, new), "commit")
    BY <1>4 DEF StartCancel, Cancellable, TypeOK
  <2>2. /\ newRow \in TaskRow /\ newRow.deleted
        /\ newRow.status = db.task[k].status /\ newRow.dispatched = db.task[k].dispatched
    BY <1>1 DEF TaskRow
  <2>3. /\ new \in Database /\ new.art = db.art /\ new.task[k] = newRow
        /\ \A j \in Keys \ {k} : new.task[j] = db.task[j]
    BY <1>1, <2>2 DEF Database
  <2> HIDE DEF new, newRow
  <2>4. Withdraws(k, db, new)
    BY <2>1, <2>2, <2>3 DEF Withdraws
  <2>5. /\ EditedTo(Opened, new, sess'[s]) /\ sess'[s].then = "commit"
        /\ sess'[s].ret = "idle" /\ sess'[s].todo = {}
    BY <1>1, <1>2, <2>1, <2>3, FlushingEdit
  <2> QED BY <2>1, <2>3, <2>4, <2>5 DEF Asks
<1> QED BY <1>3, <1>4

\* The rows a tick or create_task adds.
LEMMA InsertedFields ==
  ASSUME TypeOK, NEW K \in SUBSET Keys, NEW next \in Pc
  PROVE  LET e == Flushing(Inserted(Opened, K), next) IN
         /\ e \in Session
         /\ e.pc = "flush" /\ e.then = next /\ e.ret = "idle" /\ e.todo = {}
         /\ e.wrote = NoWrites
         /\ e.pend.art = {} /\ e.copy.art = db.art
         /\ \A k \in K : /\ e.copy.task[k] = NewTask
                         /\ e.pend.task[k] = TaskCols \cup {"insert"}
         /\ \A k \in Keys \ K : /\ e.copy.task[k] = db.task[k]
                                /\ e.pend.task[k] = {}
<1> DEFINE copy == [db EXCEPT !.task = [k \in Keys |-> IF k \in K THEN NewTask
                                                       ELSE @[k]]]
           e == Flushing(Inserted(Opened, K), next)
<1>1. Opened \in Session /\ e \in Session
  BY OpenedType, InsertedType, FlushingType
<1>2. /\ Opened.ret = "idle" /\ Opened.todo = {} /\ Opened.copy = db
      /\ Opened.pend = NoWrites /\ Opened.wrote = NoWrites
  BY DEF Opened, NoSession
<1>3. /\ e.pc = "flush" /\ e.then = next /\ e.ret = "idle" /\ e.todo = {}
      /\ e.wrote = NoWrites /\ e.copy = copy
      /\ e.pend = Join(NoWrites, Inserts(K))
  BY <1>1, <1>2 DEF Flushing, Inserted, Session
<1>4. /\ copy.art = db.art
      /\ \A k \in Keys : copy.task[k] = IF k \in K THEN NewTask ELSE db.task[k]
  BY DEF TypeOK, Database
<1>5. \A k \in Keys : Join(NoWrites, Inserts(K)).task[k]
                        = IF k \in K THEN TaskCols \cup {"insert"} ELSE {}
  BY DEF Join, NoWrites, Inserts
<1>6. Join(NoWrites, Inserts(K)).art = {}
  BY DEF Join, NoWrites, Inserts
<1> HIDE DEF e, copy
<1>7. /\ \A k \in K : /\ e.copy.task[k] = NewTask
                      /\ e.pend.task[k] = TaskCols \cup {"insert"}
      /\ \A k \in Keys \ K : e.copy.task[k] = db.task[k] /\ e.pend.task[k] = {}
  BY <1>3, <1>4, <1>5
<1> QED BY <1>1, <1>3, <1>4, <1>6, <1>7 DEF e

-----------------------------------------------------------------------------
(* What the steps leave alone *)

\* A session's step that is neither the commit nor an abort.
Proceeds(s) ==
  \/ Flush(s)
  \/ RefuseUnapproved(s) \/ SuspendForLogin(s) \/ CallGateway(s)
  \/ PublishSucceeds(s) \/ PublishFails(s) \/ LoginLost(s)
  \/ \E later \in SUBSET Keys : WatchLogin(s, later) \/ SelectRetries(s, later)
  \/ \E k \in Keys : PublishNext(s, k) \/ RetryNext(s, k)
  \/ AlertDeadLetters(s) \/ StartTick(s) \/ Request(s)

LEMMA NextCases ==
  ASSUME [Next]_vars
  PROVE  \/ \E s \in Sessions : Proceeds(s) \/ Commit(s) \/ Abort(s)
         \/ Environment \/ UNCHANGED vars
BY DEF Next, Step, Proceeds, Crash, UniqueViolation, LockWaitAborted, Sessions

LEMMA ProceedsFrame ==
  ASSUME TypeOK, NEW s \in Sessions, Proceeds(s)
  PROVE  /\ \A o \in Sessions \ {s} : sess'[o] = sess[o]
         /\ db' = db /\ review' = review
<1>1. CASE Flush(s)
  BY <1>1 DEF Flush, TypeOK
<1>2. CASE RefuseUnapproved(s) \/ SuspendForLogin(s) \/ CallGateway(s)
  BY <1>2 DEF RefuseUnapproved, SuspendForLogin, CallGateway, TypeOK
<1>3. CASE PublishSucceeds(s) \/ PublishFails(s) \/ LoginLost(s)
  BY <1>3 DEF PublishSucceeds, PublishFails, LoginLost, TypeOK
<1>4. CASE \E later \in SUBSET Keys : WatchLogin(s, later) \/ SelectRetries(s, later)
  BY <1>4 DEF WatchLogin, SelectRetries, TypeOK
<1>5. CASE \E k \in Keys : PublishNext(s, k) \/ RetryNext(s, k)
  BY <1>5 DEF PublishNext, RetryNext, TypeOK
<1>6. CASE AlertDeadLetters(s) \/ StartTick(s)
  BY <1>6 DEF AlertDeadLetters, StartTick, TypeOK
<1>7. CASE Request(s)
  BY <1>7 DEF Request, StartCreate, StartRetry, StartCancel, TypeOK
<1> QED BY <1>1, <1>2, <1>3, <1>4, <1>5, <1>6, <1>7 DEF Proceeds

\* A commit writes the columns its session has flushed, and ends the session.
LEMMA CommitChanges ==
  ASSUME TypeOK, NEW s \in Sessions, Commit(s)
  PROVE  /\ \A o \in Sessions \ {s} : sess'[o] = sess[o]
         /\ sess'[s] = NoSession /\ sess[s].pc = "commit"
         /\ posts' = posts /\ review' = review
         /\ \A k \in Keys, c \in TaskCols :
              db'.task[k][c] = IF c \in sess[s].wrote.task[k]
                                 THEN sess[s].copy.task[k][c] ELSE db.task[k][c]
         /\ \A x \in Articles :
              db'.art[x] = IF x \in sess[s].wrote.art
                             THEN sess[s].copy.art[x] ELSE db.art[x]
<1>1. db' = Apply(db, sess[s].copy, sess[s].wrote)
  BY DEF Commit
<1>2. \A k \in Keys :
        db'.task[k] = [c \in TaskCols |-> IF c \in sess[s].wrote.task[k]
                                            THEN sess[s].copy.task[k][c]
                                            ELSE db.task[k][c]]
  BY <1>1 DEF Apply
<1>3. \A x \in Articles :
        db'.art[x] = IF x \in sess[s].wrote.art THEN sess[s].copy.art[x] ELSE db.art[x]
  BY <1>1 DEF Apply
<1> QED BY <1>2, <1>3 DEF Commit, TypeOK

LEMMA AbortChanges ==
  ASSUME TypeOK, NEW s \in Sessions, Abort(s)
  PROVE  /\ \A o \in Sessions \ {s} : sess'[o] = sess[o]
         /\ sess'[s] = NoSession /\ db' = db /\ posts' = posts /\ review' = review
BY DEF Abort, TypeOK

\* What happens beside the sessions never touches a task, and of the articles
\* only those a review has read.
LEMMA EnvironmentChanges ==
  ASSUME TypeOK, Environment
  PROVE  /\ sess' = sess /\ posts' = posts /\ db'.task = db.task
         /\ \A x \in Articles :
              db'.art[x] # db.art[x] => \E e \in Editors : review[e][x] # "NONE"
<1>1. db \in Database
  BY DEF TypeOK
<1>2. ASSUME NEW e \in Editors, NEW y \in Articles,
             \/ ReadArticle(e, y) \/ LeaveArticle(e, y)
             \/ \E to \in ArticleStatus : MoveArticle(e, y, to)
      PROVE  /\ sess' = sess /\ posts' = posts /\ db'.task = db.task
             /\ \A x \in Articles :
                  db'.art[x] # db.art[x] => \E f \in Editors : review[f][x] # "NONE"
  <2>1. CASE ReadArticle(e, y) \/ LeaveArticle(e, y)
    BY <2>1 DEF ReadArticle, LeaveArticle
  <2>2. ASSUME NEW to \in ArticleStatus, MoveArticle(e, y, to)
        PROVE  /\ sess' = sess /\ posts' = posts /\ db'.task = db.task
               /\ \A x \in Articles : db'.art[x] # db.art[x] => review[e][x] # "NONE"
    <3>1. /\ db'.task = db.task /\ db'.art = [db.art EXCEPT ![y] = to]
          /\ db.art \in [Articles -> ArticleStatus]
      BY <1>1, <2>2 DEF MoveArticle, Database
    <3>2. review[e][y] # "NONE"
      BY <2>2 DEF MoveArticle, ReviewMoves, Reviewable
    <3> QED BY <2>2, <3>1, <3>2 DEF MoveArticle
  <2> QED BY <1>2, <2>1, <2>2
<1>3. CASE Scan
  BY <1>1, <1>3 DEF Scan, Database
<1>4. CASE Revoke
  <2>1. db'.task = db.task /\ db'.art = db.art
    BY <1>1, <1>4 DEF Revoke, Database
  <2> QED BY <1>4, <2>1 DEF Revoke
<1>5. CASE Tick
  BY <1>5 DEF Tick
<1> QED BY <1>2, <1>3, <1>4, <1>5 DEF Environment, Reviewing

-----------------------------------------------------------------------------
(* NoTaskStranded *)

\* An edit keeps status and dispatched together if it changes both or neither,
\* or if both are to be written anyway.
LEMMA EditKeepsPair ==
  ASSUME NEW se \in Session, NEW new \in Database, DispatchKept(se), NEW k \in Keys,
         \/ "status" \in se.pend.task[k]
         \/ new.task[k].status # se.copy.task[k].status
              <=> new.task[k].dispatched # se.copy.task[k].dispatched
  PROVE  "status" \in Edited(se, new).pend.task[k]
           <=> "dispatched" \in Edited(se, new).pend.task[k]
<1>1. "status" \in TaskCols /\ "dispatched" \in TaskCols
  BY DEF TaskCols
<1>2. "status" \in se.pend.task[k] <=> "dispatched" \in se.pend.task[k]
  BY DEF DispatchKept
<1> QED BY <1>1, <1>2, EditColumns

\* An edit of a row that is not PUBLISHING into one that is not, by a session
\* that is not calling the gateway.
LEMMA EditKeepsDispatch ==
  ASSUME NEW se \in Session, NEW new \in Database, DispatchKept(se), se.pc # "call",
         \A k \in Keys :
           \/ new.task[k] = se.copy.task[k]
           \/ /\ Paired(new.task[k]) /\ new.task[k].status # "PUBLISHING"
              /\ new.task[k].status # se.copy.task[k].status
                   <=> new.task[k].dispatched # se.copy.task[k].dispatched,
         NEW fin, EditedTo(se, new, fin)
  PROVE  DispatchKept(fin)
<1>1. ASSUME NEW k \in Keys
      PROVE  /\ Paired(new.task[k]) /\ new.task[k].status # "PUBLISHING"
             /\ "status" \in fin.pend.task[k] <=> "dispatched" \in fin.pend.task[k]
             /\ "status" \in fin.wrote.task[k] <=> "dispatched" \in fin.wrote.task[k]
  <2>1. new.task[k].status # se.copy.task[k].status
          <=> new.task[k].dispatched # se.copy.task[k].dispatched
    OBVIOUS
  <2> QED BY <2>1, EditKeepsPair DEF DispatchKept, EditedTo
<1>2. fin.pc = "flush" /\ fin.copy = new
  BY DEF EditedTo
<1> QED BY <1>1, <1>2 DEF DispatchKept

\* A queue that survives: the edit touches no task of it.
LEMMA EditKeepsQueue ==
  ASSUME NEW se \in Session, NEW new \in Database,
         QueueKept(se), se.pc \in {"exec", "call"},
         \A k \in Keys \ {se.cur} : new.task[k] = se.copy.task[k]
  PROVE  QueueKept(Flushing(Edited(se, new), se.ret))
<1> DEFINE fl == Flushing(Edited(se, new), se.ret)
<1>1. /\ fl.pc = "flush" /\ fl.then = se.ret /\ fl.ret = se.ret /\ fl.cur = se.cur
      /\ fl.todo = se.todo /\ fl.copy = new
  BY EditedType, EditFields DEF Flushing, Session
<1>2. se.todo \subseteq Keys
  BY DEF Session
<1> HIDE DEF fl
<1>3. fl.then \notin {"flush", "call"} /\ fl.ret \in {"idle", "due", "retry", "commit"}
  BY <1>1 DEF QueueKept
<1>4. Target(fl) = se.ret
  BY <1>1 DEF Target
<1>5. Target(fl) \in {"login", "due"} => fl.ret # "retry"
  BY <1>1, <1>4
<1>6. fl.ret = "retry" => fl.cur \notin fl.todo
  BY <1>1 DEF QueueKept
<1>7. ASSUME fl.ret = "retry", NEW k \in fl.todo
      PROVE  fl.copy.task[k].status = "FAILED"
  <2>1. k # se.cur /\ k \in Keys /\ se.copy.task[k].status = "FAILED"
    BY <1>1, <1>2, <1>7 DEF QueueKept
  <2> QED BY <1>1, <2>1
<1> QED BY <1>1, <1>3, <1>4, <1>5, <1>6, <1>7 DEF QueueKept, fl

\* The session a request or a tick begins.
LEMMA OpenedStrand ==
  ASSUME TypeOK, RowsPaired
  PROVE  /\ DispatchKept(Opened) /\ QueueKept(Opened)
         /\ Opened.pc = "idle" /\ Opened.ret = "idle" /\ Opened.todo = {}
         /\ Opened.copy = db /\ Opened.pend = NoWrites /\ Opened.wrote = NoWrites
<1>1. /\ Opened.pc = "idle" /\ Opened.then = "idle" /\ Opened.ret = "idle"
      /\ Opened.todo = {} /\ Opened.copy = db
      /\ Opened.pend = NoWrites /\ Opened.wrote = NoWrites
  BY DEF Opened, NoSession
<1>2. \A k \in Keys : NoWrites.task[k] = {}
  BY DEF NoWrites
<1> QED BY <1>1, <1>2 DEF DispatchKept, QueueKept, Target, RowsPaired

LEMMA NoSessionStrand == DispatchKept(NoSession) /\ QueueKept(NoSession)
<1>1. /\ NoSession.pc = "idle" /\ NoSession.then = "idle" /\ NoSession.ret = "idle"
      /\ NoSession.todo = {}
      /\ NoSession.pend = NoWrites /\ NoSession.wrote = NoWrites
  BY DEF NoSession
<1>2. \A k \in Keys : NoWrites.task[k] = {}
  BY DEF NoWrites
<1>3. \A k \in Keys : ~NoSession.copy.task[k].dispatched
                      /\ NoSession.copy.task[k].status = "ABSENT"
  BY DEF NoSession, NewDatabase, NoTask
<1> QED BY <1>1, <1>2, <1>3 DEF DispatchKept, QueueKept, Target, Paired

LEMMA FlushStrand ==
  ASSUME TypeOK, NEW s \in Sessions, Flush(s),
         DispatchKept(sess[s]), QueueKept(sess[s])
  PROVE  DispatchKept(sess'[s]) /\ QueueKept(sess'[s])
<1> DEFINE se == sess[s]
           new == sess'[s]
<1>1. /\ se \in Session /\ se.pc = "flush"
      /\ new = [se EXCEPT !.pc = se.then, !.wrote = Join(@, se.pend),
                          !.pend = NoWrites]
  BY DEF Flush, TypeOK
<1> HIDE DEF se, new
<1>2. /\ new.pc = se.then /\ new.then = se.then /\ new.ret = se.ret
      /\ new.cur = se.cur /\ new.todo = se.todo /\ new.copy = se.copy
      /\ new.pend = NoWrites /\ new.wrote = Join(se.wrote, se.pend)
  BY <1>1 DEF Session
<1>3. ASSUME NEW k \in Keys
      PROVE  /\ new.pend.task[k] = {}
             /\ new.wrote.task[k] = se.wrote.task[k] \cup se.pend.task[k]
  BY <1>2 DEF Join, NoWrites
<1>4. DispatchKept(new)
  BY <1>1, <1>2, <1>3 DEF DispatchKept, QueueKept, se
<1>5. Target(new) = Target(se)
  BY <1>1, <1>2 DEF Target, QueueKept, se
<1>6. QueueKept(new)
  BY <1>2, <1>5 DEF QueueKept, se
<1> QED BY <1>4, <1>6 DEF new

\* The outcome of a call to the gateway.
LEMMA OutcomeKeepsDispatch ==
  ASSUME NEW se \in Session, NEW new \in Database, DispatchKept(se), se.pc = "call",
         \A k \in Keys \ {se.cur} : new.task[k] = se.copy.task[k],
         Paired(new.task[se.cur]), new.task[se.cur].status # "PUBLISHING",
         NEW next \in Pc \ {"flush", "call"}
  PROVE  DispatchKept(Flushing(Edited(se, new), next))
<1> DEFINE fl == Flushing(Edited(se, new), next)
<1>1. /\ fl.pc = "flush" /\ fl.copy = new /\ fl.wrote = se.wrote
      /\ fl.pend = Edited(se, new).pend
  BY EditedType, EditFields DEF Flushing, Session
<1> HIDE DEF fl
<1>2. ASSUME NEW k \in Keys
      PROVE  /\ Paired(new.task[k]) /\ new.task[k].status # "PUBLISHING"
             /\ "status" \in fl.pend.task[k] <=> "dispatched" \in fl.pend.task[k]
  <2>1. CASE k = se.cur
    <3>1. "status" \in se.pend.task[k]
      BY <2>1 DEF DispatchKept
    <3> QED BY <1>1, <2>1, <3>1, EditKeepsPair
  <2>2. CASE k # se.cur
    <3>1. new.task[k] = se.copy.task[k] /\ se.copy.task[k].status # "PUBLISHING"
      BY <2>2 DEF DispatchKept
    <3> QED BY <1>1, <3>1, EditKeepsPair DEF DispatchKept
  <2> QED BY <2>1, <2>2
<1> QED BY <1>1, <1>2 DEF DispatchKept, fl

LEMMA ReturnsStrand ==
  ASSUME TypeOK, NEW s \in Sessions, NEW new \in Database, Returns(s, new),
         DispatchKept(sess[s]), QueueKept(sess[s])
  PROVE  DispatchKept(sess'[s]) /\ QueueKept(sess'[s])
<1> DEFINE se == sess[s]
           row == se.copy.task[se.cur]
           newRow == new.task[se.cur]
<1>1. /\ se \in Session /\ se.cur \in Keys
      /\ se.ret \in Pc \ {"flush", "call"}
      /\ DispatchKept(se) /\ QueueKept(se)
  BY DEF TypeOK, Session, QueueKept, Pc
<1>2. /\ se.pc \in {"exec", "call"}
      /\ sess'[s] = Flushing(Edited(se, new), se.ret)
      /\ \A k \in Keys \ {se.cur} : new.task[k] = se.copy.task[k]
  BY DEF Returns, TypeOK
<1>3. /\ Paired(row)
      /\ row.status = "PUBLISHING" <=> se.pc = "call"
  BY <1>1 DEF DispatchKept
<1> HIDE DEF se
<1>4. CASE se.pc = "exec"
  <2>1. /\ newRow.status = "SCHEDULED" /\ row.status = "SCHEDULED"
        /\ newRow.dispatched = row.dispatched
    BY <1>4 DEF Returns, se
  <2>2. Paired(newRow) /\ newRow.status # "PUBLISHING"
    BY <1>3, <2>1 DEF Paired
  <2>3. DispatchKept(sess'[s])
    BY <1>1, <1>2, <1>4, <2>1, <2>2, FlushingEdit, EditKeepsDispatch
  <2> QED BY <1>1, <1>2, <2>3, EditKeepsQueue
<1>5. CASE se.pc = "call"
  <2>1. newRow.status \in {"FAILED", "PUBLISHED"} /\ newRow.dispatched = row.dispatched
    BY <1>3, <1>5 DEF Returns, se
  <2>2. Paired(newRow) /\ newRow.status # "PUBLISHING"
    BY <1>3, <1>5, <2>1 DEF Paired
  <2>3. DispatchKept(sess'[s])
    BY <1>1, <1>2, <1>5, <2>2, OutcomeKeepsDispatch
  <2> QED BY <1>1, <1>2, <2>3, EditKeepsQueue
<1> QED BY <1>2, <1>4, <1>5

LEMMA CallStrand ==
  ASSUME TypeOK, NEW s \in Sessions, CallGateway(s),
         DispatchKept(sess[s]), QueueKept(sess[s])
  PROVE  DispatchKept(sess'[s]) /\ QueueKept(sess'[s])
<1> DEFINE se == sess[s]
           row == se.copy.task[se.cur]
           fin == sess'[s]
<1>1. /\ se \in Session /\ se.cur \in Keys /\ row \in TaskRow
      /\ DispatchKept(se) /\ QueueKept(se)
  BY DEF TypeOK, Session, Database
<1>2. PICK new \in Database :
           /\ se.pc = "exec" /\ row.status = "SCHEDULED"
           /\ fin = [Edited(se, new) EXCEPT !.pc = "call"]
           /\ \A k \in Keys \ {se.cur} : new.task[k] = se.copy.task[k]
           /\ new.task[se.cur] = [row EXCEPT !.status = "PUBLISHING",
                                             !.dispatched = TRUE]
  BY CallChanges DEF TypeOK
<1> HIDE DEF se, fin
<1>3. /\ fin.pc = "call" /\ fin.then = se.then /\ fin.ret = se.ret
      /\ fin.cur = se.cur /\ fin.todo = se.todo /\ fin.wrote = se.wrote
      /\ fin.copy = new /\ fin.pend = Edited(se, new).pend
  BY <1>1, <1>2, EditedType, EditFields DEF Session
<1>4. /\ new.task[se.cur].status = "PUBLISHING" /\ new.task[se.cur].dispatched = TRUE
      /\ row.status = "SCHEDULED" /\ row.dispatched = FALSE
  BY <1>1, <1>2 DEF TaskRow, DispatchKept, Paired
<1>5. ASSUME NEW k \in Keys
      PROVE  /\ Paired(new.task[k])
             /\ new.task[k].status = "PUBLISHING" => k = se.cur
             /\ "status" \in fin.pend.task[k] <=> "dispatched" \in fin.pend.task[k]
  <2>1. CASE k = se.cur
    BY <1>1, <1>3, <1>4, <2>1, EditKeepsPair DEF Paired
  <2>2. CASE k # se.cur
    <3>1. new.task[k] = se.copy.task[k]
      BY <1>2, <2>2
    <3> QED BY <1>1, <1>2, <1>3, <3>1, EditKeepsPair DEF DispatchKept
  <2> QED BY <2>1, <2>2
<1>6. "status" \in fin.pend.task[fin.cur]
  BY <1>1, <1>3, <1>4, EditColumns DEF TaskCols
<1>7. DispatchKept(fin)
  BY <1>1, <1>3, <1>4, <1>5, <1>6 DEF DispatchKept
<1>8. QueueKept(fin)
  <2>1. se.todo \subseteq Keys
    BY <1>1 DEF Session
  <2> QED BY <1>1, <1>2, <1>3, <2>1 DEF QueueKept, Target
<1> QED BY <1>7, <1>8 DEF fin

LEMMA RewritesKeepDispatch ==
  ASSUME NEW se \in Session, NEW new \in Database, DispatchKept(se), se.pc # "call",
         Rewrites(se.copy, new), NEW fin, EditedTo(se, new, fin)
  PROVE  DispatchKept(fin)
<1>1. ASSUME NEW k \in Keys
      PROVE  \/ new.task[k] = se.copy.task[k]
             \/ /\ Paired(new.task[k]) /\ new.task[k].status # "PUBLISHING"
                /\ new.task[k].status # se.copy.task[k].status
                     <=> new.task[k].dispatched # se.copy.task[k].dispatched
  <2>1. Paired(se.copy.task[k])
    BY DEF DispatchKept
  <2>2. se.copy.task[k].dispatched \in BOOLEAN /\ new.task[k].dispatched \in BOOLEAN
    BY DEF Session, Database, TaskRow
  <2> QED BY <2>1, <2>2 DEF Rewrites, Paired
<1> QED BY <1>1, EditKeepsDispatch

LEMMA TickStrand ==
  ASSUME TypeOK, RowsPaired, NEW s \in Sessions, NEW later \in SUBSET Keys,
         NEW k \in Keys, DispatchKept(sess[s]), QueueKept(sess[s]),
         \/ StartTick(s) \/ WatchLogin(s, later) \/ PublishNext(s, k)
         \/ SelectRetries(s, later) \/ RetryNext(s, k) \/ AlertDeadLetters(s)
  PROVE  DispatchKept(sess'[s]) /\ QueueKept(sess'[s])
<1> DEFINE se == sess[s]
           fin == sess'[s]
<1>1. se \in Session /\ DispatchKept(se) /\ QueueKept(se) /\ se.todo \in SUBSET Keys
  BY DEF TypeOK, Session
<1> HIDE DEF se, fin
<1>2. CASE StartTick(s)
  <2> DEFINE K == {j \in AutoKeys : /\ db.art[Lead[j]] = "APPROVED"
                                    /\ ~Live(db.task[j])}
  <2>1. K \in SUBSET Keys
    BY PipelineAssumption
  <2> HIDE DEF K
  <2>2. fin = Flushing(Inserted(Opened, K), "login")
    BY <1>2 DEF StartTick, K, fin, TypeOK
  <2>3. /\ fin.pc = "flush" /\ fin.then = "login" /\ fin.ret = "idle" /\ fin.todo = {}
        /\ fin.wrote = NoWrites
        /\ \A j \in K : /\ fin.copy.task[j] = NewTask
                        /\ fin.pend.task[j] = TaskCols \cup {"insert"}
        /\ \A j \in Keys \ K : fin.copy.task[j] = db.task[j] /\ fin.pend.task[j] = {}
    BY <2>1, <2>2, InsertedFields DEF Pc
  <2>4. QueueKept(fin)
    BY <2>3 DEF QueueKept, Target
  <2>5. ASSUME NEW j \in Keys
        PROVE  /\ Paired(fin.copy.task[j]) /\ fin.copy.task[j].status # "PUBLISHING"
               /\ "status" \in fin.pend.task[j] <=> "dispatched" \in fin.pend.task[j]
    BY <2>1, <2>3 DEF RowsPaired, Paired, NewTask, NoTask, TaskCols
  <2>6. DispatchKept(fin)
    BY <2>3, <2>5 DEF DispatchKept, NoWrites
  <2> QED BY <2>4, <2>6 DEF fin
<1>3. CASE WatchLogin(s, later)
  <2>1. PICK new \in Database : Watches(s, new)
    BY <1>3, WatchChanges
  <2>3. /\ se.pc = "login" /\ Rewrites(se.copy, new)
        /\ EditedTo(se, new, fin) /\ fin.then = "due" /\ fin.ret = se.ret
    BY <2>1, ReopensRewrites DEF Watches, se, fin
  <2>4. se.ret \in {"idle", "due", "retry", "commit"} /\ se.ret # "retry"
    BY <1>1, <2>3 DEF QueueKept, Target
  <2>5. DispatchKept(fin)
    BY <1>1, <2>3, RewritesKeepDispatch
  <2>6. QueueKept(fin)
    BY <2>3, <2>4 DEF QueueKept, Target, EditedTo
  <2> QED BY <2>5, <2>6 DEF fin
<1>4. CASE PublishNext(s, k)
  <2>1. /\ se.pc = "due"
        /\ fin = [se EXCEPT !.pc = "exec", !.ret = "due", !.cur = k, !.todo = @ \ {k}]
    BY <1>4 DEF PublishNext, se, fin, TypeOK
  <2>2. /\ fin.pc = "exec" /\ fin.ret = "due" /\ fin.then = se.then
        /\ fin.copy = se.copy /\ fin.pend = se.pend /\ fin.wrote = se.wrote
    BY <1>1, <2>1 DEF Session
  <2>3. DispatchKept(fin)
    BY <1>1, <2>1, <2>2 DEF DispatchKept
  <2>4. QueueKept(fin)
    BY <1>1, <2>2 DEF QueueKept, Target
  <2> QED BY <2>3, <2>4 DEF fin
<1>5. CASE SelectRetries(s, later)
  <2> DEFINE X == RetryRows(se.copy, se.since, se.wrote) \ later
  <2>1. /\ se.pc = "due"
        /\ fin = [se EXCEPT !.pc = "retry", !.todo = X]
    BY <1>5 DEF SelectRetries, se, fin, TypeOK
  <2>2. \A j \in X : se.copy.task[j].status = "FAILED"
    BY DEF RetryRows
  <2> HIDE DEF X
  <2>3. /\ fin.pc = "retry" /\ fin.ret = se.ret /\ fin.then = se.then /\ fin.todo = X
        /\ fin.copy = se.copy /\ fin.pend = se.pend /\ fin.wrote = se.wrote
    BY <1>1, <2>1 DEF Session
  <2>4. DispatchKept(fin)
    BY <1>1, <2>1, <2>3 DEF DispatchKept
  <2>5. QueueKept(fin)
    BY <1>1, <2>1, <2>2, <2>3 DEF QueueKept, Target
  <2> QED BY <2>4, <2>5 DEF fin
<1>6. CASE RetryNext(s, k)
  <2>1. PICK new \in Database : Retries(s, k, new)
    BY <1>1, <1>6, RetryChanges DEF se
  <2>2. /\ se.pc = "retry" /\ k \in se.todo /\ Rewrites(se.copy, new)
        /\ \A j \in Keys \ {k} : new.task[j] = se.copy.task[j]
        /\ EditedTo(se, new, fin) /\ fin.then = "exec" /\ fin.ret = "retry"
        /\ fin.cur = k /\ fin.todo = se.todo \ {k}
    BY <2>1, ReopensRewrites DEF Retries, se, fin
  <2>3. \A j \in fin.todo : j \in Keys \ {k} /\ se.copy.task[j].status = "FAILED"
    BY <1>1, <2>2 DEF QueueKept, Target
  <2>4. DispatchKept(fin)
    BY <1>1, <2>2, RewritesKeepDispatch
  <2>5. QueueKept(fin)
    BY <2>2, <2>3 DEF QueueKept, Target, EditedTo
  <2> QED BY <2>4, <2>5 DEF fin
<1>7. CASE AlertDeadLetters(s)
  <2>1. PICK new \in Database : Alerts(s, new)
    BY <1>7, AlertChanges
  <2>2. /\ se.pc = "retry" /\ Rewrites(se.copy, new) /\ EditedTo(se, new, fin)
        /\ fin.then = "commit" /\ fin.ret = se.ret /\ fin.todo = {}
    BY <2>1, ReopensRewrites DEF Alerts, se, fin
  <2>3. DispatchKept(fin)
    BY <1>1, <2>2, RewritesKeepDispatch
  <2>4. QueueKept(fin)
    BY <1>1, <2>2 DEF QueueKept, Target, EditedTo
  <2> QED BY <2>3, <2>4 DEF fin
<1> QED BY <1>2, <1>3, <1>4, <1>5, <1>6, <1>7 DEF se, fin

LEMMA RequestStrand ==
  ASSUME TypeOK, RowsPaired, NEW s \in Sessions, NEW k \in Keys,
         StartCreate(s, k) \/ StartRetry(s, k) \/ StartCancel(s, k)
  PROVE  DispatchKept(sess'[s]) /\ QueueKept(sess'[s])
<1> DEFINE fin == sess'[s]
<1> HIDE DEF fin
<1>1. CASE StartCreate(s, k)
  <2> DEFINE ins == Flushing(Inserted(Opened, {k}), "exec")
  <2>1. fin = [ins EXCEPT !.ret = "commit", !.cur = k]
    BY <1>1 DEF StartCreate, fin, TypeOK
  <2>2. /\ ins \in Session /\ ins.pc = "flush" /\ ins.then = "exec" /\ ins.todo = {}
        /\ ins.wrote = NoWrites
        /\ ins.copy.task[k] = NewTask /\ ins.pend.task[k] = TaskCols \cup {"insert"}
        /\ \A j \in Keys \ {k} : ins.copy.task[j] = db.task[j] /\ ins.pend.task[j] = {}
    BY InsertedFields DEF Pc
  <2> HIDE DEF ins
  <2>3. /\ fin.pc = "flush" /\ fin.then = "exec" /\ fin.ret = "commit"
        /\ fin.todo = {} /\ fin.wrote = NoWrites
        /\ fin.copy = ins.copy /\ fin.pend = ins.pend
    BY <2>1, <2>2 DEF Session
  <2>4. QueueKept(fin)
    BY <2>3 DEF QueueKept, Target
  <2>5. DispatchKept(fin)
    <3>1. ASSUME NEW j \in Keys
          PROVE  /\ Paired(fin.copy.task[j]) /\ fin.copy.task[j].status # "PUBLISHING"
                 /\ "status" \in fin.pend.task[j] <=> "dispatched" \in fin.pend.task[j]
      BY <2>2, <2>3 DEF RowsPaired, Paired, NewTask, NoTask, TaskCols
    <3> QED BY <2>3, <3>1 DEF DispatchKept, NoWrites
  <2> QED BY <2>4, <2>5 DEF fin
<1>2. CASE StartRetry(s, k) \/ StartCancel(s, k)
  <2>1. PICK new \in Database : Asks(s, k, new)
    BY <1>2, RequestChanges
  <2>2. /\ Opened \in Session /\ DispatchKept(Opened)
        /\ Opened.pc = "idle" /\ Opened.copy = db
    BY OpenedType, OpenedStrand
  <2>3. /\ Rewrites(db, new) /\ EditedTo(Opened, new, fin)
        /\ fin.then \in {"commit", "exec"} /\ fin.ret \in {"idle", "commit"}
        /\ fin.todo = {}
    BY <2>1, AsksRewrites DEF Asks, fin
  <2>4. DispatchKept(fin)
    BY <2>2, <2>3, RewritesKeepDispatch
  <2>5. QueueKept(fin)
    BY <2>3 DEF QueueKept, Target, EditedTo
  <2> QED BY <2>4, <2>5 DEF fin
<1> QED BY <1>1, <1>2 DEF fin

LEMMA ProceedsStrand ==
  ASSUME TypeOK, StrandInv, NEW s \in Sessions, Proceeds(s)
  PROVE  DispatchKept(sess'[s]) /\ QueueKept(sess'[s])
<1>1. DispatchKept(sess[s]) /\ QueueKept(sess[s]) /\ RowsPaired
  BY DEF StrandInv
<1>2. CASE Flush(s)
  BY <1>1, <1>2, FlushStrand
<1>3. CASE CallGateway(s)
  BY <1>1, <1>3, CallStrand
<1>4. CASE \/ RefuseUnapproved(s) \/ SuspendForLogin(s)
           \/ PublishSucceeds(s) \/ PublishFails(s) \/ LoginLost(s)
  BY <1>1, <1>4, ExecuteReturns, ReturnsStrand
<1>5. CASE \E later \in SUBSET Keys, k \in Keys :
             \/ StartTick(s) \/ WatchLogin(s, later) \/ PublishNext(s, k)
             \/ SelectRetries(s, later) \/ RetryNext(s, k) \/ AlertDeadLetters(s)
  BY <1>1, <1>5, TickStrand
<1>6. CASE Request(s)
  BY <1>1, <1>6, RequestStrand DEF Request
<1>7. {} \in SUBSET Keys /\ \E k \in Keys : TRUE
  BY PipelineAssumption
<1> QED BY <1>2, <1>3, <1>4, <1>5, <1>6, <1>7 DEF Proceeds

LEMMA StrandStep ==
  ASSUME TypeOK, StrandInv, [Next]_vars
  PROVE  StrandInv'
<1>1. ASSUME NEW s \in Sessions, Proceeds(s)
      PROVE  StrandInv'
  BY <1>1, ProceedsFrame, ProceedsStrand DEF StrandInv, RowsPaired
<1>2. ASSUME NEW s \in Sessions, Commit(s)
      PROVE  StrandInv'
  <2>1. ASSUME NEW k \in Keys
        PROVE  Paired(db'.task[k]) /\ db'.task[k].status # "PUBLISHING"
    <3>1. "status" \in TaskCols /\ "dispatched" \in TaskCols
      BY DEF TaskCols
    <3>2. /\ Paired(sess[s].copy.task[k]) /\ Paired(db.task[k])
          /\ sess[s].copy.task[k].status # "PUBLISHING"
          /\ db.task[k].status # "PUBLISHING"
          /\ "status" \in sess[s].wrote.task[k] <=> "dispatched" \in sess[s].wrote.task[k]
      BY <1>2, CommitChanges DEF StrandInv, RowsPaired, DispatchKept
    <3>3. /\ db'.task[k].status = IF "status" \in sess[s].wrote.task[k]
               THEN sess[s].copy.task[k].status ELSE db.task[k].status
          /\ db'.task[k].dispatched = IF "dispatched" \in sess[s].wrote.task[k]
               THEN sess[s].copy.task[k].dispatched ELSE db.task[k].dispatched
      BY <1>2, <3>1, CommitChanges
    <3> QED BY <3>2, <3>3 DEF Paired
  <2> QED BY <1>2, <2>1, CommitChanges, NoSessionStrand DEF StrandInv, RowsPaired
<1>3. ASSUME NEW s \in Sessions, Abort(s)
      PROVE  StrandInv'
  BY <1>3, AbortChanges, NoSessionStrand DEF StrandInv, RowsPaired
<1>4. CASE Environment
  BY <1>4, EnvironmentChanges DEF StrandInv, RowsPaired
<1>5. CASE UNCHANGED vars
  BY <1>5 DEF vars, StrandInv, RowsPaired
<1> QED BY <1>1, <1>2, <1>3, <1>4, <1>5, NextCases

LEMMA StrandInvariant == Spec => []StrandInv
<1>1. Init => StrandInv
  BY NoSessionStrand DEF Init, StrandInv, RowsPaired, Paired, NewDatabase, NoTask
<1>2. TypeOK /\ StrandInv /\ [Next]_vars => StrandInv'
  BY StrandStep
<1> QED BY <1>1, <1>2, TypeCorrect, PTL DEF Spec

\* However ticks and requests overlap, abort and crash: a committed SCHEDULED
\* task can be picked up by _publish_due, and PUBLISHING is never committed.
THEOREM NeverStranded == Spec => []NoTaskStranded
<1>1. StrandInv => NoTaskStranded
  BY DEF StrandInv, RowsPaired, Paired, NoTaskStranded
<1> QED BY <1>1, StrandInvariant, PTL
=============================================================================
