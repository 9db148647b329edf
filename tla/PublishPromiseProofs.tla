------------------------ MODULE PublishPromiseProofs ------------------------
(***************************************************************************)
(* PublishPipeline when its operations do not overlap: it implements       *)
(* PublishPromise if no process dies and no success looks like a failure,  *)
(* and a tick charges no retry for the loss of the login in any case.      *)
(***************************************************************************)
EXTENDS PublishCommitProofs

\* What every other edit than a cancellation leaves of the rows.
Steady(old, new) ==
  \A k \in Keys :
    /\ new.task[k].deleted = old.task[k].deleted
    /\ old.task[k].status = "PUBLISHED" => new.task[k].status = "PUBLISHED"
    /\ new.task[k].status = "PUBLISHED" =>
         old.task[k].status = "PUBLISHED" \/ ~new.task[k].deleted

LEMMA ReopensSteady ==
  ASSUME NEW old, NEW new, Reopens(old, new)
  PROVE  Steady(old, new)
BY DEF Reopens, Steady

\* A session that publishes goes on to, after such an edit; nothing of it is an
\* INSERT that waits.
LEMMA SteadyEdit ==
  ASSUME NEW base \in Session, NEW new \in Database, NEW fin,
         fin.copy = new, fin.pend = Edited(base, new).pend,
         base.pc # "flush", RowsSeen(base, db.task),
         Steady(base.copy, new), Publishing(base, db.task)
  PROVE  /\ Publishing(fin, db.task)
         /\ \A k \in Keys : "insert" \notin fin.pend.task[k]
<1>1. \A k \in Keys : "insert" \notin base.pend.task[k] /\ "insert" \notin fin.pend.task[k]
  BY EditInserts DEF RowsSeen
<1> QED
  BY <1>1 DEF Publishing, Steady

LEMMA OpenedPublishing ==
  ASSUME AloneInv
  PROVE  Publishing(Opened, db.task)
BY OpenedFields DEF AloneInv, Publishing, NoWrites

\* A session that publishes and one that cancels part at the latest where the
\* one goes for its commit.
LEMMA NotCancelling ==
  ASSUME AloneInv, NEW s \in Sessions, ~Idle(s), Target(sess[s]) # "commit"
  PROVE  Publishing(sess[s], db.task)
BY DEF AloneInv, Cancelling

\* How a session stands after its step.
Stands(fin) ==
  /\ fin.pc # "idle" /\ CourseKept(fin)
  /\ Publishing(fin, db.task) \/ Cancelling(fin, db.task)

LEMMA FlushStands ==
  ASSUME TypeOK, StrandInv, CancelInv, AloneInv, NEW s \in Sessions, Flush(s)
  PROVE  Stands(sess'[s])
<1> DEFINE se == sess[s]
           fin == sess'[s]
<1>1. /\ se \in Session /\ se.pc = "flush" /\ se.then \notin {"flush", "call"}
      /\ CourseKept(se)
      /\ Publishing(se, db.task) \/ Cancelling(se, db.task)
  BY DEF Flush, TypeOK, StrandInv, QueueKept, AloneInv, Idle
<1>2. fin = [se EXCEPT !.pc = se.then, !.wrote = Join(@, se.pend), !.pend = NoWrites]
  BY DEF Flush, TypeOK
<1> HIDE DEF se, fin
<1>3. /\ fin.pc = se.then /\ fin.ret = se.ret /\ fin.cur = se.cur /\ fin.todo = se.todo
      /\ fin.copy = se.copy /\ fin.pend = NoWrites
  BY <1>1, <1>2 DEF Session
<1>4. Target(fin) = Target(se) /\ Target(se) = se.then
  BY <1>1, <1>3 DEF Target
<1>5. \A k \in Keys : fin.pend.task[k] = {}
  BY <1>3 DEF NoWrites
<1>6. fin.pc # "idle" /\ CourseKept(fin)
  BY <1>1, <1>3, <1>4, <1>5 DEF CourseKept
<1>7. CASE Cancelling(se, db.task)
  BY <1>3, <1>4, <1>6, <1>7 DEF Cancelling, Stands, fin
<1>8. CASE Publishing(se, db.task)
  <2>1. \A k \in Keys : "insert" \in se.pend.task[k] =>
          ~db.task[k].deleted /\ db.task[k].status # "PUBLISHED"
    BY DEF Flush, Duplicate, CancelInv, se
  <2>2. \A k \in Keys : se.copy.task[k].deleted \in BOOLEAN /\ db.task[k].deleted \in BOOLEAN
    BY <1>1 DEF TypeOK, Session, Database, TaskRow
  <2>3. \A k \in Keys :
          /\ se.copy.task[k].deleted = db.task[k].deleted
          /\ db.task[k].status = "PUBLISHED" => se.copy.task[k].status = "PUBLISHED"
    BY <1>8, <2>1, <2>2 DEF Publishing
  <2>4. Publishing(fin, db.task)
    BY <1>3, <1>5, <1>8, <2>3 DEF Publishing
  <2> QED
    BY <1>6, <2>4 DEF Stands, fin
<1> QED
  BY <1>1, <1>7, <1>8

LEMMA ReturnStands ==
  ASSUME TypeOK, StrandInv, CancelInv, AloneInv, NEW s \in Sessions,
         NEW new \in Database, Returns(s, new)
  PROVE  Stands(sess'[s])
<1> DEFINE se == sess[s]
           fin == sess'[s]
           row == se.copy.task[se.cur]
           newRow == new.task[se.cur]
<1>1. /\ se \in Session /\ se.cur \in Keys /\ se.ret \in Pc /\ se.pc \in {"exec", "call"}
      /\ fin = Flushing(Edited(se, new), se.ret)
      /\ CourseKept(se) /\ QueueKept(se) /\ RowsSeen(se, db.task)
      /\ se.pc = "call" => row.status = "PUBLISHING"
  BY DEF Returns, TypeOK, Session, AloneInv, StrandInv, DispatchKept, CancelInv, RowsKept
<1>2. Publishing(se, db.task)
  BY <1>1, NotCancelling DEF Idle, Target
<1>3. ~row.deleted /\ se.ret \in {"due", "retry", "commit"}
  BY <1>1 DEF CourseKept, QueueKept, Target
<1>4. Steady(se.copy, new)
  <2>1. \A k \in Keys \ {se.cur} : new.task[k] = se.copy.task[k]
    BY DEF Returns
  <2>2. /\ newRow.deleted = row.deleted
        /\ row.status = "PUBLISHED" => newRow.status = "PUBLISHED"
    BY <1>1 DEF Returns
  <2> QED
    BY <1>3, <2>1, <2>2 DEF Steady
<1>5. /\ EditedTo(se, new, fin) /\ fin.then = se.ret /\ fin.ret = se.ret
      /\ fin.todo = se.todo
  BY <1>1, FlushingEdit
<1> HIDE DEF se, fin
<1>6. Publishing(fin, db.task) /\ \A k \in Keys : "insert" \notin fin.pend.task[k]
  BY <1>1, <1>2, <1>4, <1>5, SteadyEdit DEF EditedTo
<1>7. \A k \in fin.todo : ~fin.copy.task[k].deleted
  <2>1. se.todo \subseteq Keys
    BY <1>1 DEF Session
  <2> QED
    BY <1>1, <1>4, <1>5, <2>1 DEF CourseKept, Steady, EditedTo
<1>8. CourseKept(fin)
  BY <1>3, <1>5, <1>6, <1>7 DEF CourseKept, Target, EditedTo
<1> QED
  BY <1>5, <1>6, <1>8 DEF Stands, EditedTo, fin

LEMMA CallStands ==
  ASSUME TypeOK, StrandInv, CancelInv, AloneInv, NEW s \in Sessions, CallGateway(s)
  PROVE  Stands(sess'[s])
<1> DEFINE se == sess[s]
           fin == sess'[s]
           row == se.copy.task[se.cur]
<1>1. /\ se \in Session /\ se.cur \in Keys /\ row \in TaskRow /\ se.todo \subseteq Keys
      /\ CourseKept(se) /\ RowsSeen(se, db.task)
  BY DEF TypeOK, Session, Database, AloneInv, CancelInv, RowsKept
<1>2. PICK new \in Database :
        /\ se.pc = "exec" /\ row.status = "SCHEDULED"
        /\ AllApproved(se.copy, se.cur)
        /\ fin = [Edited(se, new) EXCEPT !.pc = "call"]
        /\ new.art = se.copy.art
        /\ \A k \in Keys \ {se.cur} : new.task[k] = se.copy.task[k]
        /\ new.task[se.cur] = [row EXCEPT !.status = "PUBLISHING", !.dispatched = TRUE]
  BY CallChanges DEF TypeOK
<1>3. Publishing(se, db.task)
  BY <1>2, NotCancelling DEF Idle, Target
<1> HIDE DEF se, fin
<1>4. /\ fin.pc = "call" /\ fin.copy = new /\ fin.pend = Edited(se, new).pend
      /\ fin.ret = se.ret /\ fin.cur = se.cur /\ fin.todo = se.todo
  BY <1>1, <1>2, EditedType, EditFields DEF Session
<1>5. new.task[se.cur].status = "PUBLISHING" /\ new.task[se.cur].deleted = row.deleted
  BY <1>1, <1>2 DEF TaskRow
<1>6. Steady(se.copy, new)
  BY <1>2, <1>5 DEF Steady
<1>7. Publishing(fin, db.task) /\ \A k \in Keys : "insert" \notin fin.pend.task[k]
  <2>1. se.pc # "flush" /\ RowsSeen(se, db.task) /\ se \in Session
    BY <1>1, <1>2
  <2> QED
    BY <1>3, <1>4, <1>6, <2>1, SteadyEdit
<1>8. AllApproved(fin.copy, fin.cur)
  BY <1>2, <1>4 DEF AllApproved
<1>9. CourseKept(fin)
  BY <1>1, <1>2, <1>4, <1>6, <1>7, <1>8 DEF CourseKept, Target, Steady
<1> QED
  BY <1>4, <1>7, <1>9 DEF Stands, fin

LEMMA TickStands ==
  ASSUME TypeOK, StrandInv, CancelInv, AloneInv,
         NEW s \in Sessions, NEW later \in SUBSET Keys, NEW k \in Keys,
         \/ StartTick(s) \/ WatchLogin(s, later) \/ PublishNext(s, k)
         \/ SelectRetries(s, later) \/ RetryNext(s, k) \/ AlertDeadLetters(s)
  PROVE  Stands(sess'[s])
<1> DEFINE se == sess[s]
           fin == sess'[s]
<1>0. /\ se \in Session /\ se.todo \subseteq Keys
      /\ CourseKept(se) /\ QueueKept(se) /\ RowsSeen(se, db.task)
      /\ \A j \in Keys : db.task[j].status = "PUBLISHED" => ~db.task[j].deleted
  BY DEF TypeOK, Session, AloneInv, StrandInv, CancelInv, RowsKept
<1>1. CASE StartTick(s)
  <2> DEFINE K == {j \in AutoKeys : /\ db.art[Lead[j]] = "APPROVED"
                                    /\ ~Live(db.task[j])}
  <2>1. K \in SUBSET Keys
    BY PipelineAssumption
  <2> HIDE DEF K
  <2>2. fin = Flushing(Inserted(Opened, K), "login")
    BY <1>1 DEF StartTick, K, TypeOK
  <2> HIDE DEF fin
  <2>3. /\ Adds(K, fin) /\ fin.then = "login" /\ fin.todo = {}
    BY <2>1, <2>2, InsertedFields DEF Adds, Pc
  <2>4. fin.wrote.art = {}
    BY <2>3 DEF Adds, NoWrites
  <2>5. CourseKept(fin)
    BY <2>3, <2>4 DEF CourseKept, Target, Adds
  <2>6. Publishing(fin, db.task)
    BY <1>0, <2>1, <2>3 DEF Publishing, Adds, NewTask, NoTask
  <2> QED
    BY <2>3, <2>5, <2>6 DEF Stands, Adds, fin
<1>2. ASSUME NEW new \in Database, Reopens(se.copy, new), EditedTo(se, new, fin),
             Target(se) # "commit", se.pc \notin {"idle", "flush"},
             fin.then \in {"due", "exec", "commit"},
             fin.then = "exec" => fin.ret # "idle" /\ ~new.task[fin.cur].deleted,
             \A j \in fin.todo : ~new.task[j].deleted
      PROVE  Stands(fin)
  <2>1. Publishing(se, db.task)
    BY <1>2, NotCancelling DEF Idle
  <2>2. Publishing(fin, db.task) /\ \A j \in Keys : "insert" \notin fin.pend.task[j]
    BY <1>0, <1>2, <2>1, SteadyEdit, ReopensSteady DEF EditedTo
  <2>3. CourseKept(fin)
    BY <1>2, <2>2 DEF CourseKept, Target, EditedTo
  <2> QED
    BY <1>2, <2>2, <2>3 DEF Stands, EditedTo
<1>3. CASE WatchLogin(s, later)
  <2>1. PICK new \in Database : Watches(s, new)
    BY <1>3, WatchChanges
  <2> QED
    BY <1>2, <2>1 DEF Watches, Target
<1>4. ASSUME se.pc = "due", fin.pc \in {"exec", "retry"},
             fin.copy = se.copy, fin.pend = se.pend, fin.wrote = se.wrote,
             fin.pc = "exec" => fin.ret # "idle" /\ ~se.copy.task[fin.cur].deleted,
             \A j \in fin.todo : ~se.copy.task[j].deleted
      PROVE  Stands(fin)
  <2>1. Publishing(se, db.task)
    BY <1>4, NotCancelling DEF Idle, Target
  <2>2. Publishing(fin, db.task)
    BY <1>4, <2>1 DEF Publishing
  <2>3. CourseKept(fin)
    BY <1>0, <1>4 DEF CourseKept, Target
  <2> QED
    BY <1>4, <2>2, <2>3 DEF Stands
<1>5. CASE PublishNext(s, k)
  <2>1. /\ se.pc = "due" /\ k \in se.todo
        /\ fin = [se EXCEPT !.pc = "exec", !.ret = "due", !.cur = k, !.todo = @ \ {k}]
    BY <1>5 DEF PublishNext, TypeOK
  <2>2. /\ fin.pc = "exec" /\ fin.ret = "due" /\ fin.cur = k /\ fin.todo = se.todo \ {k}
        /\ fin.copy = se.copy /\ fin.pend = se.pend /\ fin.wrote = se.wrote
    BY <1>0, <2>1 DEF Session
  <2>3. \A j \in se.todo : ~se.copy.task[j].deleted
    BY <1>0 DEF CourseKept
  <2> QED
    BY <1>4, <2>1, <2>2, <2>3
<1>6. CASE SelectRetries(s, later)
  <2> DEFINE X == RetryRows(se.copy, se.since, se.wrote) \ later
  <2>1. /\ se.pc = "due" /\ fin = [se EXCEPT !.pc = "retry", !.todo = X]
    BY <1>6 DEF SelectRetries, TypeOK
  <2>2. \A j \in X : ~se.copy.task[j].deleted
    BY DEF RetryRows, Live
  <2> HIDE DEF X
  <2>3. /\ fin.pc = "retry" /\ fin.todo = X
        /\ fin.copy = se.copy /\ fin.pend = se.pend /\ fin.wrote = se.wrote
    BY <1>0, <2>1 DEF Session
  <2> QED
    BY <1>4, <2>1, <2>2, <2>3
<1>7. CASE RetryNext(s, k)
  <2>1. PICK new \in Database : Retries(s, k, new)
    BY <1>0, <1>7, RetryChanges
  <2>2. \A j \in Keys : new.task[j].deleted = se.copy.task[j].deleted
    BY <2>1, ReopensSteady DEF Retries, Steady
  <2>3. \A j \in se.todo : ~se.copy.task[j].deleted
    BY <1>0 DEF CourseKept
  <2>4. \A j \in se.todo : ~new.task[j].deleted
    BY <1>0, <2>2, <2>3
  <2> QED
    BY <1>2, <2>1, <2>4 DEF Retries, Target
<1>8. CASE AlertDeadLetters(s)
  <2>1. PICK new \in Database : Alerts(s, new)
    BY <1>8, AlertChanges
  <2> QED
    BY <1>2, <2>1 DEF Alerts, Target
<1> QED
  BY <1>1, <1>3, <1>5, <1>6, <1>7, <1>8

LEMMA RequestStands ==
  ASSUME TypeOK, CancelInv, AloneInv, NEW s \in Sessions, NEW k \in Keys,
         StartCreate(s, k) \/ StartRetry(s, k) \/ StartCancel(s, k)
  PROVE  Stands(sess'[s])
<1> DEFINE fin == sess'[s]
<1> HIDE DEF fin
<1>0. \A j \in Keys : db.task[j].status = "PUBLISHED" => ~db.task[j].deleted
  BY DEF AloneInv
<1>1. CASE StartCreate(s, k)
  <2> DEFINE ins == Flushing(Inserted(Opened, {k}), "exec")
  <2>1. fin = [ins EXCEPT !.ret = "commit", !.cur = k]
    BY <1>1 DEF StartCreate, TypeOK, fin
  <2>2. ins \in Session /\ Adds({k}, ins) /\ ins.then = "exec" /\ ins.todo = {}
    BY InsertedFields DEF Adds, Pc
  <2> HIDE DEF ins
  <2>3. /\ fin.pc = ins.pc /\ fin.wrote = ins.wrote /\ fin.then = ins.then
        /\ fin.pend = ins.pend /\ fin.copy = ins.copy
        /\ fin.ret = "commit" /\ fin.cur = k /\ fin.todo = {}
    BY <2>1, <2>2 DEF Session
  <2>4. Adds({k}, fin) /\ fin.wrote.art = {} /\ ~NewTask.deleted
    BY <2>2, <2>3 DEF Adds, NoWrites, NewTask, NoTask
  <2>5. CourseKept(fin)
    BY <2>2, <2>3, <2>4 DEF CourseKept, Target, Adds
  <2>6. Publishing(fin, db.task)
    BY <1>0, <2>4 DEF Publishing, Adds, NewTask, NoTask
  <2> QED
    BY <2>4, <2>5, <2>6 DEF Stands, Adds, fin
<1>2. CASE StartRetry(s, k) \/ StartCancel(s, k)
  <2>1. PICK new \in Database : Asks(s, k, new)
    BY <1>2, RequestChanges
  <2>2. /\ Opened \in Session /\ Opened.pc = "idle" /\ Opened.copy = db
        /\ Opened.pend = NoWrites /\ RowsSeen(Opened, db.task)
    BY OpenedType, OpenedFields, OpenedRows DEF RowsKept
  <2>3. EditedTo(Opened, new, fin) /\ fin.todo = {}
    BY <2>1 DEF Asks, fin
  <2>4. \A j \in Keys : "insert" \notin fin.pend.task[j]
    BY <2>2, <2>3, EditInserts DEF EditedTo, NoWrites
  <2>5. CASE Reopens(db, new) /\ ~new.task[k].deleted
               /\ fin.then = "exec" /\ fin.ret = "commit" /\ fin.cur = k
    <3>1. Publishing(fin, db.task)
      BY <2>2, <2>3, <2>5, SteadyEdit, ReopensSteady, OpenedPublishing DEF EditedTo
    <3>2. CourseKept(fin)
      BY <2>3, <2>4, <2>5 DEF CourseKept, Target, EditedTo
    <3> QED
      BY <2>3, <3>1, <3>2 DEF Stands, EditedTo, fin
  <2>6. CASE Withdraws(k, db, new) /\ fin.then = "commit" /\ fin.ret = "idle"
    <3>1. Cancelling(fin, db.task)
      BY <2>3, <2>6 DEF Cancelling, Withdraws, Target, EditedTo
    <3>2. CourseKept(fin)
      BY <2>3, <2>4, <2>6 DEF CourseKept, Target, EditedTo
    <3> QED
      BY <2>3, <3>1, <3>2 DEF Stands, EditedTo, fin
  <2> QED
    BY <2>1, <2>5, <2>6 DEF Asks, fin
<1> QED
  BY <1>1, <1>2

LEMMA ProceedsStands ==
  ASSUME TypeOK, StrandInv, CancelInv, AloneInv, NEW s \in Sessions, Proceeds(s)
  PROVE  Stands(sess'[s])
<1>1. CASE Flush(s)
  BY <1>1, FlushStands
<1>2. CASE CallGateway(s)
  BY <1>2, CallStands
<1>3. CASE \/ RefuseUnapproved(s) \/ SuspendForLogin(s)
           \/ PublishSucceeds(s) \/ PublishFails(s) \/ LoginLost(s)
  <2>1. \E new \in Database : Returns(s, new)
    BY <1>3, ExecuteReturns DEF StrandInv
  <2> QED
    BY <2>1, ReturnStands
<1>4. CASE \E later \in SUBSET Keys, k \in Keys :
             \/ StartTick(s) \/ WatchLogin(s, later) \/ PublishNext(s, k)
             \/ SelectRetries(s, later) \/ RetryNext(s, k) \/ AlertDeadLetters(s)
  BY <1>4, TickStands
<1>5. CASE Request(s)
  BY <1>5, RequestStands DEF Request
<1>6. {} \in SUBSET Keys /\ \E k \in Keys : TRUE
  BY PipelineAssumption
<1> QED
  BY <1>1, <1>2, <1>3, <1>4, <1>5, <1>6 DEF Proceeds

-----------------------------------------------------------------------------
(* What is online is marked *)

\* Where the marks are: in the tables, or with the session under way.
Marks(s) == IF Idle(s) THEN db.art ELSE sess[s].copy.art

LEMMA MarkedOnce ==
  OnlineMarked <=>
    \A x \in Articles :
      /\ posts[x] <= 1
      /\ posts[x] > 0 => \A s \in Sessions : Marks(s)[x] = "DRAFT_CREATED"
BY DEF OnlineMarked, Marks

\* Without faults only a success puts articles online.
LEMMA PostsChange ==
  ASSUME Undisturbed, NEW s \in Sessions, Proceeds(s)
  PROVE  PublishSucceeds(s) \/ posts' = posts
BY DEF Undisturbed, Proceeds, Flush, RefuseUnapproved, SuspendForLogin, CallGateway,
       LoginLost, PublishFails, WatchLogin, SelectRetries, PublishNext, RetryNext,
       AlertDeadLetters, StartTick, Request, StartCreate, StartRetry, StartCancel

\* A session takes no mark away.
LEMMA MarksStay ==
  ASSUME TypeOK, StrandInv, NEW s \in Sessions, Proceeds(s), NEW x \in Articles,
         Marks(s)[x] = "DRAFT_CREATED"
  PROVE  sess'[s].copy.art[x] = "DRAFT_CREATED"
<1> DEFINE se == sess[s]
           fin == sess'[s]
<1>1. CASE Flushed(s, se, fin) \/ Kept(se, fin)
  BY <1>1 DEF Flushed, Kept, Marks, Idle
<1>2. ASSUME ~Idle(s), NEW new \in Database, Edits(se, new, fin), Plain(se, new)
      PROVE  fin.copy.art[x] = "DRAFT_CREATED"
  BY <1>2 DEF Edits, Plain, Marks
<1>3. ASSUME NEW new \in Database, Edits(se, new, fin), Reports(s, new)
      PROVE  fin.copy.art[x] = "DRAFT_CREATED"
  BY <1>3 DEF Edits, Reports, Drafted, PublishSucceeds, Marks, Idle
<1>4. ASSUME Idle(s), NEW new \in Database, Edits(Opened, new, fin), Plain(Opened, new)
      PROVE  fin.copy.art[x] = "DRAFT_CREATED"
  BY <1>4, OpenedFields DEF Edits, Plain, Marks
<1>5. ASSUME Idle(s), NEW K \in SUBSET Keys, Adds(K, fin)
      PROVE  fin.copy.art[x] = "DRAFT_CREATED"
  BY <1>5 DEF Adds, Marks
<1> QED
  BY <1>1, <1>2, <1>3, <1>4, <1>5, ProceedsCase DEF Case

\* A success puts online what was not online, and marks it.
LEMMA SuccessDelivers ==
  ASSUME TypeOK, StrandInv, AloneInv, NEW s \in Sessions, PublishSucceeds(s)
  PROVE  /\ sess[s].cur \in Keys
         /\ \A x \in Delivered(sess[s].cur) :
              /\ x \in Articles /\ posts[x] = 0
              /\ sess'[s].copy.art[x] = "DRAFT_CREATED"
         /\ \A x \in Articles :
              posts'[x] = IF x \in Delivered(sess[s].cur) THEN 1 ELSE posts[x]
<1> DEFINE se == sess[s]
<1>1. /\ se.pc = "call" /\ Post(Delivered(se.cur)) /\ Proceeds(s)
      /\ se \in Session /\ se.cur \in Keys /\ posts \in [Articles -> Nat]
      /\ CourseKept(se) /\ OnlineMarked
  BY DEF PublishSucceeds, Proceeds, TypeOK, Session, AloneInv
<1>2. Delivered(se.cur) \subseteq Content[se.cur] /\ Content[se.cur] \subseteq Articles
  BY <1>1, ContentAssumption DEF Delivered
<1>3. \A x \in Content[se.cur] : se.copy.art[x] = "APPROVED"
  BY <1>1 DEF CourseKept, AllApproved
<1>4. \A x \in Content[se.cur] : posts[x] = 0
  BY <1>1, <1>2, <1>3 DEF OnlineMarked, Idle
<1> DEFINE new == [se.copy EXCEPT
                       !.task[se.cur] = [@ EXCEPT !.status = "PUBLISHED",
                                                  !.err = "NONE", !.next = FALSE],
                       !.art = Drafted(@, se.cur)]
<1>5. sess'[s].copy.art = Drafted(se.copy.art, se.cur)
  <2>1. sess'[s] = Flushing(Edited(se, new), se.ret)
    BY DEF PublishSucceeds, TypeOK
  <2>2. se.copy \in Database /\ new.art = Drafted(se.copy.art, se.cur)
    BY <1>1 DEF Session, Database
  <2> HIDE DEF new, se
  <2>3. Flushing(Edited(se, new), se.ret).copy = new
    BY <1>1 DEF Flushing, Edited, Session
  <2> QED
    BY <2>1, <2>2, <2>3 DEF se
<1>6. \A x \in Content[se.cur] : sess'[s].copy.art[x] = "DRAFT_CREATED"
  BY <1>2, <1>5 DEF Drafted
<1>7. \A x \in Articles :
        posts'[x] = IF x \in Delivered(se.cur) THEN posts[x] + 1 ELSE posts[x]
  BY <1>1 DEF Post
<1> QED
  BY <1>1, <1>2, <1>4, <1>6, <1>7

-----------------------------------------------------------------------------
(* AtMostOnce *)

\* Alone, a session is aborted by a unique key only.
LEMMA AloneCases ==
  ASSUME Undisturbed, [Next]_vars
  PROVE  \/ \E s \in Sessions : Proceeds(s) \/ Commit(s) \/ UniqueViolation(s)
         \/ Environment \/ UNCHANGED vars
BY DEF Undisturbed, Next, Step, Proceeds, Crash, LockWaitAborted, Blocked, Sessions

LEMMA NoSessionAlone ==
  NoSession.pc = "idle" /\ CourseKept(NoSession)
BY DEF NoSession, CourseKept, Target, NoWrites

\* A session that ends with its marks in the tables.
LEMMA EndedAlone ==
  ASSUME Undisturbed, AloneInv, NEW s \in Sessions, sess'[s] = NoSession, posts' = posts,
         \A x \in Articles : Marks(s)[x] = "DRAFT_CREATED" => db'.art[x] = "DRAFT_CREATED",
         \A k \in Keys : db'.task[k].status = "PUBLISHED" => ~db'.task[k].deleted
  PROVE  AloneInv'
<1>1. \A o \in Sessions : o = s
  BY DEF Undisturbed
<1>2. OnlineMarked'
  BY <1>1, MarkedOnce, NoSessionAlone DEF AloneInv, OnlineMarked, Idle
<1> QED
  BY <1>1, <1>2, NoSessionAlone DEF AloneInv, Idle

LEMMA ProceedsAlone ==
  ASSUME Undisturbed, TypeOK, StrandInv, CancelInv, AloneInv,
         NEW s \in Sessions, Proceeds(s)
  PROVE  AloneInv'
<1>1. Stands(sess'[s]) /\ db' = db /\ \A o \in Sessions : o = s
  BY ProceedsStands, ProceedsFrame DEF Undisturbed
<1>2. ASSUME NEW x \in Articles
      PROVE  /\ posts'[x] <= 1
             /\ posts'[x] > 0 => sess'[s].copy.art[x] = "DRAFT_CREATED"
  <2>1. /\ posts[x] <= 1
        /\ posts[x] > 0 => sess'[s].copy.art[x] = "DRAFT_CREATED"
    BY MarkedOnce, MarksStay DEF AloneInv
  <2>2. CASE posts' = posts
    BY <2>1, <2>2
  <2>3. CASE PublishSucceeds(s)
    BY <2>1, <2>3, SuccessDelivers
  <2> QED
    BY <2>2, <2>3, PostsChange
<1>3. OnlineMarked'
  BY <1>1, <1>2 DEF OnlineMarked, Idle, Stands
<1> QED
  BY <1>1, <1>3 DEF AloneInv, Stands

\* What a commit does to a row, of a session that publishes and of one that cancels.
LEMMA CommitAlone ==
  ASSUME TypeOK, CancelInv, AloneInv, NEW s \in Sessions, Commit(s)
  PROVE  \/ \A k \in Keys :
              /\ db'.task[k].deleted = db.task[k].deleted
              /\ db.task[k].status = "PUBLISHED" => db'.task[k].status = "PUBLISHED"
              /\ db'.task[k].status = "PUBLISHED" => ~db'.task[k].deleted
         \/ \E k \in Keys :
              /\ db.task[k].status = "SCHEDULED" /\ db'.task[k].status = "SCHEDULED"
              /\ \A j \in Keys \ {k} : /\ db'.task[j].status = db.task[j].status
                                       /\ db'.task[j].deleted = db.task[j].deleted
<1> DEFINE se == sess[s]
<1>1. /\ se.pc = "commit" /\ RowsSeen(se, db.task)
      /\ \A k \in Keys : db.task[k].status = "PUBLISHED" => ~db.task[k].deleted
      /\ Publishing(se, db.task) \/ Cancelling(se, db.task)
  BY DEF Commit, CancelInv, RowsKept, AloneInv, Idle
<1>2. "status" \in TaskCols /\ "deleted" \in TaskCols
  BY DEF TaskCols
<1>3. \A k \in Keys :
        /\ db'.task[k].status = IF "status" \in se.wrote.task[k]
                                  THEN se.copy.task[k].status ELSE db.task[k].status
        /\ db'.task[k].deleted = IF "deleted" \in se.wrote.task[k]
                                   THEN se.copy.task[k].deleted ELSE db.task[k].deleted
  BY <1>2, CommitChanges
<1> HIDE DEF se
<1>4. \A k \in Keys : "insert" \notin se.pend.task[k]
  BY <1>1 DEF RowsSeen
<1>5. CASE Publishing(se, db.task)
  BY <1>1, <1>3, <1>4, <1>5 DEF Publishing
<1>6. CASE Cancelling(se, db.task)
  BY <1>3, <1>6 DEF Cancelling
<1> QED
  BY <1>1, <1>5, <1>6

LEMMA AloneStep ==
  ASSUME Undisturbed, TypeOK, StrandInv, CancelInv, TruthInv, AloneInv, [Next]_vars
  PROVE  AloneInv'
<1>0. /\ \A k \in Keys : db.task[k].status = "PUBLISHED" => ~db.task[k].deleted
      /\ OnlineMarked
      /\ \A s \in Sessions : CourseKept(sess[s]) /\ MarksKept(sess[s], db.art)
  BY DEF AloneInv, TruthInv
<1>1. ASSUME NEW s \in Sessions, Proceeds(s)
      PROVE  AloneInv'
  BY <1>1, ProceedsAlone
<1>2. ASSUME NEW s \in Sessions, Commit(s)
      PROVE  AloneInv'
  <2>1. sess[s].pc = "commit" /\ sess'[s] = NoSession /\ posts' = posts
    BY <1>2, CommitChanges
  <2>2. ASSUME NEW x \in Articles, Marks(s)[x] = "DRAFT_CREATED"
        PROVE  db'.art[x] = "DRAFT_CREATED"
    <3>1. sess[s].copy.art[x] = "DRAFT_CREATED"
      BY <2>1, <2>2 DEF Marks, Idle
    <3>2. x \in sess[s].wrote.art \/ db.art[x] = "DRAFT_CREATED"
      BY <1>0, <2>1, <3>1 DEF MarksKept, Undisturbed
    <3> QED
      BY <1>2, <3>1, <3>2, CommitChanges
  <2>3. \A k \in Keys : db'.task[k].status = "PUBLISHED" => ~db'.task[k].deleted
    <3>1. ASSUME NEW k \in Keys, db'.task[k].status = "SCHEDULED",
                 \A j \in Keys \ {k} : /\ db'.task[j].status = db.task[j].status
                                       /\ db'.task[j].deleted = db.task[j].deleted
          PROVE  \A j \in Keys : db'.task[j].status = "PUBLISHED" => ~db'.task[j].deleted
      BY <1>0, <3>1
    <3> QED
      BY <1>2, <3>1, CommitAlone
  <2> QED
    BY <2>1, <2>2, <2>3, EndedAlone
<1>3. ASSUME NEW s \in Sessions, UniqueViolation(s)
      PROVE  AloneInv'
  <2>1. Abort(s) /\ sess[s].pc = "flush"
    BY <1>3 DEF UniqueViolation
  <2>2. sess'[s] = NoSession /\ db' = db /\ posts' = posts
    BY <2>1, AbortChanges
  <2>3. sess[s].pend.art = {} /\ sess[s].wrote.art = {}
    BY <1>0, <1>3 DEF UniqueViolation, Duplicate, CourseKept
  <2>4. \A x \in Articles :
          Marks(s)[x] = "DRAFT_CREATED" => db.art[x] = "DRAFT_CREATED"
    BY <1>0, <2>1, <2>3 DEF Marks, Idle, MarksKept, Undisturbed
  <2> QED
    BY <1>0, <2>2, <2>4, EndedAlone
<1>4. CASE Environment
  <2>1. /\ sess' = sess /\ posts' = posts /\ db'.task = db.task
        /\ \A x \in Articles : db.art[x] = "DRAFT_CREATED" => db'.art[x] = "DRAFT_CREATED"
    BY <1>4, EnvironmentChanges, MarksOutlast DEF TruthInv, Undisturbed
  <2>2. OnlineMarked'
    BY <1>0, <2>1 DEF OnlineMarked, Idle
  <2> QED
    BY <2>1, <2>2 DEF AloneInv, Idle
<1>5. CASE UNCHANGED vars
  <2>1. sess' = sess /\ posts' = posts /\ db' = db
    BY <1>5 DEF vars
  <2>2. OnlineMarked'
    BY <1>0, <2>1 DEF OnlineMarked, Idle
  <2> QED
    BY <2>1, <2>2 DEF AloneInv, Idle
<1> QED
  BY <1>1, <1>2, <1>3, <1>4, <1>5, AloneCases

LEMMA AloneInvariant ==
  ASSUME Undisturbed
  PROVE  Spec => []AloneInv
<1>1. Init => AloneInv
  <2> SUFFICES ASSUME Init PROVE AloneInv
    OBVIOUS
  <2>1. \A k \in Keys : db.task[k].status # "PUBLISHED"
    BY DEF Init, NewDatabase, NoTask
  <2>2. OnlineMarked
    BY DEF Init, OnlineMarked
  <2>3. \A s \in Sessions : sess[s] = NoSession
    BY DEF Init
  <2> QED
    BY <2>1, <2>2, <2>3, NoSessionAlone DEF AloneInv, Idle
<1>2. TypeOK /\ StrandInv /\ CancelInv /\ TruthInv /\ AloneInv /\ [Next]_vars => AloneInv'
  BY AloneStep
<1> QED
  BY <1>1, <1>2, TypeCorrect, StrandInvariant, CancelInvariant, TruthInvariant, PTL
  DEF Spec

\* While neither operations nor the reviews of an article overlap, no process
\* dies and no success looks like a failure, no article goes online twice:
\* whatever is retried, resumed, cancelled, created anew or delivered to the
\* account as part of a group, an article that is online is not APPROVED for
\* the session that would publish it again.
THEOREM PublishedOnce ==
  ASSUME Undisturbed
  PROVE  Spec => []AtMostOnce
<1>1. AloneInv => AtMostOnce
  BY DEF AloneInv, OnlineMarked, AtMostOnce
<1> QED
  BY <1>1, AloneInvariant, PTL

-----------------------------------------------------------------------------
(* KeepsPromise *)

Reported == {k \in Keys : db.task[k].status = "PUBLISHED"}
Withdrawn == {k \in Keys : db.task[k].deleted}

LEMMA DeliverStep ==
  ASSUME TypeOK, StrandInv, CancelInv, AloneInv, NEW s \in Sessions, PublishSucceeds(s)
  PROVE  Promise!PromiseNext
<1> DEFINE se == sess[s]
<1>1. /\ se.pc = "call" /\ db' = db /\ se.cur \in Keys
      /\ posts' = [x \in Articles |->
                     IF x \in Delivered(se.cur) THEN posts[x] + 1 ELSE posts[x]]
  BY SuccessDelivers DEF PublishSucceeds, Post
<1>2. ~db.task[se.cur].deleted
  <2>1. /\ CourseKept(se) /\ RowsSeen(se, db.task) /\ Publishing(se, db.task)
    BY <1>1, NotCancelling DEF AloneInv, CancelInv, RowsKept, Idle, Target
  <2>2. ~se.copy.task[se.cur].deleted /\ "insert" \notin se.pend.task[se.cur]
    BY <1>1, <2>1 DEF CourseKept, RowsSeen, Target
  <2> QED
    BY <1>1, <2>1, <2>2 DEF Publishing
<1>3. posts' = [x \in Articles |-> IF x \in Delivered(se.cur) THEN 1 ELSE posts[x]]
  BY <1>1, SuccessDelivers
<1>4. \A x \in Delivered(se.cur) : posts[x] = 0
  BY SuccessDelivers
<1> HIDE DEF se
<1>5. Promise!Deliver(se.cur)
  BY <1>1, <1>2, <1>3, <1>4 DEF Promise!Deliver
<1> QED
  BY <1>1, <1>5 DEF Promise!PromiseNext

LEMMA CommitKeepsPromise ==
  ASSUME TypeOK, CancelInv, TruthInv, AloneInv, AloneInv', NEW s \in Sessions, Commit(s)
  PROVE  Promise!PromiseNext \/ UNCHANGED Promise!promiseVars
<1>0. posts' = posts /\ PublishedIsTrue' /\ posts \in [Articles -> Nat]
  BY CommitChanges, CommitTruth DEF TypeOK
<1>1. CASE \A k \in Keys :
              /\ db'.task[k].deleted = db.task[k].deleted
              /\ db.task[k].status = "PUBLISHED" => db'.task[k].status = "PUBLISHED"
              /\ db'.task[k].status = "PUBLISHED" => ~db'.task[k].deleted
  <2>1. Withdrawn' = Withdrawn /\ Reported \cup Reported' = Reported'
    BY <1>1 DEF Withdrawn, Reported
  <2>2. Reported' \cap Withdrawn = {}
    BY <1>1 DEF Withdrawn, Reported
  <2>3. \A k \in Reported' : \A x \in Delivered(k) : posts[x] = 1
    <3>1. \A k \in Keys : Delivered(k) \subseteq Articles
      BY ContentAssumption DEF Delivered
    <3>2. \A x \in Articles : posts[x] \in Nat /\ posts[x] <= 1
      BY <1>0 DEF AloneInv, OnlineMarked
    <3>3. \A k \in Reported' : k \in Keys /\ \A x \in Delivered(k) : posts[x] > 0
      BY <1>0 DEF PublishedIsTrue, Reported
    <3>4. ASSUME NEW k \in Reported', NEW x \in Delivered(k)
          PROVE  posts[x] = 1
      <4>1. x \in Articles /\ posts[x] > 0
        BY <3>1, <3>3, <3>4
      <4> QED
        BY <3>2, <4>1
    <3> QED
      BY <3>4
  <2>4. PICK K \in SUBSET Keys : K = Reported'
    BY DEF Reported
  <2>5. Promise!Report(K)
    BY <1>0, <2>1, <2>2, <2>3, <2>4 DEF Promise!Report, Reported, Withdrawn
  <2> QED
    BY <2>5 DEF Promise!PromiseNext
<1>2. ASSUME NEW k \in Keys,
             db.task[k].status = "SCHEDULED", db'.task[k].status = "SCHEDULED",
             \A j \in Keys \ {k} : /\ db'.task[j].status = db.task[j].status
                                   /\ db'.task[j].deleted = db.task[j].deleted
      PROVE  Promise!PromiseNext \/ UNCHANGED Promise!promiseVars
  <2>1. Reported' = Reported /\ k \notin Reported
    BY <1>2 DEF Reported
  <2>2. db.task[k].deleted => db'.task[k].deleted
    BY CommitRows
  <2>3. Withdrawn' = Withdrawn \/ Withdrawn' = Withdrawn \cup {k}
    BY <1>2, <2>2 DEF Withdrawn
  <2>4. CASE Withdrawn' = Withdrawn
    BY <1>0, <2>1, <2>4 DEF Promise!promiseVars, Reported, Withdrawn
  <2>5. CASE Withdrawn' = Withdrawn \cup {k}
    BY <1>0, <2>1, <2>5 DEF Promise!PromiseNext, Promise!Withdraw, Reported, Withdrawn
  <2> QED
    BY <2>3, <2>4, <2>5
<1> QED
  BY <1>1, <1>2, CommitAlone

LEMMA PromiseStep ==
  ASSUME Undisturbed, TypeOK, StrandInv, CancelInv, TruthInv, AloneInv, AloneInv',
         [Next]_vars
  PROVE  Promise!PromiseNext \/ UNCHANGED Promise!promiseVars
<1>1. ASSUME db'.task = db.task, posts' = posts
      PROVE  UNCHANGED Promise!promiseVars
  BY <1>1 DEF Promise!promiseVars
<1>2. ASSUME NEW s \in Sessions, Proceeds(s)
      PROVE  Promise!PromiseNext \/ UNCHANGED Promise!promiseVars
  BY <1>1, <1>2, PostsChange, ProceedsFrame, DeliverStep
<1>3. ASSUME NEW s \in Sessions, Commit(s)
      PROVE  Promise!PromiseNext \/ UNCHANGED Promise!promiseVars
  BY <1>3, CommitKeepsPromise
<1>4. ASSUME NEW s \in Sessions, UniqueViolation(s)
      PROVE  UNCHANGED Promise!promiseVars
  BY <1>1, <1>4, AbortChanges DEF UniqueViolation
<1>5. CASE Environment
  BY <1>1, <1>5, EnvironmentChanges
<1>6. CASE UNCHANGED vars
  BY <1>1, <1>6 DEF vars
<1> QED
  BY <1>2, <1>3, <1>4, <1>5, <1>6, AloneCases

\* Under the same conditions the pipeline does no more than it promises: it puts
\* the articles of a task online at most once and never after the task was
\* cancelled, and reports PUBLISHED after that, for good.
THEOREM PromiseKept ==
  ASSUME Undisturbed
  PROVE  Spec => KeepsPromise
<1>1. Init => Promise!PromiseInit
  BY DEF Init, Promise!PromiseInit, NewDatabase, NoTask
<1>2. /\ TypeOK /\ StrandInv /\ CancelInv /\ TruthInv /\ AloneInv /\ AloneInv'
      /\ [Next]_vars
      => [Promise!PromiseNext]_Promise!promiseVars
  BY PromiseStep
<1> QED
  BY <1>1, <1>2, TypeCorrect, StrandInvariant, CancelInvariant, TruthInvariant,
     AloneInvariant, PTL DEF Spec, KeepsPromise, Promise!PromiseSpec
-----------------------------------------------------------------------------
(* LossCostsNoRetry *)

\* What an edit of a tick leaves of the rows: the counts of the retries, and no
\* backoff where the login is awaited.
Frugal(old, new) ==
  \A k \in Keys :
    /\ new.task[k].retries = old.task[k].retries
    /\ NoBackoff(old.task[k]) => NoBackoff(new.task[k])

\* The last argument of Failed says whether a backoff is set.
LEMMA FailedFrugal ==
  ASSUME NEW row \in TaskRow, NEW err \in ErrCodes, NEW b \in BOOLEAN,
         err = "WX_AUTH_EXPIRED" => ~b
  PROVE  /\ Failed(row, err, b).retries = row.retries
         /\ NoBackoff(Failed(row, err, b))
<1> DEFINE new == Failed(row, err, b)
<1>1. /\ new.retries = row.retries /\ new.err = err
      /\ new.next = (b /\ row.retries < MaxRetry)
  BY DEF Failed, TaskRow
<1> HIDE DEF new
<1> QED BY <1>1 DEF NoBackoff, new

\* Neither way back to SCHEDULED leaves a backoff; only one of them counts.
LEMMA ReopenedFrugal ==
  ASSUME NEW row \in TaskRow
  PROVE  /\ Resumed(row).retries = row.retries
         /\ NoBackoff(Resumed(row)) /\ NoBackoff(Resubmitted(row))
<1>1. Resumed(row).retries = row.retries /\ ~Resumed(row).next /\ ~Resubmitted(row).next
  BY DEF Resumed, Resubmitted, TaskRow
<1> QED BY <1>1 DEF NoBackoff

\* The edits of execute_publish.
LEMMA ExecuteFrugal ==
  ASSUME TypeOK, NEW s \in Sessions,
         \/ RefuseUnapproved(s) \/ SuspendForLogin(s) \/ CallGateway(s)
         \/ PublishSucceeds(s) \/ PublishFails(s) \/ LoginLost(s)
  PROVE  \E new \in Database :
           /\ Frugal(sess[s].copy, new)
           /\ sess'[s].copy = new /\ sess'[s].wrote = sess[s].wrote
           /\ sess'[s].pend = Edited(sess[s], new).pend
           /\ sess'[s].pc \in {"flush", "call"}
           /\ sess'[s].pc = "flush" => sess'[s].then = sess[s].ret
           /\ sess'[s].ret = sess[s].ret /\ sess'[s].todo = sess[s].todo
<1> DEFINE se == sess[s]
           row == se.copy.task[se.cur]
           Became(new) ==
             /\ new \in Database /\ Frugal(se.copy, new)
             /\ sess'[s].copy = new /\ sess'[s].wrote = se.wrote
             /\ sess'[s].pend = Edited(se, new).pend
             /\ sess'[s].pc \in {"flush", "call"}
             /\ sess'[s].pc = "flush" => sess'[s].then = se.ret
             /\ sess'[s].ret = se.ret /\ sess'[s].todo = se.todo
<1>1. /\ se \in Session /\ se.copy \in Database /\ se.cur \in Keys /\ se.ret \in Pc
      /\ se.copy.mp \in MpRow /\ row \in TaskRow
      /\ Downgraded(se.copy.mp) \in MpRow
  BY DowngradedType DEF TypeOK, Session, Database
<1>2. ASSUME NEW new \in Database,
             sess'[s] = Flushing(Edited(se, new), se.ret), Frugal(se.copy, new)
      PROVE  Became(new)
  BY <1>1, <1>2, FlushingEdit DEF EditedTo
<1>3. ASSUME NEW new,
             \A k \in Keys \ {se.cur} : new.task[k] = se.copy.task[k],
             new.task[se.cur].retries = row.retries,
             NoBackoff(row) => NoBackoff(new.task[se.cur])
      PROVE  Frugal(se.copy, new)
  BY <1>3 DEF Frugal
<1>4. CASE RefuseUnapproved(s)
  <2> DEFINE newRow == Failed(row, "NONE", FALSE)
             new == [se.copy EXCEPT !.task[se.cur] = Failed(@, "NONE", FALSE)]
  <2>1. sess'[s] = Flushing(Edited(se, new), se.ret)
    BY <1>4 DEF RefuseUnapproved, TypeOK
  <2>2. /\ newRow \in TaskRow /\ newRow.retries = row.retries /\ NoBackoff(newRow)
    BY <1>1, FailedRow, FailedFrugal DEF ErrCodes
  <2> HIDE DEF se, newRow
  <2>3. /\ new \in Database /\ new.task[se.cur] = newRow
        /\ \A k \in Keys \ {se.cur} : new.task[k] = se.copy.task[k]
    BY <1>1, <2>2 DEF Database, newRow
  <2> HIDE DEF new
  <2>4. Became(new)
    BY <1>2, <1>3, <2>1, <2>2, <2>3
  <2> QED BY <2>4 DEF se
<1>5. CASE SuspendForLogin(s)
  <2> DEFINE newRow == [row EXCEPT !.err = "WX_AUTH_EXPIRED"]
             new == [se.copy EXCEPT !.task[se.cur].err = "WX_AUTH_EXPIRED",
                                    !.mp = Downgraded(@)]
  <2>1. row.status = "SCHEDULED" /\ sess'[s] = Flushing(Edited(se, new), se.ret)
    BY <1>5 DEF SuspendForLogin, Executing, TypeOK
  <2>2. /\ newRow \in TaskRow /\ newRow.retries = row.retries
        /\ newRow.status = row.status
    BY <1>1 DEF TaskRow, ErrCodes
  <2> HIDE DEF se
  <2>3. /\ new \in Database /\ new.task[se.cur] = newRow
        /\ \A k \in Keys \ {se.cur} : new.task[k] = se.copy.task[k]
    BY <1>1, <2>2 DEF Database
  <2> HIDE DEF new, newRow
  <2>4. NoBackoff(newRow)
    BY <2>1, <2>2 DEF NoBackoff
  <2>5. Became(new)
    BY <1>2, <1>3, <2>1, <2>2, <2>3, <2>4
  <2> QED BY <2>5 DEF se
<1>6. CASE CallGateway(s)
  <2> DEFINE newRow == [row EXCEPT !.status = "PUBLISHING", !.dispatched = TRUE]
             new == [se.copy EXCEPT !.task[se.cur].status = "PUBLISHING",
                                    !.task[se.cur].dispatched = TRUE]
  <2>1. sess'[s] = [Edited(se, new) EXCEPT !.pc = "call"]
    BY <1>6 DEF CallGateway, TypeOK
  <2>2. /\ newRow \in TaskRow /\ newRow.retries = row.retries
        /\ newRow.status = "PUBLISHING"
    BY <1>1 DEF TaskRow, TaskStatus
  <2> HIDE DEF se
  <2>3. /\ new \in Database /\ new.task[se.cur] = newRow
        /\ \A k \in Keys \ {se.cur} : new.task[k] = se.copy.task[k]
    BY <1>1, <2>2 DEF Database
  <2> HIDE DEF new, newRow
  <2>4. NoBackoff(newRow)
    BY <2>2 DEF NoBackoff
  <2>5. Frugal(se.copy, new)
    BY <1>3, <2>2, <2>3, <2>4
  <2>6. Became(new)
    BY <1>1, <2>1, <2>3, <2>5, EditedType, EditFields DEF Session
  <2> QED BY <2>6 DEF se
<1>7. CASE PublishSucceeds(s)
  <2> DEFINE newRow == [row EXCEPT !.status = "PUBLISHED", !.err = "NONE", !.next = FALSE]
             new == [se.copy EXCEPT
                       !.task[se.cur] = [@ EXCEPT !.status = "PUBLISHED",
                                                  !.err = "NONE", !.next = FALSE],
                       !.art = Drafted(@, se.cur)]
  <2>1. sess'[s] = Flushing(Edited(se, new), se.ret)
    BY <1>7 DEF PublishSucceeds, TypeOK
  <2>2. /\ newRow \in TaskRow /\ newRow.retries = row.retries
        /\ newRow.status = "PUBLISHED"
    BY <1>1 DEF TaskRow, ErrCodes, TaskStatus
  <2>3. Drafted(se.copy.art, se.cur) \in [Articles -> ArticleStatus]
    BY <1>1 DEF Drafted, Database, ArticleStatus
  <2> HIDE DEF se
  <2>4. /\ new \in Database /\ new.task[se.cur] = newRow
        /\ \A k \in Keys \ {se.cur} : new.task[k] = se.copy.task[k]
    BY <1>1, <2>2, <2>3 DEF Database
  <2> HIDE DEF new, newRow
  <2>5. NoBackoff(newRow)
    BY <2>2 DEF NoBackoff
  <2>6. Became(new)
    BY <1>2, <1>3, <2>1, <2>2, <2>4, <2>5
  <2> QED BY <2>6 DEF se
<1>8. CASE PublishFails(s)
  <2> DEFINE newRow == Failed(row, "OTHER", TRUE)
             new == [se.copy EXCEPT !.task[se.cur] = Failed(@, "OTHER", TRUE)]
  <2>1. sess'[s] = Flushing(Edited(se, new), se.ret)
    BY <1>8 DEF PublishFails, TypeOK
  <2>2. /\ newRow \in TaskRow /\ newRow.retries = row.retries /\ NoBackoff(newRow)
    BY <1>1, FailedRow, FailedFrugal DEF ErrCodes
  <2> HIDE DEF se, newRow
  <2>3. /\ new \in Database /\ new.task[se.cur] = newRow
        /\ \A k \in Keys \ {se.cur} : new.task[k] = se.copy.task[k]
    BY <1>1, <2>2 DEF Database, newRow
  <2> HIDE DEF new
  <2>4. Became(new)
    BY <1>2, <1>3, <2>1, <2>2, <2>3
  <2> QED BY <2>4 DEF se
<1>9. CASE LoginLost(s)
  <2> DEFINE newRow == Failed(row, "WX_AUTH_EXPIRED", FALSE)
             new == [se.copy EXCEPT
                       !.task[se.cur] = Failed(@, "WX_AUTH_EXPIRED", FALSE),
                       !.mp = Downgraded(@)]
  <2>1. sess'[s] = Flushing(Edited(se, new), se.ret)
    BY <1>9 DEF LoginLost, TypeOK
  <2>2. /\ newRow \in TaskRow /\ newRow.retries = row.retries /\ NoBackoff(newRow)
    BY <1>1, FailedRow, FailedFrugal DEF ErrCodes
  <2> HIDE DEF se, newRow
  <2>3. /\ new \in Database /\ new.task[se.cur] = newRow
        /\ \A k \in Keys \ {se.cur} : new.task[k] = se.copy.task[k]
    BY <1>1, <2>2 DEF Database, newRow
  <2> HIDE DEF new
  <2>4. Became(new)
    BY <1>2, <1>3, <2>1, <2>2, <2>3
  <2> QED BY <2>4 DEF se
<1> QED BY <1>4, <1>5, <1>6, <1>7, <1>8, <1>9

\* A tick goes on as it should after an edit that counts no retry of a row that
\* waits for the login, and does not put one into its retry queue.
LEMMA EditKeepsTick ==
  ASSUME TypeOK, NEW base \in Session, NEW new \in Database, NEW fin,
         fin.pc \in {"flush", "call"}, fin.copy = new, fin.wrote = base.wrote,
         fin.pend = Edited(base, new).pend,
         TickKept(base),
         \A k \in Keys :
           /\ NoBackoff(base.copy.task[k]) => NoBackoff(new.task[k])
           /\ AwaitsLogin(k) =>
                /\ new.task[k].retries = base.copy.task[k].retries
                /\ Target(fin) = "retry" \/ fin.ret = "retry" => k \notin fin.todo
  PROVE  TickKept(fin)
<1>1. ASSUME NEW k \in Keys, NEW c \in TaskCols, new.task[k][c] # db.task[k][c]
      PROVE  c \in fin.pend.task[k] \cup fin.wrote.task[k]
  <2>1. CASE new.task[k][c] = base.copy.task[k][c]
    <3>1. c \in base.pend.task[k] \cup base.wrote.task[k]
      BY <1>1, <2>1 DEF TickKept
    <3> QED BY <3>1, EditColumns
  <2>2. CASE new.task[k][c] # base.copy.task[k][c]
    BY <2>2, EditColumns
  <2> QED BY <2>1, <2>2
<1> QED BY <1>1 DEF TickKept

\* Of the actions of a tick, those that edit nothing.
LEMMA SelectionKeepsTick ==
  ASSUME TypeOK, StrandInv, LossInv, NEW s \in Sessions,
         NEW later \in SUBSET Keys, NEW k \in Keys,
         Flush(s) \/ PublishNext(s, k) \/ SelectRetries(s, later)
  PROVE  TickKept(sess'[s])
<1> DEFINE se == sess[s]
           fin == sess'[s]
<1>1. se \in Session /\ QueueKept(se) /\ TickKept(se)
  BY DEF TypeOK, StrandInv, LossInv, Idle, Flush, PublishNext, SelectRetries
<1>2. CASE Flush(s)
  <2>1. /\ se.pc = "flush"
        /\ fin = [se EXCEPT !.pc = se.then, !.wrote = Join(@, se.pend),
                            !.pend = NoWrites]
    BY <1>2 DEF Flush, TypeOK
  <2> HIDE DEF se, fin
  <2>2. /\ fin.pc = se.then /\ fin.ret = se.ret /\ fin.todo = se.todo
        /\ fin.copy = se.copy /\ fin.pend = NoWrites
        /\ fin.wrote = Join(se.wrote, se.pend)
    BY <1>1, <2>1 DEF Session
  <2>3. ASSUME NEW j \in Keys
        PROVE  /\ fin.pend.task[j] = {}
               /\ fin.wrote.task[j] = se.wrote.task[j] \cup se.pend.task[j]
    BY <2>2 DEF Join, NoWrites
  <2>4. Target(fin) = Target(se)
    BY <1>1, <2>1, <2>2 DEF Target, QueueKept
  <2>5. TickKept(fin)
    BY <1>1, <2>2, <2>3, <2>4 DEF TickKept
  <2> QED BY <2>5 DEF fin
<1>3. CASE PublishNext(s, k)
  <2>1. /\ se.pc = "due"
        /\ fin = [se EXCEPT !.pc = "exec", !.ret = "due", !.cur = k, !.todo = @ \ {k}]
    BY <1>3 DEF PublishNext, TypeOK
  <2> HIDE DEF se, fin
  <2>2. /\ fin.pc = "exec" /\ fin.ret = "due" /\ fin.copy = se.copy
        /\ fin.pend = se.pend /\ fin.wrote = se.wrote
    BY <1>1, <2>1 DEF Session
  <2>3. TickKept(fin)
    BY <1>1, <2>1, <2>2 DEF TickKept, Target
  <2> QED BY <2>3 DEF fin
<1>4. CASE SelectRetries(s, later)
  <2> DEFINE X == RetryRows(se.copy, se.since, se.wrote)
  <2>1. se.pc = "due" /\ fin = [se EXCEPT !.pc = "retry", !.todo = X \ later]
    BY <1>4 DEF SelectRetries, TypeOK
  <2>2. \A j \in Keys : NoBackoff(db.task[j])
    BY DEF LossInv
  <2> HIDE DEF se, fin
  <2>3. ASSUME NEW j \in X, AwaitsLogin(j)
        PROVE  FALSE
    <3>1. j \in Keys /\ se.copy.task[j].next /\ "next" \notin se.wrote.task[j]
      BY <2>3 DEF RetryRows
    <3>2. se.pend.task[j] = {}
      BY <1>1, <2>1, <3>1 DEF TickKept
    <3>3. "next" \in TaskCols
      BY DEF TaskCols
    <3>4. se.copy.task[j]["next"] = db.task[j]["next"]
      BY <1>1, <3>1, <3>2, <3>3 DEF TickKept
    <3>5. ~db.task[j].next
      BY <2>2, <2>3, <3>1 DEF NoBackoff, AwaitsLogin
    <3> QED BY <3>1, <3>4, <3>5
  <2> HIDE DEF X
  <2>4. /\ fin.pc = "retry" /\ fin.todo = X \ later /\ fin.copy = se.copy
        /\ fin.pend = se.pend /\ fin.wrote = se.wrote
    BY <1>1, <2>1 DEF Session
  <2>5. TickKept(fin)
    BY <1>1, <2>1, <2>3, <2>4 DEF TickKept
  <2> QED BY <2>5 DEF fin
<1> QED BY <1>2, <1>3, <1>4

\* The execution of a task.
LEMMA ExecuteKeepsTick ==
  ASSUME TypeOK, StrandInv, LossInv, NEW s \in Sessions,
         \/ RefuseUnapproved(s) \/ SuspendForLogin(s) \/ CallGateway(s)
         \/ PublishSucceeds(s) \/ PublishFails(s) \/ LoginLost(s)
  PROVE  TickKept(sess'[s])
<1> DEFINE se == sess[s]
           fin == sess'[s]
<1>1. /\ se \in Session /\ TickKept(se) /\ se.pc \in {"exec", "call"}
  BY DEF TypeOK, LossInv, Idle, RefuseUnapproved, SuspendForLogin, CallGateway,
         Executing, PublishSucceeds, PublishFails, LoginLost
<1>2. PICK new \in Database :
        /\ Frugal(se.copy, new)
        /\ fin.copy = new /\ fin.wrote = se.wrote /\ fin.pend = Edited(se, new).pend
        /\ fin.pc \in {"flush", "call"}
        /\ fin.pc = "flush" => fin.then = se.ret
        /\ fin.ret = se.ret /\ fin.todo = se.todo
  BY ExecuteFrugal
<1> HIDE DEF se, fin
<1>3. Target(fin) = "retry" => se.ret = "retry"
  BY <1>2 DEF Target
<1>4. TickKept(fin)
  <2>1. \A k \in Keys : AwaitsLogin(k) =>
          /\ new.task[k].retries = se.copy.task[k].retries
          /\ Target(fin) = "retry" \/ fin.ret = "retry" => k \notin fin.todo
    BY <1>1, <1>2, <1>3 DEF TickKept, Frugal
  <2>2. \A k \in Keys : NoBackoff(se.copy.task[k]) => NoBackoff(new.task[k])
    BY <1>2 DEF Frugal
  <2> QED BY <1>1, <1>2, <2>1, <2>2, EditKeepsTick
<1> QED BY <1>4 DEF fin

\* The edits of a tick beside the execution.
LEMMA TickKeepsTick ==
  ASSUME TypeOK, StrandInv, LossInv, NEW s \in Sessions,
         NEW later \in SUBSET Keys, NEW k \in Keys,
         WatchLogin(s, later) \/ RetryNext(s, k) \/ AlertDeadLetters(s)
  PROVE  TickKept(sess'[s])
<1> DEFINE se == sess[s]
           fin == sess'[s]
<1>1. /\ se \in Session /\ se.copy \in Database /\ se.copy.mp \in MpRow
      /\ \A j \in Keys : se.copy.task[j] \in TaskRow
      /\ se.since \in Nat
  BY DEF TypeOK, Session, Database
<1>2. QueueKept(se) /\ TickKept(se)
  BY DEF StrandInv, LossInv, Idle, WatchLogin, RetryNext, AlertDeadLetters
<1>3. CASE WatchLogin(s, later)
  <2> DEFINE mp == IF Real THEN Watched(se.copy.mp, se.since) ELSE se.copy.mp
             new == [se.copy EXCEPT
                       !.mp = mp,
                       !.task = [j \in Keys |-> IF j \in Stuck(se.copy, mp)
                                                  THEN Resumed(@[j]) ELSE @[j]]]
             fl == Flushing(Edited(se, new), "due")
  <2>1. /\ se.pc = "login"
        /\ fin = [fl EXCEPT !.todo = DueRows(new, se.since) \ later]
    BY <1>3 DEF WatchLogin, TypeOK
  <2>2. mp \in MpRow
    BY <1>1, WatchedType
  <2> HIDE DEF se, fin, mp
  <2>3. /\ new \in Database
        /\ \A j \in Keys : new.task[j] = IF j \in Stuck(se.copy, mp)
                                           THEN Resumed(se.copy.task[j])
                                           ELSE se.copy.task[j]
    BY <1>1, <2>2, ResumedType DEF Database
  <2> HIDE DEF new
  <2>4. Frugal(se.copy, new)
    BY <1>1, <2>3, ReopenedFrugal DEF Frugal
  <2>5. fl \in Session /\ EditedTo(se, new, fl) /\ fl.then = "due" /\ fl.ret = se.ret
    BY <1>1, <2>3, FlushingEdit DEF Pc
  <2> HIDE DEF fl
  <2>6. EditedTo(se, new, fin) /\ fin.then = "due" /\ fin.ret = se.ret
    BY <2>1, <2>5 DEF EditedTo, Session
  <2>7. Target(fin) # "retry" /\ fin.ret # "retry"
    BY <1>2, <2>1, <2>6 DEF Target, QueueKept, EditedTo
  <2>8. TickKept(fin)
    BY <1>1, <1>2, <2>3, <2>4, <2>6, <2>7, EditKeepsTick DEF EditedTo, Frugal
  <2> QED BY <2>8 DEF fin
<1>4. CASE RetryNext(s, k)
  <2> DEFINE new == [se.copy EXCEPT !.task[k] = Resubmitted(@)]
             fl == Flushing(Edited(se, new), "exec")
  <2>1. /\ se.pc = "retry" /\ k \in se.todo
        /\ fin = [fl EXCEPT !.ret = "retry", !.cur = k, !.todo = @ \ {k}]
    BY <1>4 DEF RetryNext, TypeOK
  <2> HIDE DEF se, fin
  <2>2. /\ new \in Database /\ new.task[k] = Resubmitted(se.copy.task[k])
        /\ \A j \in Keys \ {k} : new.task[j] = se.copy.task[j]
    BY <1>1, ResubmittedType DEF Database
  <2> HIDE DEF new
  <2>3. \A j \in se.todo : ~AwaitsLogin(j)
    <3>1. se.todo \subseteq Keys
      BY <1>1 DEF Session
    <3> QED BY <1>2, <2>1, <3>1 DEF TickKept, Target
  <2>4. fl \in Session /\ EditedTo(se, new, fl) /\ fl.todo = se.todo
    BY <1>1, <2>2, FlushingEdit DEF Pc
  <2> HIDE DEF fl
  <2>5. EditedTo(se, new, fin) /\ fin.todo = se.todo \ {k}
    BY <2>1, <2>4 DEF EditedTo, Session
  <2>6. ASSUME NEW j \in Keys
        PROVE  /\ NoBackoff(se.copy.task[j]) => NoBackoff(new.task[j])
               /\ AwaitsLogin(j) => /\ new.task[j].retries = se.copy.task[j].retries
                                    /\ j \notin fin.todo
    BY <1>1, <2>1, <2>2, <2>3, <2>5, ReopenedFrugal
  <2>7. TickKept(fin)
    BY <1>1, <1>2, <2>2, <2>5, <2>6, EditKeepsTick DEF EditedTo
  <2> QED BY <2>7 DEF fin
<1>5. CASE AlertDeadLetters(s)
  <2> DEFINE new == [se.copy EXCEPT !.alert = @ \cup DeadLetters(se.copy)]
  <2>1. se.todo = {} /\ fin = Flushing(Edited(se, new), "commit")
    BY <1>5 DEF AlertDeadLetters, TypeOK
  <2> HIDE DEF se, fin
  <2>2. new \in Database /\ new.task = se.copy.task
    BY <1>1 DEF Database, DeadLetters
  <2> HIDE DEF new
  <2>3. EditedTo(se, new, fin) /\ fin.todo = {}
    BY <1>1, <2>1, <2>2, FlushingEdit DEF Pc
  <2>4. TickKept(fin)
    BY <1>1, <1>2, <2>2, <2>3, EditKeepsTick DEF EditedTo
  <2> QED BY <2>4 DEF fin
<1> QED BY <1>3, <1>4, <1>5

\* The rows a tick adds are those of keys without a live task.
LEMMA StartKeepsTick ==
  ASSUME TypeOK, LossInv, NEW s \in Sessions, StartTick(s)
  PROVE  TickKept(sess'[s])
<1> DEFINE K == {k \in AutoKeys : db.art[Lead[k]] = "APPROVED" /\ ~Live(db.task[k])}
           fin == sess'[s]
<1>1. K \in SUBSET Keys /\ \A k \in K : ~AwaitsLogin(k)
  BY PipelineAssumption DEF AwaitsLogin
<1>2. fin = Flushing(Inserted(Opened, K), "login")
  BY DEF StartTick, TypeOK
<1> HIDE DEF K, fin
<1>3. /\ fin.pc = "flush" /\ fin.then = "login" /\ fin.ret = "idle"
      /\ \A k \in K : fin.copy.task[k] = NewTask /\ fin.pend.task[k] = TaskCols \cup {"insert"}
      /\ \A k \in Keys \ K : fin.copy.task[k] = db.task[k] /\ fin.pend.task[k] = {}
  BY <1>1, <1>2, InsertedFields DEF Pc
<1>4. NoBackoff(NewTask) /\ \A k \in Keys : NoBackoff(db.task[k])
  BY DEF NewTask, NoTask, NoBackoff, LossInv
<1>5. TickKept(fin)
  BY <1>1, <1>3, <1>4 DEF TickKept, Target
<1> QED BY <1>5 DEF fin

\* A step of a tick that is neither the commit nor an abort.
TickStep(s) ==
  \/ StartTick(s) \/ Flush(s)
  \/ RefuseUnapproved(s) \/ SuspendForLogin(s) \/ CallGateway(s)
  \/ PublishSucceeds(s) \/ PublishFails(s) \/ LoginLost(s)
  \/ \E later \in SUBSET Keys : WatchLogin(s, later) \/ SelectRetries(s, later)
  \/ \E k \in Keys : PublishNext(s, k) \/ RetryNext(s, k)
  \/ AlertDeadLetters(s)

\* What happens while nobody asks for anything.
LEMMA TickCases ==
  ASSUME Clients = {}, [Next]_vars
  PROVE  \/ \E s \in Sessions : TickStep(s) \/ Commit(s) \/ Abort(s)
         \/ Environment \/ UNCHANGED vars
BY DEF Next, Step, TickStep, Crash, UniqueViolation, LockWaitAborted, Sessions

LEMMA GoesOn ==
  ASSUME TypeOK, StrandInv, LossInv, NEW s \in Sessions, TickStep(s)
  PROVE  TickKept(sess'[s]) /\ Proceeds(s)
<1>1. Proceeds(s)
  BY DEF TickStep, Proceeds
<1>2. \E later \in SUBSET Keys, k \in Keys : TRUE
  <2>1. {} \in SUBSET Keys /\ \E k \in Keys : TRUE
    BY PipelineAssumption
  <2> QED BY <2>1
<1>3. CASE \/ Flush(s)
           \/ \E later \in SUBSET Keys : SelectRetries(s, later)
           \/ \E k \in Keys : PublishNext(s, k)
  BY <1>1, <1>2, <1>3, SelectionKeepsTick
<1>4. CASE \/ \E later \in SUBSET Keys : WatchLogin(s, later)
           \/ \E k \in Keys : RetryNext(s, k)
           \/ AlertDeadLetters(s)
  BY <1>1, <1>2, <1>4, TickKeepsTick
<1>5. CASE \/ RefuseUnapproved(s) \/ SuspendForLogin(s) \/ CallGateway(s)
           \/ PublishSucceeds(s) \/ PublishFails(s) \/ LoginLost(s)
  BY <1>1, <1>5, ExecuteKeepsTick
<1>6. CASE StartTick(s)
  BY <1>1, <1>6, StartKeepsTick
<1> QED BY <1>3, <1>4, <1>5, <1>6 DEF TickStep

\* One step of a tick that has the tables to itself.  A commit leaves there what
\* the session had in its copy, since what it has not written is as it was read.
LEMMA LossStep ==
  ASSUME TicksInTurn, TypeOK, StrandInv, LossInv, [Next]_vars
  PROVE  /\ LossInv'
         /\ \A k \in Keys : AwaitsLogin(k) => db'.task[k].retries = db.task[k].retries
<1>0. \A k \in Keys : NoBackoff(db.task[k])
  BY DEF LossInv
<1>1. Clients = {} /\ \A s, o \in Sessions : s = o
  BY DEF TicksInTurn
<1>2. ASSUME NEW s \in Sessions, Proceeds(s), TickKept(sess'[s])
      PROVE  LossInv' /\ db' = db
  <2>1. db' = db
    BY <1>2, ProceedsFrame
  <2>2. TickKept(sess[s])'
    BY <1>2, <2>1 DEF TickKept, AwaitsLogin
  <2> QED BY <1>0, <1>1, <2>1, <2>2 DEF LossInv
<1>3. ASSUME NEW s \in Sessions, Commit(s)
      PROVE  /\ LossInv'
             /\ \A k \in Keys : AwaitsLogin(k) => db'.task[k].retries = db.task[k].retries
  <2> DEFINE se == sess[s]
  <2>1. /\ se.pc = "commit" /\ TickKept(se)
        /\ \A k \in Keys : se.pend.task[k] = {}
    BY <1>3 DEF Commit, LossInv, Idle, TickKept
  <2>2. /\ sess'[s] = NoSession
        /\ \A k \in Keys, c \in TaskCols :
             db'.task[k][c] = IF c \in se.wrote.task[k]
                                THEN se.copy.task[k][c] ELSE db.task[k][c]
    BY <1>3, CommitChanges
  <2>3. {"status", "err", "next", "retries"} \subseteq TaskCols
    BY DEF TaskCols
  <2> HIDE DEF se
  <2>4. \A k \in Keys, c \in TaskCols : db'.task[k][c] = se.copy.task[k][c]
    BY <2>1, <2>2 DEF TickKept
  <2>5. ASSUME NEW k \in Keys
        PROVE  /\ db'.task[k].status = se.copy.task[k].status
               /\ db'.task[k].err = se.copy.task[k].err
               /\ db'.task[k].next = se.copy.task[k].next
               /\ db'.task[k].retries = se.copy.task[k].retries
    BY <2>3, <2>4
  <2>6. \A k \in Keys : NoBackoff(db'.task[k])
    BY <2>1, <2>5 DEF TickKept, NoBackoff
  <2>7. LossInv'
    BY <1>1, <2>2, <2>6 DEF LossInv, Idle, NoSession
  <2> QED BY <2>1, <2>5, <2>7 DEF TickKept
<1>4. ASSUME NEW s \in Sessions, Abort(s)
      PROVE  LossInv' /\ db' = db
  <2>1. sess'[s] = NoSession /\ db' = db
    BY <1>4, AbortChanges
  <2> QED BY <1>0, <1>1, <2>1 DEF LossInv, Idle, NoSession
<1>5. CASE Environment
  <2>1. sess' = sess /\ db'.task = db.task
    BY <1>5, EnvironmentChanges
  <2> QED BY <2>1 DEF LossInv, TickKept, AwaitsLogin, Idle
<1>6. CASE UNCHANGED vars
  <2>1. sess' = sess /\ db' = db
    BY <1>6 DEF vars
  <2> QED BY <2>1 DEF LossInv, TickKept, AwaitsLogin, Idle
<1> QED BY <1>1, <1>2, <1>3, <1>4, <1>5, <1>6, GoesOn, TickCases

LEMMA LossInvariant ==
  ASSUME TicksInTurn
  PROVE  Spec => []LossInv
<1>1. Init => LossInv
  BY DEF Init, LossInv, NoBackoff, NewDatabase, NoTask, Idle, NoSession
<1>2. TypeOK /\ StrandInv /\ LossInv /\ [Next]_vars => LossInv'
  BY LossStep
<1> QED BY <1>1, <1>2, TypeCorrect, StrandInvariant, PTL DEF Spec

\* While ticks run one after the other and nobody asks for a retry, the loss of
\* the login costs a task none of its retries, whatever fails, crashes or looks
\* like a failure: LoginLost sets no backoff, so such a task is never in the
\* queue of _retry_due, and its resumption is not counted.
THEOREM LossIsFree ==
  ASSUME TicksInTurn
  PROVE  Spec => LossCostsNoRetry
<1>1. TypeOK /\ StrandInv /\ LossInv /\ [Next]_vars =>
        [\A k \in Keys : AwaitsLogin(k) => db'.task[k].retries = db.task[k].retries]_db
  BY LossStep
<1> QED
  BY <1>1, TypeCorrect, StrandInvariant, LossInvariant, PTL DEF Spec, LossCostsNoRetry
=============================================================================
