------------------------- MODULE PublishCommitProofs -------------------------
(***************************************************************************)
(* What the commits of PublishPipeline may say, with any number of         *)
(* overlapping ticks and requests, aborted transactions and crashes:       *)
(* PUBLISHED only of what is online, and nothing over a cancelled task.    *)
(***************************************************************************)
EXTENDS PublishSafetyProofs

-----------------------------------------------------------------------------
(* The steps of a session, by what they do to its copy of the tables *)

\* A row that is edited stays a row, and is deleted at most.
RowStays(old, new) ==
  /\ new.status = "ABSENT" <=> old.status = "ABSENT"
  /\ \/ new.deleted = old.deleted
     \/ new.deleted /\ new.status # "ABSENT"

\* fin is base after an edit of rows that are there already.
Edits(base, new, fin) ==
  /\ base.pc # "flush" /\ fin.pc \in {"flush", "call"}
  /\ fin.copy = new /\ fin.wrote = base.wrote /\ fin.pend = Edited(base, new).pend
  /\ \A k \in Keys : RowStays(base.copy.task[k], new.task[k])
  /\ fin.pc = "call" => AllApproved(fin.copy, fin.cur)

\* An edit that reports nothing published.
Plain(base, new) ==
  /\ new.art = base.copy.art
  /\ \A k \in Keys :
       new.task[k].status = "PUBLISHED" => base.copy.task[k].status = "PUBLISHED"

\* The edit after a publication.
Reports(s, new) ==
  /\ PublishSucceeds(s)
  /\ new.art = Drafted(sess[s].copy.art, sess[s].cur)
  /\ \A k \in Keys \ {sess[s].cur} : new.task[k] = sess[s].copy.task[k]

Kept(se, fin) ==
  /\ se.pc = "due" /\ fin.pc \notin {"flush", "call"}
  /\ fin.copy = se.copy /\ fin.pend = se.pend /\ fin.wrote = se.wrote

Flushed(s, se, fin) ==
  /\ ~Blocked(s) /\ ~Duplicate(s)
  /\ se.pc = "flush" /\ fin.pc \notin {"flush", "call"}
  /\ fin.copy = se.copy /\ fin.pend = NoWrites /\ fin.wrote = Join(se.wrote, se.pend)

\* A session that begins with the insertion of rows.
Adds(K, fin) ==
  /\ fin.pc = "flush" /\ fin.wrote = NoWrites
  /\ fin.pend.art = {} /\ fin.copy.art = db.art
  /\ \A k \in K : fin.copy.task[k] = NewTask /\ fin.pend.task[k] = TaskCols \cup {"insert"}
  /\ \A k \in Keys \ K : fin.copy.task[k] = db.task[k] /\ fin.pend.task[k] = {}

LEMMA RewritesStay ==
  ASSUME NEW old, NEW new, Rewrites(old, new)
  PROVE  /\ new.art = old.art
         /\ \A k \in Keys : RowStays(old.task[k], new.task[k])
         /\ \A k \in Keys :
              new.task[k].status = "PUBLISHED" => old.task[k].status = "PUBLISHED"
BY DEF Rewrites, RowStays

\* The session a request or a tick begins.
LEMMA OpenedFields ==
  /\ Opened.pc = "idle" /\ Opened.copy = db
  /\ Opened.pend = NoWrites /\ Opened.wrote = NoWrites
BY DEF Opened, NoSession

Case(s) ==
  \/ Flushed(s, sess[s], sess'[s])
  \/ Kept(sess[s], sess'[s])
  \/ ~Idle(s) /\ \E new \in Database : Edits(sess[s], new, sess'[s]) /\ Plain(sess[s], new)
  \/ \E new \in Database : Edits(sess[s], new, sess'[s]) /\ Reports(s, new)
  \/ Idle(s) /\ \E new \in Database : Edits(Opened, new, sess'[s]) /\ Plain(Opened, new)
  \/ Idle(s) /\ \E K \in SUBSET Keys : Adds(K, sess'[s])

LEMMA FlushCase ==
  ASSUME TypeOK, StrandInv, NEW s \in Sessions, Flush(s)
  PROVE  Flushed(s, sess[s], sess'[s])
<1>1. /\ sess[s] \in Session /\ sess[s].pc = "flush"
      /\ sess'[s] = [sess[s] EXCEPT !.pc = sess[s].then,
                                    !.wrote = Join(@, sess[s].pend),
                                    !.pend = NoWrites]
  BY DEF Flush, TypeOK
<1>2. sess[s].then \notin {"flush", "call"}
  BY DEF StrandInv, QueueKept
<1>3. /\ sess'[s].pc = sess[s].then /\ sess'[s].copy = sess[s].copy
      /\ sess'[s].pend = NoWrites /\ sess'[s].wrote = Join(sess[s].wrote, sess[s].pend)
  BY <1>1 DEF Session
<1> QED
  BY <1>1, <1>2, <1>3 DEF Flush, Flushed

LEMMA ReturnCase ==
  ASSUME TypeOK, StrandInv, NEW s \in Sessions, NEW new \in Database, Returns(s, new)
  PROVE  /\ ~Idle(s) /\ Edits(sess[s], new, sess'[s])
         /\ Plain(sess[s], new) \/ Reports(s, new)
<1> DEFINE se == sess[s]
           row == se.copy.task[se.cur]
           newRow == new.task[se.cur]
<1>1. se \in Session /\ se.cur \in Keys /\ se.ret \in Pc
  BY DEF TypeOK, Session
<1>2. /\ sess'[s] = Flushing(Edited(se, new), se.ret)
      /\ \A k \in Keys \ {se.cur} : new.task[k] = se.copy.task[k]
      /\ newRow.deleted = row.deleted
      /\ se.pc \in {"exec", "call"}
  BY DEF Returns, TypeOK
<1>3. se.pc = "call" => row.status = "PUBLISHING"
  BY DEF StrandInv, DispatchKept
<1>4. newRow.status = "ABSENT" <=> row.status = "ABSENT"
  BY <1>3 DEF Returns
<1>5. EditedTo(se, new, sess'[s])
  BY <1>1, <1>2, FlushingEdit
<1>6. \A k \in Keys : RowStays(se.copy.task[k], new.task[k])
  BY <1>2, <1>4 DEF RowStays
<1>7. Edits(se, new, sess'[s])
  BY <1>2, <1>5, <1>6 DEF Edits, EditedTo
<1>8. Plain(se, new) \/ Reports(s, new)
  BY <1>2, <1>3 DEF Returns, Plain, Reports
<1> QED
  BY <1>2, <1>7, <1>8 DEF Idle

LEMMA CallCase ==
  ASSUME TypeOK, NEW s \in Sessions, CallGateway(s)
  PROVE  /\ ~Idle(s)
         /\ \E new \in Database : Edits(sess[s], new, sess'[s]) /\ Plain(sess[s], new)
<1> DEFINE se == sess[s]
           row == se.copy.task[se.cur]
<1>1. se \in Session /\ se.cur \in Keys /\ row \in TaskRow
  BY DEF TypeOK, Session, Database
<1>2. PICK new \in Database :
        /\ se.pc = "exec" /\ row.status = "SCHEDULED"
        /\ AllApproved(se.copy, se.cur)
        /\ sess'[s] = [Edited(se, new) EXCEPT !.pc = "call"]
        /\ new.art = se.copy.art
        /\ \A k \in Keys \ {se.cur} : new.task[k] = se.copy.task[k]
        /\ new.task[se.cur] = [row EXCEPT !.status = "PUBLISHING", !.dispatched = TRUE]
  BY CallChanges DEF TypeOK
<1> HIDE DEF se
<1>3. /\ sess'[s].pc = "call" /\ sess'[s].wrote = se.wrote /\ sess'[s].copy = new
      /\ sess'[s].pend = Edited(se, new).pend /\ sess'[s].cur = se.cur
  BY <1>1, <1>2, EditedType, EditFields DEF Session
<1>4. new.task[se.cur].status = "PUBLISHING" /\ new.task[se.cur].deleted = row.deleted
  BY <1>1, <1>2 DEF TaskRow
<1>5. Edits(se, new, sess'[s])
  <2>1. ASSUME NEW k \in Keys
        PROVE  RowStays(se.copy.task[k], new.task[k])
    <3>1. CASE k = se.cur
      BY <1>2, <1>4, <3>1 DEF RowStays
    <3>2. CASE k # se.cur
      BY <1>2, <3>2 DEF RowStays
    <3> QED
      BY <3>1, <3>2
  <2>2. AllApproved(sess'[s].copy, sess'[s].cur)
    BY <1>2, <1>3 DEF AllApproved
  <2> QED
    BY <1>2, <1>3, <2>1, <2>2 DEF Edits
<1>6. Plain(se, new)
  BY <1>2, <1>4 DEF Plain
<1> QED
  BY <1>2, <1>5, <1>6 DEF Idle, se

LEMMA TickCase ==
  ASSUME TypeOK, StrandInv, NEW s \in Sessions, NEW later \in SUBSET Keys, NEW k \in Keys,
         \/ StartTick(s) \/ WatchLogin(s, later) \/ PublishNext(s, k)
         \/ SelectRetries(s, later) \/ RetryNext(s, k) \/ AlertDeadLetters(s)
  PROVE  Case(s)
<1>0. sess[s] \in Session /\ QueueKept(sess[s])
  BY DEF TypeOK, StrandInv
<1>1. CASE StartTick(s)
  <2> DEFINE K == {j \in AutoKeys : /\ db.art[Lead[j]] = "APPROVED"
                                    /\ ~Live(db.task[j])}
  <2>1. K \in SUBSET Keys
    BY PipelineAssumption
  <2> HIDE DEF K
  <2>2. sess'[s] = Flushing(Inserted(Opened, K), "login")
    BY <1>1 DEF StartTick, K, TypeOK
  <2>3. Adds(K, sess'[s])
    BY <2>1, <2>2, InsertedFields DEF Adds, Pc
  <2>4. Idle(s)
    BY <1>1 DEF StartTick
  <2> QED
    BY <2>1, <2>3, <2>4 DEF Case
<1>2. CASE WatchLogin(s, later)
  <2>1. PICK new \in Database : Watches(s, new)
    BY <1>2, WatchChanges
  <2>2. ~Idle(s) /\ Edits(sess[s], new, sess'[s]) /\ Plain(sess[s], new)
    BY <2>1, ReopensRewrites, RewritesStay DEF Watches, EditedTo, Edits, Plain, Idle
  <2> QED
    BY <2>2 DEF Case
<1>3. CASE PublishNext(s, k)
  <2>1. /\ sess[s].pc = "due"
        /\ sess'[s] = [sess[s] EXCEPT !.pc = "exec", !.ret = "due", !.cur = k,
                                      !.todo = @ \ {k}]
    BY <1>3 DEF PublishNext, TypeOK
  <2>2. Kept(sess[s], sess'[s])
    BY <1>0, <2>1 DEF Kept, Session
  <2> QED
    BY <2>2 DEF Case
<1>4. CASE SelectRetries(s, later)
  <2> DEFINE X == RetryRows(sess[s].copy, sess[s].since, sess[s].wrote) \ later
  <2>1. /\ sess[s].pc = "due"
        /\ sess'[s] = [sess[s] EXCEPT !.pc = "retry", !.todo = X]
    BY <1>4 DEF SelectRetries, TypeOK
  <2> HIDE DEF X
  <2>2. Kept(sess[s], sess'[s])
    BY <1>0, <2>1 DEF Kept, Session
  <2> QED
    BY <2>2 DEF Case
<1>5. CASE RetryNext(s, k)
  <2>1. PICK new \in Database : Retries(s, k, new)
    BY <1>0, <1>5, RetryChanges
  <2>2. ~Idle(s) /\ Edits(sess[s], new, sess'[s]) /\ Plain(sess[s], new)
    BY <2>1, ReopensRewrites, RewritesStay DEF Retries, EditedTo, Edits, Plain, Idle
  <2> QED
    BY <2>2 DEF Case
<1>6. CASE AlertDeadLetters(s)
  <2>1. PICK new \in Database : Alerts(s, new)
    BY <1>6, AlertChanges
  <2>2. ~Idle(s) /\ Edits(sess[s], new, sess'[s]) /\ Plain(sess[s], new)
    BY <2>1, ReopensRewrites, RewritesStay DEF Alerts, EditedTo, Edits, Plain, Idle
  <2> QED
    BY <2>2 DEF Case
<1> QED
  BY <1>1, <1>2, <1>3, <1>4, <1>5, <1>6

LEMMA RequestCase ==
  ASSUME TypeOK, NEW s \in Sessions, NEW k \in Keys,
         StartCreate(s, k) \/ StartRetry(s, k) \/ StartCancel(s, k)
  PROVE  Case(s)
<1>1. CASE StartCreate(s, k)
  <2> DEFINE ins == Flushing(Inserted(Opened, {k}), "exec")
  <2>1. sess'[s] = [ins EXCEPT !.ret = "commit", !.cur = k]
    BY <1>1 DEF StartCreate, TypeOK
  <2>2. ins \in Session /\ Adds({k}, ins)
    BY InsertedFields DEF Adds, Pc
  <2> HIDE DEF ins
  <2>3. /\ sess'[s].pc = ins.pc /\ sess'[s].wrote = ins.wrote
        /\ sess'[s].pend = ins.pend /\ sess'[s].copy = ins.copy
    BY <2>1, <2>2 DEF Session
  <2>4. Adds({k}, sess'[s]) /\ Idle(s)
    BY <1>1, <2>2, <2>3 DEF Adds, StartCreate
  <2> QED
    BY <2>4 DEF Case
<1>2. CASE StartRetry(s, k) \/ StartCancel(s, k)
  <2>1. PICK new \in Database : Asks(s, k, new)
    BY <1>2, RequestChanges
  <2>2. Edits(Opened, new, sess'[s]) /\ Plain(Opened, new) /\ Idle(s)
    BY <2>1, AsksRewrites, OpenedFields, RewritesStay DEF Asks, EditedTo, Edits, Plain
  <2> QED
    BY <2>2 DEF Case
<1> QED
  BY <1>1, <1>2

LEMMA ProceedsCase ==
  ASSUME TypeOK, StrandInv, NEW s \in Sessions, Proceeds(s)
  PROVE  Case(s)
<1>1. CASE Flush(s)
  BY <1>1, FlushCase DEF Case
<1>2. CASE CallGateway(s)
  BY <1>2, CallCase DEF Case
<1>3. CASE \/ RefuseUnapproved(s) \/ SuspendForLogin(s)
           \/ PublishSucceeds(s) \/ PublishFails(s) \/ LoginLost(s)
  BY <1>3, ExecuteReturns, ReturnCase DEF Case
<1>4. CASE \E later \in SUBSET Keys, k \in Keys :
             \/ StartTick(s) \/ WatchLogin(s, later) \/ PublishNext(s, k)
             \/ SelectRetries(s, later) \/ RetryNext(s, k) \/ AlertDeadLetters(s)
  BY <1>4, TickCase
<1>5. CASE Request(s)
  BY <1>5, RequestCase DEF Request
<1>6. {} \in SUBSET Keys /\ \E k \in Keys : TRUE
  BY PipelineAssumption
<1> QED
  BY <1>1, <1>2, <1>3, <1>4, <1>5, <1>6 DEF Proceeds

-----------------------------------------------------------------------------
(* PublishedIsTrue *)

\* The articles an edit has changed wait to be flushed.
LEMMA EditArticles ==
  ASSUME NEW se \in Session, NEW new \in Database
  PROVE  Edited(se, new).pend.art =
           se.pend.art \cup {x \in Articles : new.art[x] # se.copy.art[x]}
<1>1. Edited(se, new).pend = Join(se.pend, Changes(se.copy, new))
  BY EditFields
<1> QED
  BY <1>1 DEF Join, Changes

\* Nothing takes an article offline.
LEMMA PostsGrow ==
  ASSUME TypeOK, NEW s \in Sessions, Proceeds(s)
  PROVE  \A x \in Articles : posts[x] > 0 => posts'[x] > 0
<1>0. posts \in [Articles -> Nat]
  BY DEF TypeOK
<1>1. ASSUME NEW X, Post(X)
      PROVE  \A x \in Articles : posts[x] > 0 => posts'[x] > 0
  BY <1>0, <1>1 DEF Post
<1>2. CASE posts' = posts
  BY <1>2
<1>3. CASE PublishSucceeds(s)
  BY <1>1, <1>3 DEF PublishSucceeds
<1>4. CASE PublishFails(s)
  BY <1>1, <1>2, <1>4 DEF PublishFails
<1>5. PublishSucceeds(s) \/ PublishFails(s) \/ posts' = posts
  BY DEF Proceeds, Flush, RefuseUnapproved, SuspendForLogin, CallGateway, LoginLost,
         WatchLogin, SelectRetries, PublishNext, RetryNext, AlertDeadLetters, StartTick,
         Request, StartCreate, StartRetry, StartCancel
<1> QED
  BY <1>2, <1>3, <1>4, <1>5

\* A session that reads the tables sees the truth, and has marked nothing yet.
LEMMA OpenedTruth ==
  ASSUME PublishedIsTrue
  PROVE  MarksKept(Opened, db.art) /\ ReportTrue(Opened, posts)
BY OpenedFields DEF PublishedIsTrue, MarksKept, ReportTrue, NoWrites

\* An edit that marks articles, if any, and takes no mark away.
LEMMA EditKeepsMarks ==
  ASSUME NEW base \in Session, NEW new \in Database, NEW fin, Edits(base, new, fin),
         MarksKept(base, db.art),
         \A x \in Articles : new.art[x] = base.copy.art[x] \/ new.art[x] = "DRAFT_CREATED",
         new.art = base.copy.art \/ fin.pc = "flush"
  PROVE  MarksKept(fin, db.art)
<1>1. /\ fin.copy = new /\ fin.wrote = base.wrote /\ base.pc # "flush"
      /\ fin.pend.art = {x \in Articles : new.art[x] # base.copy.art[x]}
  BY EditArticles DEF Edits, MarksKept
<1>2. base.wrote.art \subseteq Articles
  BY DEF Session, Writes
<1>3. \A x \in fin.pend.art \cup fin.wrote.art : fin.copy.art[x] = "DRAFT_CREATED"
  BY <1>1, <1>2 DEF MarksKept
<1>4. ASSUME OneEditor, NEW x \in Articles, fin.copy.art[x] = "DRAFT_CREATED"
      PROVE  x \in fin.pend.art \cup fin.wrote.art \/ db.art[x] = "DRAFT_CREATED"
  BY <1>1, <1>4 DEF MarksKept
<1>5. fin.pc # "flush" => fin.pend.art = {}
  BY <1>1
<1> QED
  BY <1>3, <1>4, <1>5 DEF MarksKept

LEMMA ProceedsTruth ==
  ASSUME TypeOK, StrandInv, TruthInv, NEW s \in Sessions, Proceeds(s)
  PROVE  MarksKept(sess'[s], db'.art) /\ ReportTrue(sess'[s], posts')
<1> DEFINE se == sess[s]
           fin == sess'[s]
<1>0. /\ se \in Session /\ MarksKept(se, db.art) /\ ReportTrue(se, posts) /\ PublishedIsTrue
      /\ db' = db
  BY ProceedsFrame DEF TypeOK, TruthInv
<1>1. \A k \in Keys : Content[k] \subseteq Articles /\ Delivered(k) \subseteq Articles
  BY ContentAssumption DEF Delivered
<1>2. \A x \in Articles : posts[x] > 0 => posts'[x] > 0
  BY PostsGrow
<1>3. Case(s)
  BY ProceedsCase
<1> SUFFICES MarksKept(fin, db.art) /\ ReportTrue(fin, posts')
  BY <1>0
<1>4. ASSUME fin.copy = se.copy,
             fin.pend.art \cup fin.wrote.art = se.pend.art \cup se.wrote.art,
             fin.pc # "flush" => fin.pend.art = {}
      PROVE  MarksKept(fin, db.art) /\ ReportTrue(fin, posts')
  BY <1>0, <1>1, <1>2, <1>4 DEF MarksKept, ReportTrue
<1>5. CASE Flushed(s, se, fin)
  BY <1>4, <1>5 DEF Flushed, NoWrites, Join
<1>6. CASE Kept(se, fin)
  BY <1>0, <1>4, <1>6 DEF Kept, MarksKept
<1>7. ASSUME NEW base \in {se, Opened}, NEW new \in Database,
             Edits(base, new, fin), Plain(base, new)
      PROVE  MarksKept(fin, db.art) /\ ReportTrue(fin, posts')
  <2>1. base \in Session /\ MarksKept(base, db.art) /\ ReportTrue(base, posts)
    BY <1>0, OpenedType, OpenedTruth
  <2>2. MarksKept(fin, db.art)
    BY <1>7, <2>1, EditKeepsMarks DEF Plain
  <2>3. fin.copy = new
    BY <1>7 DEF Edits
  <2>4. ReportTrue(fin, posts')
    BY <1>1, <1>2, <1>7, <2>1, <2>3 DEF Plain, ReportTrue
  <2> QED
    BY <2>2, <2>4
<1>8. ASSUME NEW new \in Database, Edits(se, new, fin), Reports(s, new)
      PROVE  MarksKept(fin, db.art) /\ ReportTrue(fin, posts')
  <2>1. /\ new.art = Drafted(se.copy.art, se.cur) /\ fin.copy = new
        /\ \A k \in Keys \ {se.cur} : new.task[k] = se.copy.task[k]
    BY <1>8 DEF Edits, Reports
  <2>2. /\ fin.pc = "flush"
        /\ \A x \in Delivered(se.cur) : posts'[x] > 0
    <3>1. /\ \A x \in Articles :
               posts'[x] = IF x \in Delivered(se.cur) THEN posts[x] + 1 ELSE posts[x]
          /\ posts \in [Articles -> Nat]
      BY <1>8 DEF Reports, PublishSucceeds, Post, TypeOK
    <3>2. se.cur \in Keys
      BY <1>0 DEF Session
    <3>3. fin.pc = "flush"
      BY <1>8 DEF Reports, PublishSucceeds, Flushing, TypeOK, Edits, Edited, Session
    <3> QED
      BY <1>1, <3>1, <3>2, <3>3
  <2>3. \A x \in Articles :
          new.art[x] = IF x \in Content[se.cur] THEN "DRAFT_CREATED" ELSE se.copy.art[x]
    BY <2>1 DEF Drafted
  <2>4. MarksKept(fin, db.art)
    BY <1>0, <1>8, <2>2, <2>3, EditKeepsMarks
  <2>5. ASSUME NEW k \in Keys, new.task[k].status = "PUBLISHED"
        PROVE  /\ \A x \in Delivered(k) : posts'[x] > 0
               /\ OneEditor => \A x \in Content[k] : new.art[x] = "DRAFT_CREATED"
    <3>1. CASE k = se.cur
      BY <1>1, <2>2, <2>3, <3>1
    <3>2. CASE k # se.cur
      <4>1. se.copy.task[k].status = "PUBLISHED"
        BY <2>1, <2>5, <3>2
      <4> QED
        BY <1>0, <1>1, <1>2, <2>3, <4>1 DEF ReportTrue
    <3> QED
      BY <3>1, <3>2
  <2>6. ReportTrue(fin, posts')
    BY <2>1, <2>5 DEF ReportTrue
  <2> QED
    BY <2>4, <2>6
<1>9. ASSUME NEW K \in SUBSET Keys, Adds(K, fin)
      PROVE  MarksKept(fin, db.art) /\ ReportTrue(fin, posts')
  <2>1. /\ fin.pc = "flush" /\ fin.pend.art = {} /\ fin.wrote.art = {}
        /\ fin.copy.art = db.art
    BY <1>9 DEF Adds, NoWrites
  <2>2. MarksKept(fin, db.art)
    BY <2>1 DEF MarksKept
  <2>3. \A k \in Keys : fin.copy.task[k].status = "PUBLISHED" =>
                          db.task[k].status = "PUBLISHED"
    BY <1>9 DEF Adds, NewTask, NoTask
  <2>4. ReportTrue(fin, posts')
    BY <1>0, <1>1, <1>2, <2>1, <2>3 DEF PublishedIsTrue, ReportTrue
  <2> QED
    BY <2>2, <2>4
<1> QED
  BY <1>3, <1>5, <1>6, <1>7, <1>8, <1>9 DEF Case

\* What a session keeps while marks and articles online only become more.
LEMMA TruthKept ==
  ASSUME NEW se, NEW old, NEW new, NEW before, NEW after,
         MarksKept(se, old), ReportTrue(se, before),
         OneEditor =>
           \A x \in Articles : old[x] = "DRAFT_CREATED" => new[x] = "DRAFT_CREATED",
         \A x \in Articles : before[x] > 0 => after[x] > 0
  PROVE  MarksKept(se, new) /\ ReportTrue(se, after)
<1>1. \A k \in Keys : Delivered(k) \subseteq Articles
  BY ContentAssumption DEF Delivered
<1> QED
  BY <1>1 DEF MarksKept, ReportTrue

LEMMA NoSessionTruth ==
  \A art, online : MarksKept(NoSession, art) /\ ReportTrue(NoSession, online)
BY DEF MarksKept, ReportTrue, NoSession, NoWrites, NewDatabase, NoTask

\* A commit publishes a row with its articles: those its session has marked are
\* flushed, the others were marked already.
LEMMA CommitTruth ==
  ASSUME TypeOK, TruthInv, NEW s \in Sessions, Commit(s)
  PROVE  /\ PublishedIsTrue'
         /\ \A x \in Articles : db.art[x] = "DRAFT_CREATED" => db'.art[x] = "DRAFT_CREATED"
<1> DEFINE se == sess[s]
<1>0. /\ MarksKept(se, db.art) /\ ReportTrue(se, posts) /\ PublishedIsTrue
      /\ se.pc = "commit" /\ posts' = posts
  BY CommitChanges DEF TruthInv
<1>1. \A x \in Articles :
        db'.art[x] = IF x \in se.wrote.art THEN se.copy.art[x] ELSE db.art[x]
  BY CommitChanges
<1>2. \A x \in Articles :
        /\ db.art[x] = "DRAFT_CREATED" => db'.art[x] = "DRAFT_CREATED"
        /\ OneEditor =>
             (se.copy.art[x] = "DRAFT_CREATED" => db'.art[x] = "DRAFT_CREATED")
  BY <1>0, <1>1 DEF MarksKept
<1>3. ASSUME NEW k \in Keys, db'.task[k].status = "PUBLISHED"
      PROVE  /\ \A x \in Delivered(k) : posts'[x] > 0
             /\ OneEditor => \A x \in Content[k] : db'.art[x] = "DRAFT_CREATED"
  <2>1. Content[k] \subseteq Articles
    BY ContentAssumption
  <2>2. "status" \in TaskCols
    BY DEF TaskCols
  <2>3. se.copy.task[k].status = "PUBLISHED" \/ db.task[k].status = "PUBLISHED"
    BY <1>3, <2>2, CommitChanges
  <2> QED
    BY <1>0, <1>2, <2>1, <2>3 DEF ReportTrue, PublishedIsTrue
<1> QED
  BY <1>2, <1>3 DEF PublishedIsTrue

-----------------------------------------------------------------------------
(* What reviews do meanwhile *)

\* A session calls the gateway with approved articles only; and what it sees
\* ready it has read ready, or made so of what was.
LEMMA ProceedsReady ==
  ASSUME TypeOK, StrandInv, ReviewInv, NEW s \in Sessions, Proceeds(s)
  PROVE  /\ sess'[s].pc = "call" => AllApproved(sess'[s].copy, sess'[s].cur)
         /\ \A x \in Articles : sess'[s].copy.art[x] \in Ready =>
              sess[s].copy.art[x] \in Ready \/ db.art[x] \in Ready
<1> DEFINE se == sess[s]
           fin == sess'[s]
<1>1. CASE Flushed(s, se, fin) \/ Kept(se, fin)
  BY <1>1 DEF Flushed, Kept
<1>2. ASSUME NEW base \in {se, Opened}, NEW new \in Database,
             Edits(base, new, fin), Plain(base, new)
      PROVE  /\ fin.pc = "call" => AllApproved(fin.copy, fin.cur)
             /\ \A x \in Articles : fin.copy.art[x] \in Ready =>
                  se.copy.art[x] \in Ready \/ db.art[x] \in Ready
  BY <1>2, OpenedFields DEF Edits, Plain
<1>3. ASSUME NEW new \in Database, Edits(se, new, fin), Reports(s, new)
      PROVE  /\ fin.pc = "call" => AllApproved(fin.copy, fin.cur)
             /\ \A x \in Articles : fin.copy.art[x] \in Ready => se.copy.art[x] \in Ready
  <2>1. AllApproved(se.copy, se.cur)
    BY <1>3 DEF Reports, PublishSucceeds, ReviewInv
  <2> QED
    BY <1>3, <2>1 DEF Edits, Reports, Drafted, AllApproved, Ready
<1>4. ASSUME NEW K \in SUBSET Keys, Adds(K, fin)
      PROVE  fin.pc = "flush" /\ fin.copy.art = db.art
  BY <1>4 DEF Adds
<1> QED
  BY <1>1, <1>2, <1>3, <1>4, ProceedsCase DEF Case

LEMMA ReviewStep ==
  ASSUME TypeOK, StrandInv, TruthInv, [Next]_vars
  PROVE  ReviewInv'
<1>0. /\ ReviewInv /\ \A o \in Sessions : MarksKept(sess[o], db.art)
      /\ \A x \in Articles : "NONE" \notin Reviewable /\ Ready \cap Reviewable = {}
  BY DEF TruthInv, Reviewable, Ready
<1>1. ASSUME NEW s \in Sessions, Proceeds(s)
      PROVE  ReviewInv'
  BY <1>0, <1>1, ProceedsFrame, ProceedsReady DEF ReviewInv
<1>2. NoSession.pc # "call" /\ \A x \in Articles : NoSession.copy.art[x] \notin Ready
  BY DEF NoSession, NewDatabase, Ready
<1>3. ASSUME NEW s \in Sessions, Commit(s)
      PROVE  ReviewInv'
  <2>1. /\ sess'[s] = NoSession /\ review' = review
        /\ \A o \in Sessions \ {s} : sess'[o] = sess[o]
    BY <1>3, CommitChanges
  <2>2. ASSUME NEW x \in Articles
        PROVE  \/ db'.art[x] = db.art[x]
               \/ db'.art[x] \in Ready /\ sess[s].copy.art[x] \in Ready
    BY <1>0, <1>3, CommitChanges DEF MarksKept, Ready
  <2>3. OneEditor => \A e \in Editors, x \in Articles :
          review[e][x] # "NONE" => db.art[x] = review[e][x] /\ db.art[x] \notin Ready
    BY <1>0 DEF ReviewInv, TypeOK
  <2> QED
    BY <1>0, <1>2, <2>1, <2>2, <2>3 DEF ReviewInv
<1>4. ASSUME NEW s \in Sessions, Abort(s)
      PROVE  ReviewInv'
  BY <1>0, <1>2, <1>4, AbortChanges DEF ReviewInv
<1>5. CASE Environment
  <2>1. sess' = sess
    BY <1>5, EnvironmentChanges
  <2>2. \A s \in Sessions : sess'[s].pc = "call" => AllApproved(sess'[s].copy, sess'[s].cur)
    BY <1>0, <2>1 DEF ReviewInv
  <2>3. ASSUME OneEditor
        PROVE  /\ \A e \in Editors, x \in Articles :
                    review'[e][x] # "NONE" => db'.art[x] = review'[e][x]
               /\ \A x \in Articles : db.art[x] \in Ready => db'.art[x] \in Ready
    <3>1. \A e \in Editors, x \in Articles :
            review[e][x] # "NONE" => db.art[x] = review[e][x] /\ db.art[x] \notin Ready
      BY <1>0, <2>3 DEF ReviewInv, TypeOK
    <3>2. CASE Reviewing
      <4>1. PICK e \in Editors, y \in Articles :
              \/ ReadArticle(e, y) \/ LeaveArticle(e, y)
              \/ \E to \in ArticleStatus : MoveArticle(e, y, to)
        BY <3>2 DEF Reviewing
      <4>2. CASE ReadArticle(e, y) \/ LeaveArticle(e, y)
        BY <3>1, <4>2 DEF ReadArticle, LeaveArticle, TypeOK
      <4>3. ASSUME NEW to \in ArticleStatus, MoveArticle(e, y, to)
            PROVE  /\ \A f \in Editors, x \in Articles :
                        review'[f][x] # "NONE" => db'.art[x] = review'[f][x]
                   /\ \A x \in Articles : db.art[x] \in Ready => db'.art[x] \in Ready
        <5>1. /\ db'.art = [db.art EXCEPT ![y] = to]
              /\ db.art \in [Articles -> ArticleStatus]
              /\ review' = [review EXCEPT ![e][y] = "NONE"]
              /\ review[e][y] # "NONE"
          BY <1>0, <4>3 DEF MoveArticle, ReviewMoves, TypeOK, Database
        <5>2. \A f \in Editors : f = e
          BY <2>3 DEF OneEditor
        <5> QED
          BY <3>1, <5>1, <5>2 DEF TypeOK
      <4> QED
        BY <4>1, <4>2, <4>3
    <3>3. CASE Scan \/ Revoke \/ Tick
      <4>1. db'.art = db.art /\ review' = review
        BY <3>3 DEF Scan, Revoke, Tick, TypeOK, Database
      <4> QED
        BY <3>1, <4>1
    <3> QED
      BY <1>5, <3>2, <3>3 DEF Environment
  <2> QED
    BY <1>0, <2>1, <2>2, <2>3 DEF ReviewInv
<1>6. CASE UNCHANGED vars
  BY <1>0, <1>6 DEF vars, ReviewInv
<1> QED
  BY <1>1, <1>3, <1>4, <1>5, <1>6, NextCases

\* With one editor no review takes a mark away.
LEMMA MarksOutlast ==
  ASSUME TypeOK, ReviewInv, OneEditor, Environment
  PROVE  \A x \in Articles : db.art[x] = "DRAFT_CREATED" => db'.art[x] = "DRAFT_CREATED"
<1>1. \A e \in Editors, x \in Articles : review[e][x] # "NONE" => db.art[x] # "DRAFT_CREATED"
  BY DEF ReviewInv, TypeOK, Reviewable
<1> QED
  BY <1>1, EnvironmentChanges

LEMMA TruthStep ==
  ASSUME TypeOK, StrandInv, TruthInv, [Next]_vars
  PROVE  TruthInv'
<1>0. /\ PublishedIsTrue /\ ReviewInv /\ ReviewInv'
      /\ \A o \in Sessions : MarksKept(sess[o], db.art) /\ ReportTrue(sess[o], posts)
  BY ReviewStep DEF TruthInv
<1>1. ASSUME NEW s \in Sessions, Proceeds(s)
      PROVE  TruthInv'
  <2>1. db' = db /\ \A o \in Sessions \ {s} : sess'[o] = sess[o]
    BY <1>1, ProceedsFrame
  <2>2. \A x \in Articles : posts[x] > 0 => posts'[x] > 0
    BY <1>1, PostsGrow
  <2>3. PublishedIsTrue'
    <3>1. \A k \in Keys : Delivered(k) \subseteq Articles
      BY ContentAssumption DEF Delivered
    <3> QED
      BY <1>0, <2>1, <2>2, <3>1 DEF PublishedIsTrue
  <2>4. ASSUME NEW o \in Sessions \ {s}
        PROVE  MarksKept(sess'[o], db'.art) /\ ReportTrue(sess'[o], posts')
    BY <1>0, <2>1, <2>2, TruthKept
  <2> QED
    BY <1>0, <1>1, <2>3, <2>4, ProceedsTruth DEF TruthInv
<1>2. ASSUME NEW s \in Sessions, Commit(s)
      PROVE  TruthInv'
  <2>1. /\ PublishedIsTrue' /\ posts' = posts
        /\ sess'[s] = NoSession /\ \A o \in Sessions \ {s} : sess'[o] = sess[o]
        /\ \A x \in Articles : db.art[x] = "DRAFT_CREATED" => db'.art[x] = "DRAFT_CREATED"
    BY <1>2, CommitTruth, CommitChanges
  <2>2. ASSUME NEW o \in Sessions \ {s}
        PROVE  MarksKept(sess'[o], db'.art) /\ ReportTrue(sess'[o], posts')
    BY <1>0, <2>1, TruthKept
  <2> QED
    BY <1>0, <2>1, <2>2, NoSessionTruth DEF TruthInv
<1>3. ASSUME NEW s \in Sessions, Abort(s)
      PROVE  TruthInv'
  BY <1>0, <1>3, AbortChanges, NoSessionTruth DEF TruthInv, PublishedIsTrue
<1>4. CASE Environment
  <2>1. /\ sess' = sess /\ posts' = posts /\ db'.task = db.task
        /\ OneEditor => \A x \in Articles :
             db.art[x] = "DRAFT_CREATED" => db'.art[x] = "DRAFT_CREATED"
    BY <1>0, <1>4, EnvironmentChanges, MarksOutlast
  <2>2. PublishedIsTrue'
    <3>1. \A k \in Keys : Content[k] \subseteq Articles
      BY ContentAssumption
    <3> QED
      BY <1>0, <2>1, <3>1 DEF PublishedIsTrue
  <2>3. ASSUME NEW o \in Sessions
        PROVE  MarksKept(sess'[o], db'.art) /\ ReportTrue(sess'[o], posts')
    BY <1>0, <2>1, TruthKept
  <2> QED
    BY <1>0, <2>1, <2>2, <2>3 DEF TruthInv
<1>5. CASE UNCHANGED vars
  BY <1>0, <1>5 DEF vars, TruthInv, PublishedIsTrue
<1> QED
  BY <1>1, <1>2, <1>3, <1>4, <1>5, NextCases

LEMMA TruthInvariant == Spec => []TruthInv
<1>1. Init => TruthInv
  <2>1. Init => ReviewInv
    BY DEF Init, ReviewInv, NoSession, NewDatabase, Ready
  <2>2. Init => PublishedIsTrue
    BY DEF Init, PublishedIsTrue, NewDatabase, NoTask
  <2>3. Init => \A s \in Sessions : MarksKept(sess[s], db.art) /\ ReportTrue(sess[s], posts)
    BY NoSessionTruth DEF Init
  <2> QED
    BY <2>1, <2>2, <2>3 DEF TruthInv
<1>2. TypeOK /\ StrandInv /\ TruthInv /\ [Next]_vars => TruthInv'
  BY TruthStep
<1> QED
  BY <1>1, <1>2, TypeCorrect, StrandInvariant, PTL DEF Spec

\* However ticks, requests and reviews overlap, abort and crash, and though a
\* publication may look like a failure: a task committed as PUBLISHED is online,
\* as far as the channel takes its articles; and where no two reviews of an
\* article overlap, none of its articles is APPROVED any more.
THEOREM PublishedMeansOnline == Spec => []PublishedIsTrue
<1>1. TruthInv => PublishedIsTrue
  BY DEF TruthInv
<1> QED
  BY <1>1, TruthInvariant, PTL

-----------------------------------------------------------------------------
(* CancelledIsFinal *)

LEMMA NoSessionRows == \A tasks : RowsKept(NoSession, tasks)
BY DEF RowsKept, RowWrites, RowsSeen, NoSession, NoWrites, NewDatabase, NoTask

\* A session that begins sees the rows of the table, and has written none.
LEMMA OpenedRows == RowsKept(Opened, db.task)
BY OpenedFields DEF RowsKept, RowWrites, RowsSeen, NoWrites

\* A session without flushed changes holds no lock.
LEMMA NoLocks ==
  ASSUME NEW w
  PROVE  ~Conflict(w, NoWrites) /\ ~Conflict(NoWrites, w)
BY DEF Conflict, NoWrites

LEMMA ConflictSymmetric ==
  ASSUME NEW v, NEW w
  PROVE  Conflict(v, w) <=> Conflict(w, v)
BY DEF Conflict

\* An edit inserts nothing.
LEMMA EditInserts ==
  ASSUME NEW se \in Session, NEW new \in Database, NEW k \in Keys
  PROVE  "insert" \in Edited(se, new).pend.task[k] <=> "insert" \in se.pend.task[k]
<1> DEFINE ch == Changes(se.copy, new)
<1>1. Edited(se, new).pend = Join(se.pend, ch)
  BY EditFields
<1>2. Join(se.pend, ch).task[k] = se.pend.task[k] \cup ch.task[k]
  BY DEF Join
<1>3. ch.task[k] \subseteq TaskCols
  BY DEF Changes
<1>4. "insert" \notin TaskCols
  BY DEF TaskCols
<1> QED
  BY <1>1, <1>2, <1>3, <1>4

\* Rows that stay rows, and are deleted at most, keep what a session has written.
LEMMA StaysWritten ==
  ASSUME NEW old, NEW new, NEW w,
         \A k \in Keys : RowStays(old.task[k], new.task[k]), RowWrites(old, w)
  PROVE  RowWrites(new, w)
BY DEF RowWrites, RowStays

LEMMA EditKeepsRows ==
  ASSUME NEW base \in Session, NEW new \in Database, NEW fin, Edits(base, new, fin),
         RowsKept(base, db.task)
  PROVE  RowsKept(fin, db.task)
<1>1. /\ fin.copy = new /\ fin.wrote = base.wrote /\ fin.pend = Edited(base, new).pend
      /\ base.pc # "flush"
      /\ \A k \in Keys : RowStays(base.copy.task[k], new.task[k])
  BY DEF Edits
<1>2. \A k \in Keys : "insert" \notin base.pend.task[k] /\ "insert" \notin fin.pend.task[k]
  BY <1>1, EditInserts DEF RowsKept, RowsSeen
<1>3. RowWrites(fin.copy, fin.wrote)
  BY <1>1, StaysWritten DEF RowsKept
<1>4. RowWrites(fin.copy, fin.pend)
  <2> SUFFICES ASSUME NEW k \in Keys
               PROVE  /\ "status" \in fin.pend.task[k] => new.task[k].status # "ABSENT"
                      /\ "deleted" \in fin.pend.task[k] =>
                           new.task[k].deleted /\ new.task[k].status # "ABSENT"
    BY <1>1, <1>2 DEF RowWrites
  <2>1. "status" \in TaskCols /\ "deleted" \in TaskCols
    BY DEF TaskCols
  <2>2. "status" \in fin.pend.task[k] =>
          "status" \in base.pend.task[k] \/ new.task[k].status # base.copy.task[k].status
    BY <1>1, <2>1, EditColumns
  <2>3. "deleted" \in fin.pend.task[k] =>
          "deleted" \in base.pend.task[k] \/ new.task[k].deleted # base.copy.task[k].deleted
    BY <1>1, <2>1, EditColumns
  <2> QED
    BY <1>1, <1>2, <2>2, <2>3 DEF RowsKept, RowWrites, RowStays
<1>5. RowsSeen(fin, db.task)
  BY <1>1, <1>2 DEF RowsKept, RowsSeen, RowStays
<1> QED
  BY <1>3, <1>4, <1>5 DEF RowsKept

LEMMA FlushKeepsRows ==
  ASSUME NEW s \in Sessions, NEW se, NEW fin, se = sess[s], Flushed(s, se, fin),
         RowsKept(se, db.task)
  PROVE  RowsKept(fin, db.task)
<1>1. /\ fin.copy = se.copy
      /\ \A k \in Keys : /\ fin.pend.task[k] = {}
                         /\ fin.wrote.task[k] = se.wrote.task[k] \cup se.pend.task[k]
  BY DEF Flushed, NoWrites, Join
<1>2. RowWrites(fin.copy, fin.pend) /\ RowWrites(fin.copy, fin.wrote)
  BY <1>1 DEF RowsKept, RowWrites
<1>3. \A k \in Keys : "insert" \in se.pend.task[k] => db.task[k].status = "ABSENT"
  BY DEF Flushed, Duplicate
<1>4. RowsSeen(fin, db.task)
  BY <1>1, <1>3 DEF RowsKept, RowsSeen
<1> QED
  BY <1>2, <1>4 DEF RowsKept

LEMMA AddsKeepsRows ==
  ASSUME NEW K \in SUBSET Keys, NEW fin, Adds(K, fin)
  PROVE  RowsKept(fin, db.task)
<1>1. NewTask.status = "SCHEDULED" /\ "status" \in TaskCols
  BY DEF NewTask, NoTask, TaskCols
<1>2. \A k \in Keys : fin.wrote.task[k] = {}
  BY DEF Adds, NoWrites
<1>3. RowWrites(fin.copy, fin.wrote)
  BY <1>2 DEF RowWrites
<1>4. RowWrites(fin.copy, fin.pend)
  BY <1>1 DEF Adds, RowWrites
<1>5. RowsSeen(fin, db.task)
  BY <1>1, <1>2 DEF Adds, RowsSeen
<1> QED
  BY <1>3, <1>4, <1>5 DEF RowsKept

\* A session flushes only what no other session has locked.
LEMMA ProceedsRows ==
  ASSUME TypeOK, StrandInv, CancelInv, NEW s \in Sessions, Proceeds(s)
  PROVE  /\ RowsKept(sess'[s], db.task)
         /\ \A o \in Sessions \ {s} : ~Conflict(sess'[s].wrote, sess[o].wrote)
<1> DEFINE se == sess[s]
           fin == sess'[s]
<1>0. /\ se \in Session /\ RowsKept(se, db.task) /\ Opened \in Session
      /\ \A o \in Sessions \ {s} : ~Conflict(se.wrote, sess[o].wrote)
  BY OpenedType DEF TypeOK, CancelInv, LocksHeld
<1>1. Case(s)
  BY ProceedsCase
<1>2. CASE Flushed(s, se, fin)
  <2>1. ASSUME NEW o \in Sessions \ {s}
        PROVE  ~Conflict(fin.wrote, sess[o].wrote)
    <3>1. ~Conflict(se.pend, sess[o].wrote) /\ ~Conflict(se.wrote, sess[o].wrote)
      BY <1>0, <1>2 DEF Flushed, Blocked
    <3>2. fin.wrote = Join(se.wrote, se.pend)
      BY <1>2 DEF Flushed
    <3> QED
      BY <3>1, <3>2 DEF Conflict, Join
  <2> QED
    BY <1>0, <1>2, <2>1, FlushKeepsRows
<1>3. CASE Kept(se, fin)
  BY <1>0, <1>3 DEF Kept, RowsKept, RowsSeen
<1>4. ASSUME NEW base \in {se, Opened}, NEW new \in Database, Edits(base, new, fin)
      PROVE  /\ RowsKept(fin, db.task)
             /\ \A o \in Sessions \ {s} : ~Conflict(fin.wrote, sess[o].wrote)
  <2>1. base \in Session /\ RowsKept(base, db.task)
    BY <1>0, OpenedRows
  <2>2. fin.wrote = se.wrote \/ fin.wrote = NoWrites
    BY <1>4, OpenedFields DEF Edits
  <2> QED
    BY <1>0, <1>4, <2>1, <2>2, EditKeepsRows, NoLocks
<1>5. ASSUME NEW K \in SUBSET Keys, Adds(K, fin)
      PROVE  /\ RowsKept(fin, db.task)
             /\ \A o \in Sessions \ {s} : ~Conflict(fin.wrote, sess[o].wrote)
  <2>1. fin.wrote = NoWrites
    BY <1>5 DEF Adds
  <2> QED
    BY <1>5, <2>1, AddsKeepsRows, NoLocks
<1> QED
  BY <1>1, <1>2, <1>3, <1>4, <1>5 DEF Case

\* A commit makes rows and deletes rows, and takes none away.
LEMMA CommitRows ==
  ASSUME TypeOK, CancelInv, NEW s \in Sessions, Commit(s)
  PROVE  \A k \in Keys :
           /\ db.task[k].deleted => db'.task[k].deleted
           /\ db.task[k].status # "ABSENT" => db'.task[k].status # "ABSENT"
           /\ db'.task[k].status = "ABSENT" => ~db'.task[k].deleted
           /\ sess[s].wrote.task[k] = {} => db'.task[k].status = db.task[k].status
<1> DEFINE se == sess[s]
<1>1. /\ RowsKept(se, db.task) /\ se.pc = "commit"
      /\ \A k \in Keys : db.task[k].status = "ABSENT" => ~db.task[k].deleted
  BY CommitChanges DEF CancelInv
<1> SUFFICES ASSUME NEW k \in Keys
             PROVE  /\ db.task[k].deleted => db'.task[k].deleted
                    /\ db.task[k].status # "ABSENT" => db'.task[k].status # "ABSENT"
                    /\ db'.task[k].status = "ABSENT" => ~db'.task[k].deleted
                    /\ se.wrote.task[k] = {} => db'.task[k].status = db.task[k].status
  OBVIOUS
<1>2. "status" \in TaskCols /\ "deleted" \in TaskCols
  BY DEF TaskCols
<1>3. /\ db'.task[k].status = IF "status" \in se.wrote.task[k]
                                THEN se.copy.task[k].status ELSE db.task[k].status
      /\ db'.task[k].deleted = IF "deleted" \in se.wrote.task[k]
                                 THEN se.copy.task[k].deleted ELSE db.task[k].deleted
  BY <1>2, CommitChanges
<1>4. /\ "insert" \in se.wrote.task[k] => "status" \in se.wrote.task[k]
      /\ "status" \in se.wrote.task[k] => se.copy.task[k].status # "ABSENT"
      /\ "deleted" \in se.wrote.task[k] /\ "insert" \notin se.wrote.task[k] =>
           se.copy.task[k].deleted /\ se.copy.task[k].status # "ABSENT"
  BY <1>1 DEF RowsKept, RowWrites
<1>5. /\ se.copy.task[k].status # "ABSENT" =>
           "insert" \in se.wrote.task[k] \/ db.task[k].status # "ABSENT"
      /\ "insert" \in se.wrote.task[k] => db.task[k].status = "ABSENT"
  BY <1>1 DEF RowsKept, RowsSeen
<1> QED
  BY <1>1, <1>3, <1>4, <1>5

LEMMA CancelStep ==
  ASSUME TypeOK, StrandInv, CancelInv, [Next]_vars
  PROVE  CancelInv' /\ \A k \in Keys : db.task[k].deleted => db'.task[k].deleted
<1>0. /\ \A k \in Keys : db.task[k].status = "ABSENT" => ~db.task[k].deleted
      /\ LocksHeld /\ \A o \in Sessions : RowsKept(sess[o], db.task)
  BY DEF CancelInv
<1>1. ASSUME NEW s \in Sessions, Proceeds(s)
      PROVE  CancelInv' /\ db' = db
  <2>1. db' = db /\ \A o \in Sessions \ {s} : sess'[o] = sess[o]
    BY <1>1, ProceedsFrame
  <2>2. /\ RowsKept(sess'[s], db.task)
        /\ \A o \in Sessions \ {s} : ~Conflict(sess'[s].wrote, sess[o].wrote)
    BY <1>1, ProceedsRows
  <2>3. \A o \in Sessions : RowsKept(sess'[o], db'.task)
    BY <1>0, <2>1, <2>2
  <2>4. LocksHeld'
    BY <1>0, <2>1, <2>2, ConflictSymmetric DEF LocksHeld
  <2> QED
    BY <1>0, <2>1, <2>3, <2>4 DEF CancelInv
<1>2. ASSUME NEW s \in Sessions, sess'[s] = NoSession,
             \A o \in Sessions \ {s} : sess'[o] = sess[o]
      PROVE  LocksHeld'
  <2>1. NoSession.wrote = NoWrites
    BY DEF NoSession
  <2> QED
    BY <1>0, <1>2, <2>1, NoLocks DEF LocksHeld
<1>3. ASSUME NEW s \in Sessions, Commit(s)
      PROVE  CancelInv' /\ \A k \in Keys : db.task[k].deleted => db'.task[k].deleted
  <2>1. sess'[s] = NoSession /\ \A o \in Sessions \ {s} : sess'[o] = sess[o]
    BY <1>3, CommitChanges
  <2>2. \A k \in Keys :
          /\ db.task[k].deleted => db'.task[k].deleted
          /\ db.task[k].status # "ABSENT" => db'.task[k].status # "ABSENT"
          /\ db'.task[k].status = "ABSENT" => ~db'.task[k].deleted
          /\ sess[s].wrote.task[k] = {} => db'.task[k].status = db.task[k].status
    BY <1>3, CommitRows
  <2>3. ASSUME NEW o \in Sessions \ {s}
        PROVE  RowsKept(sess'[o], db'.task)
    <3>1. /\ sess'[o] = sess[o] /\ RowsKept(sess[o], db.task)
          /\ ~Conflict(sess[s].wrote, sess[o].wrote)
      BY <1>0, <2>1 DEF LocksHeld
    <3>2. \A k \in Keys : "insert" \in sess[o].wrote.task[k] =>
                            db'.task[k].status = db.task[k].status
      BY <2>2, <3>1 DEF Conflict
    <3> QED
      BY <2>2, <3>1, <3>2 DEF RowsKept, RowsSeen
  <2>4. \A o \in Sessions : RowsKept(sess'[o], db'.task)
    BY <2>1, <2>3, NoSessionRows
  <2> QED
    BY <1>2, <2>1, <2>2, <2>4 DEF CancelInv
<1>4. ASSUME NEW s \in Sessions, Abort(s)
      PROVE  CancelInv' /\ db' = db
  <2>1. /\ sess'[s] = NoSession /\ db' = db
        /\ \A o \in Sessions \ {s} : sess'[o] = sess[o]
    BY <1>4, AbortChanges
  <2>2. \A o \in Sessions : RowsKept(sess'[o], db'.task)
    BY <1>0, <2>1, NoSessionRows
  <2> QED
    BY <1>0, <1>2, <2>1, <2>2 DEF CancelInv
<1>5. CASE Environment
  <2>1. sess' = sess /\ db'.task = db.task
    BY <1>5, EnvironmentChanges
  <2> QED
    BY <1>0, <2>1 DEF CancelInv, LocksHeld
<1>6. CASE UNCHANGED vars
  <2>1. sess' = sess /\ db' = db
    BY <1>6 DEF vars
  <2> QED
    BY <1>0, <2>1 DEF CancelInv, LocksHeld
<1> QED
  BY <1>1, <1>3, <1>4, <1>5, <1>6, NextCases

LEMMA CancelInvariant == Spec => []CancelInv
<1>1. Init => CancelInv
  <2>1. NoSession.wrote = NoWrites
    BY DEF NoSession
  <2>2. \A k \in Keys : NewDatabase.task[k].status = "ABSENT" => ~NewDatabase.task[k].deleted
    BY DEF NewDatabase, NoTask
  <2> QED
    BY <2>1, <2>2, NoSessionRows, NoLocks DEF Init, CancelInv, LocksHeld
<1>2. TypeOK /\ StrandInv /\ CancelInv /\ [Next]_vars => CancelInv'
  BY CancelStep
<1> QED
  BY <1>1, <1>2, TypeCorrect, StrandInvariant, PTL DEF Spec

\* However ticks and requests overlap, abort and crash: no commit brings a
\* cancelled task back, and none makes a new row of its key, not even one whose
\* session looked before the row was there.
THEOREM CancelledStays == Spec => CancelledIsFinal
<1>1. TypeOK /\ StrandInv /\ CancelInv /\ [Next]_vars =>
        [\A k \in Keys : db.task[k].deleted => db'.task[k].deleted]_db
  BY CancelStep
<1> QED
  BY <1>1, TypeCorrect, StrandInvariant, CancelInvariant, PTL DEF Spec, CancelledIsFinal
=============================================================================
