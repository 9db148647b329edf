-------------------------- MODULE PublishInvariant --------------------------
(***************************************************************************)
(* Why PublishPipeline is safe: what holds of a session between the read   *)
(* it began with and its commit.  The conjuncts are grouped by the         *)
(* property they support; PublishSafetyProofs, PublishCommitProofs and     *)
(* PublishPromiseProofs show them inductive.                               *)
(***************************************************************************)
EXTENDS PublishPipeline

\* The pc a session is bound for.
Target(se) == IF se.pc = "flush" THEN se.then ELSE se.pc

\* dispatched is 1 exactly for the tasks an executor has taken.
Paired(row) == row.dispatched <=> row.status \in {"PUBLISHING", "PUBLISHED", "FAILED"}

-----------------------------------------------------------------------------
(* For NoTaskStranded *)

\* The retry queue of a tick holds FAILED tasks only, and execute_publish
\* returns to where it was called.
QueueKept(se) ==
  /\ se.then \notin {"flush", "call"}
  /\ se.ret \in {"idle", "due", "retry", "commit"}
  /\ Target(se) \in {"login", "due"} => se.ret # "retry"
  /\ se.ret = "retry" => se.cur \notin se.todo
  /\ Target(se) = "retry" \/ se.ret = "retry" =>
       \A k \in se.todo : se.copy.task[k].status = "FAILED"

\* status and dispatched are changed and written together; PUBLISHING lives
\* only as long as the call to the gateway.
DispatchKept(se) ==
  /\ \A k \in Keys :
       /\ Paired(se.copy.task[k])
       /\ se.copy.task[k].status = "PUBLISHING" => se.pc = "call" /\ k = se.cur
       /\ "status" \in se.pend.task[k] <=> "dispatched" \in se.pend.task[k]
       /\ "status" \in se.wrote.task[k] <=> "dispatched" \in se.wrote.task[k]
  /\ se.pc = "call" => /\ se.copy.task[se.cur].status = "PUBLISHING"
                       /\ "status" \in se.pend.task[se.cur]

\* The committed rows.
RowsPaired ==
  \A k \in Keys : Paired(db.task[k]) /\ db.task[k].status # "PUBLISHING"

StrandInv ==
  RowsPaired /\ \A s \in Sessions : QueueKept(sess[s]) /\ DispatchKept(sess[s])

-----------------------------------------------------------------------------
(* For PublishedIsTrue *)

\* What reviews leave alone.
Ready == {"APPROVED", "DRAFT_CREATED"}

\* Only approved articles are published; and with one editor an article is what
\* its review has read, so what a session has read approved no review touches.
ReviewInv ==
  /\ \A s \in Sessions : sess[s].pc = "call" => AllApproved(sess[s].copy, sess[s].cur)
  /\ OneEditor =>
       /\ \A e \in Editors, x \in Articles :
            review[e][x] # "NONE" => db.art[x] = review[e][x]
       /\ \A s \in Sessions, x \in Articles :
            sess[s].copy.art[x] \in Ready => db.art[x] \in Ready

\* A session only ever marks articles DRAFT_CREATED, flushes the marks at once,
\* and what it sees marked is marked in the tables (art) or about to be.
MarksKept(se, art) ==
  /\ se.pc # "flush" => se.pend.art = {}
  /\ \A x \in se.pend.art \cup se.wrote.art : se.copy.art[x] = "DRAFT_CREATED"
  /\ OneEditor => \A x \in Articles :
       se.copy.art[x] = "DRAFT_CREATED" =>
         x \in se.pend.art \cup se.wrote.art \/ art[x] = "DRAFT_CREATED"

\* What a session sees PUBLISHED was delivered (online) and is marked.
ReportTrue(se, online) ==
  \A k \in Keys : se.copy.task[k].status = "PUBLISHED" =>
    /\ \A x \in Delivered(k) : online[x] > 0
    /\ OneEditor => \A x \in Content[k] : se.copy.art[x] = "DRAFT_CREATED"

TruthInv ==
  /\ PublishedIsTrue
  /\ ReviewInv
  /\ \A s \in Sessions : MarksKept(sess[s], db.art) /\ ReportTrue(sess[s], posts)

-----------------------------------------------------------------------------
(* For CancelledIsFinal *)

\* How a session writes a row of publish_task: an INSERT writes status, a
\* status written is one of a row, and is_deleted changes only to 1.
RowWrites(copy, w) ==
  \A k \in Keys :
    /\ "insert" \in w.task[k] => "status" \in w.task[k]
    /\ "status" \in w.task[k] => copy.task[k].status # "ABSENT"
    /\ "deleted" \in w.task[k] /\ "insert" \notin w.task[k] =>
         copy.task[k].deleted /\ copy.task[k].status # "ABSENT"

\* A row a session sees is in the table (tasks), unless it is its own INSERT;
\* and a flushed INSERT keeps everyone else from making a row of that key.
RowsSeen(se, tasks) ==
  \A k \in Keys :
    /\ se.copy.task[k].status # "ABSENT" =>
         \/ "insert" \in se.pend.task[k] \cup se.wrote.task[k]
         \/ tasks[k].status # "ABSENT"
    /\ "insert" \in se.pend.task[k] => se.pc = "flush"
    /\ "insert" \in se.wrote.task[k] => tasks[k].status = "ABSENT"

\* Row locks: no two sessions have flushed changes of one row.
LocksHeld ==
  \A s, o \in Sessions : s # o => ~Conflict(sess[s].wrote, sess[o].wrote)

RowsKept(se, tasks) ==
  RowWrites(se.copy, se.pend) /\ RowWrites(se.copy, se.wrote) /\ RowsSeen(se, tasks)

CancelInv ==
  /\ \A k \in Keys : db.task[k].status = "ABSENT" => ~db.task[k].deleted
  /\ LocksHeld
  /\ \A s \in Sessions : RowsKept(sess[s], db.task)

-----------------------------------------------------------------------------
(* For AtMostOnce and KeepsPromise: one session, one editor, and no faults *)

Undisturbed == Faults = {} /\ OneEditor /\ \A s, o \in Sessions : s = o

\* What is online was put there once and is marked, in the tables or for the
\* session that is under way.
OnlineMarked ==
  \A x \in Articles :
    /\ posts[x] <= 1
    /\ posts[x] > 0 => \A s \in Sessions :
         (IF Idle(s) THEN db ELSE sess[s].copy).art[x] = "DRAFT_CREATED"

\* An operation ends with its commit, takes up only tasks that are not
\* cancelled, publishes only what is approved, and marks nothing before its
\* INSERTs have passed.
CourseKept(se) ==
  /\ se.pc # "idle" => /\ Target(se) # "idle"
                       /\ Target(se) \in {"exec", "call"} => se.ret # "idle"
  /\ Target(se) \in {"exec", "call"} => ~se.copy.task[se.cur].deleted
  /\ \A k \in se.todo : ~se.copy.task[k].deleted
  /\ se.pc = "call" => AllApproved(se.copy, se.cur)
  /\ \A k \in Keys : "insert" \in se.pend.task[k] =>
       se.pend.art = {} /\ se.wrote.art = {}

\* A session that publishes cancels nothing, and takes no PUBLISHED back; ...
Publishing(se, tasks) ==
  \A k \in Keys :
    /\ se.copy.task[k].status = "PUBLISHED" => ~se.copy.task[k].deleted
    /\ IF "insert" \in se.pend.task[k] THEN ~se.copy.task[k].deleted
       ELSE /\ se.copy.task[k].deleted = tasks[k].deleted
            /\ tasks[k].status = "PUBLISHED" => se.copy.task[k].status = "PUBLISHED"

\* ... one that cancels changes one SCHEDULED task, and commits.
Cancelling(se, tasks) ==
  /\ Target(se) = "commit"
  /\ \E k \in Keys : /\ tasks[k].status = "SCHEDULED"
                     /\ se.copy.task[k].status = "SCHEDULED"
                     /\ \A j \in Keys \ {k} : se.copy.task[j] = tasks[j]

AloneInv ==
  /\ \A k \in Keys : db.task[k].status = "PUBLISHED" => ~db.task[k].deleted
  /\ OnlineMarked
  /\ \A s \in Sessions :
       /\ CourseKept(sess[s])
       /\ Idle(s) \/ Publishing(sess[s], db.task) \/ Cancelling(sess[s], db.task)
-----------------------------------------------------------------------------
(* For LossCostsNoRetry: ticks only, one after the other *)

TicksInTurn == Clients = {} /\ \A s, o \in Sessions : s = o

\* A task that waits for the login has no backoff set.
NoBackoff(row) ==
  row.status = "FAILED" /\ row.err = "WX_AUTH_EXPIRED" => ~row.next

\* What a tick has changed it flushes before it goes on; where its copy differs
\* from the tables it has changed the row, so a row in its retry queue, which
\* had a backoff before this tick, does not wait for the login.
TickKept(se) ==
  /\ se.pc \notin {"flush", "call"} => \A k \in Keys : se.pend.task[k] = {}
  /\ \A k \in Keys :
       /\ NoBackoff(se.copy.task[k])
       /\ \A c \in TaskCols : se.copy.task[k][c] # db.task[k][c] =>
            c \in se.pend.task[k] \cup se.wrote.task[k]
       /\ AwaitsLogin(k) =>
            /\ se.copy.task[k].retries = db.task[k].retries
            /\ Target(se) = "retry" \/ se.ret = "retry" => k \notin se.todo

LossInv ==
  /\ \A k \in Keys : NoBackoff(db.task[k])
  /\ \A s \in Sessions : Idle(s) \/ TickKept(sess[s])
=============================================================================
