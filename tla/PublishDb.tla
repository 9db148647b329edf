------------------------------ MODULE PublishDb ------------------------------
(***************************************************************************)
(* The tables the publish pipeline works on, and what one SQLAlchemy       *)
(* session does to them.  A session reads from the snapshot its            *)
(* transaction opened with (InnoDB, REPEATABLE READ), changes its own      *)
(* objects in memory, sends the changed columns of a row with the next     *)
(* flush (autoflush is off) and publishes them with commit.  No row        *)
(* carries a version: an UPDATE sets its columns whatever the row has      *)
(* become since the snapshot.                                              *)
(*                                                                         *)
(* publish_task is indexed by biz_key: uk_biz_key covers every row, the    *)
(* soft-deleted ones included, so a key never has two rows.                *)
(***************************************************************************)
EXTENDS Naturals, States

CONSTANTS
  Articles,   \* content_article rows
  Keys,       \* biz_keys: "article:{id}" and "group:{id}"
  Content,    \* Content[k]: the articles a task of key k publishes
  Lead        \* Lead[k]: the one in the first position

ASSUME ContentAssumption ==
  /\ Content \in [Keys -> SUBSET Articles]
  /\ Lead \in [Keys -> Articles]
  /\ \A k \in Keys : Lead[k] \in Content[k]

\* last_errcode, as far as the scheduler tells values apart.
ErrCodes == {"NONE", "WX_AUTH_EXPIRED", "OTHER"}

TaskCols == {"status", "deleted", "dispatched", "retries", "err", "next"}
MpCols == {"login", "expires", "alerted"}

\* status is "ABSENT" while the key has no row; next says whether
\* next_retry_at is set (the date itself is left to the environment).
TaskRow ==
  [status: TaskStatus \cup {"ABSENT"}, deleted: BOOLEAN, dispatched: BOOLEAN,
   retries: Nat, err: ErrCodes, next: BOOLEAN]

\* wx_login_expires_at is 0 while it is NULL.
MpRow == [login: WxLoginStatus, expires: Nat, alerted: BOOLEAN]

\* alert: the keys with a publish_log row of phase ALERT.
Database ==
  [task: [Keys -> TaskRow], art: [Articles -> ArticleStatus],
   mp: MpRow, alert: SUBSET Keys]

NoTask ==
  [status |-> "ABSENT", deleted |-> FALSE, dispatched |-> FALSE,
   retries |-> 0, err |-> "NONE", next |-> FALSE]
NewTask == [NoTask EXCEPT !.status = "SCHEDULED"]

NewDatabase ==
  [task |-> [k \in Keys |-> NoTask],
   art |-> [x \in Articles |-> "TRANSFORMED"],
   mp |-> [login |-> "UNAUTHORIZED", expires |-> 0, alerted |-> FALSE],
   alert |-> {}]

\* A row the queries with is_deleted == 0 can see.
Live(row) == row.status # "ABSENT" /\ ~row.deleted

-----------------------------------------------------------------------------
(* The columns a session has changed.  "insert" marks a row it adds. *)

Writes ==
  [task: [Keys -> SUBSET (TaskCols \cup {"insert"})],
   art: SUBSET Articles, mp: SUBSET MpCols, alert: SUBSET Keys]

NoWrites ==
  [task |-> [k \in Keys |-> {}], art |-> {}, mp |-> {}, alert |-> {}]

\* The columns in which new differs from old: what the unit of work finds dirty.
Changes(old, new) ==
  [task |-> [k \in Keys |-> {c \in TaskCols : new.task[k][c] # old.task[k][c]}],
   art |-> {x \in Articles : new.art[x] # old.art[x]},
   mp |-> {c \in MpCols : new.mp[c] # old.mp[c]},
   alert |-> new.alert \ old.alert]

\* Rows added for the keys in K.
Inserts(K) ==
  [NoWrites EXCEPT !.task =
     [k \in Keys |-> IF k \in K THEN TaskCols \cup {"insert"} ELSE {}]]

Join(w1, w2) ==
  [task |-> [k \in Keys |-> w1.task[k] \cup w2.task[k]],
   art |-> w1.art \cup w2.art,
   mp |-> w1.mp \cup w2.mp,
   alert |-> w1.alert \cup w2.alert]

\* Both write a row of their own: the second flush waits for the first commit.
Conflict(w1, w2) ==
  \/ \E k \in Keys : w1.task[k] # {} /\ w2.task[k] # {}
  \/ w1.art \cap w2.art # {}
  \/ w1.mp # {} /\ w2.mp # {}

\* The tables after a commit: the columns in w come from the session's copy,
\* every other column keeps the committed value.
Apply(base, copy, w) ==
  [task |-> [k \in Keys |->
               [c \in TaskCols |->
                  IF c \in w.task[k] THEN copy.task[k][c] ELSE base.task[k][c]]],
   art |-> [x \in Articles |-> IF x \in w.art THEN copy.art[x] ELSE base.art[x]],
   mp |-> [c \in MpCols |-> IF c \in w.mp THEN copy.mp[c] ELSE base.mp[c]],
   alert |-> base.alert \cup w.alert]
=============================================================================
