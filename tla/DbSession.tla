------------------------------ MODULE DbSession ------------------------------
(***************************************************************************)
(* What a request does to the database, for the modules whose requests     *)
(* read once and commit once.                                              *)
(*                                                                         *)
(* A database is a record of tables, a table a function from keys to rows, *)
(* a row a record of columns.  The first read of a request fixes a         *)
(* snapshot (REPEATABLE READ); the checks of its handler and the values it *)
(* computes come from that snapshot; its commit updates the columns it has *)
(* changed and no others.  No row carries a version, so a commit never     *)
(* notices what was committed since the snapshot, but for a unique key.    *)
(*                                                                         *)
(* A request that a check refuses changes nothing, so a request is opened  *)
(* only when its checks pass, and what it will commit is computed at once. *)
(***************************************************************************)
CONSTANTS
  Requests,  \* the requests that can be in flight at a time
  Offers,    \* sets of kinds of request: each behaviour takes one of them;
             \* "alone" among the kinds stands for: no two requests overlap
  Alone      \* kinds of request the instance lets no other request overlap

VARIABLES
  db,    \* the committed tables
  sess,  \* the requests in flight
  offer  \* the kinds of request made in this behaviour

\* kind: what the request does; seen: its snapshot; new: what it will commit.
NoRequest == [kind |-> "idle"]

Idle(s) == sess[s].kind = "idle"

\* The columns of a row in which new differs from old replace those of cur.
MergeRow(cur, old, new) ==
  [c \in DOMAIN cur |-> IF new[c] = old[c] THEN cur[c] ELSE new[c]]

MergeTable(cur, old, new) ==
  [k \in DOMAIN cur |-> MergeRow(cur[k], old[k], new[k])]

\* The database cur after the commit of a request that read old and made it new.
Merge(cur, old, new) ==
  [t \in DOMAIN cur |-> MergeTable(cur[t], old[t], new[t])]

\* A key without a row has the status ABSENT.
Present(row) == row.status # "ABSENT"

\* The keys of a table at which new has a row and old has none.
Added(old, new) ==
  {k \in DOMAIN old : Present(new[k]) /\ ~Present(old[k])}

\* An added row meets a row committed since the snapshot.
Collides(cur, old, new) ==
  \E k \in Added(old, new) : Present(cur[k])

-----------------------------------------------------------------------------
InitRequests(tables) ==
  /\ db = tables
  /\ sess = [s \in Requests |-> NoRequest]
  /\ offer \in Offers

Open(s, kind, new) ==
  /\ Idle(s)
  /\ sess' = [sess EXCEPT ![s] = [kind |-> kind, seen |-> db, new |-> new]]
  /\ UNCHANGED <<db, offer>>

Sequential == "alone" \in offer

\* A request the instance lets no other overlap: its two steps are one.
RunAlone(new) ==
  /\ \A o \in Requests : Idle(o)
  /\ db' = new
  /\ UNCHANGED <<sess, offer>>

Request(s, kind, new) ==
  /\ kind \in offer
  /\ IF Sequential \/ kind \in Alone THEN RunAlone(new) ELSE Open(s, kind, new)

\* The commit, of new, of a request that no unique key refuses.
CommitUnless(s, duplicate, new) ==
  /\ ~Idle(s) /\ ~duplicate
  /\ db' = Merge(db, sess[s].seen, new)
  /\ sess' = [sess EXCEPT ![s] = NoRequest]
  /\ UNCHANGED offer

\* IntegrityError, a call that fails in between, or a process that dies.
Abort(s) ==
  /\ ~Idle(s)
  /\ sess' = [sess EXCEPT ![s] = NoRequest]
  /\ UNCHANGED <<db, offer>>
=============================================================================
