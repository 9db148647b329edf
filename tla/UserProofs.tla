---------------------------- MODULE UserProofs ----------------------------
(***************************************************************************)
(* The invariants of UserAccounts, for any users, accounts, logins and     *)
(* requests in flight.                                                     *)
(***************************************************************************)
EXTENDS UserAccounts, FiniteSetTheorems, WellFoundedInduction, TLAPS

UserRow == [status: {"ABSENT", "ENABLED", "DISABLED"}]
RoleRow == [status: {"ABSENT", "HELD"}]
AssignRow == [status: {"ABSENT", "LIVE", "REMOVED"}, level: Levels \cup {0}]
AccountRow == [status: {"ABSENT", "CREATED"}]

Tables ==
  [user: [Users -> UserRow], role: [Users \X Roles -> RoleRow],
   assign: [Assignments -> AssignRow], mp: [Accounts -> AccountRow]]

HasRole(d, u, r) == d.role[<<u, r>>].status = "HELD"

\* A user has a role, and nobody else has; an assignment has a level, a user and
\* an account.
Sound(d) ==
  /\ d \in Tables
  /\ \A u \in Users : Present(d.user[u]) <=> \E r \in Roles : HasRole(d, u, r)
  /\ \A u \in Users, p \in Accounts, n \in 1..MaxRows :
       LET row == d.assign[<<u, p, n>>]
       IN  /\ Present(row) <=> row.level \in Levels
           /\ Present(row) => Present(d.user[u]) /\ Present(d.mp[p])

\* Somebody in office is super administrator.
Governed(d) ==
  \E u \in Users : d.user[u].status = "ENABLED" /\ HasRole(d, u, "super_admin")

\* uk_user_mp
OneLive(d) ==
  \A u \in Users, p \in Accounts : \A m, n \in LiveRows(d, u, p) : m = n

\* No row of the tables has gone.
Grown(old, cur) ==
  /\ \A u \in Users : Present(old.user[u]) => Present(cur.user[u])
  /\ \A p \in Accounts : Present(old.mp[p]) => Present(cur.mp[p])
  /\ \A k \in Assignments : Present(old.assign[k]) => Present(cur.assign[k])

\* What a request that has read old may commit, but a change of status or roles:
\* a user comes with a role,
UserChange(old, new) ==
  /\ \A u \in Users : new.user[u].status # old.user[u].status =>
       /\ ~Present(old.user[u]) /\ new.user[u].status = "ENABLED"
       /\ \E r \in Roles : HasRole(new, u, r) /\ ~HasRole(old, u, r)
  /\ \A u \in Users, r \in Roles :
       new.role[<<u, r>>].status # old.role[<<u, r>>].status =>
         HasRole(new, u, r) /\ new.user[u].status # old.user[u].status

\* an assignment is removed, gets a level, or is added where none is alive, with
\* a level, to a user and an account that exist,
AssignChange(old, new) ==
  \A u \in Users, p \in Accounts, n \in 1..MaxRows :
    LET was == old.assign[<<u, p, n>>]
        row == new.assign[<<u, p, n>>]
    IN  /\ row.status # was.status =>
             \/ was.status = "LIVE" /\ row.status = "REMOVED"
             \/ /\ ~Present(was) /\ row.status = "LIVE" /\ row.level # was.level
                /\ LiveRows(old, u, p) = {}
                /\ Present(old.user[u]) /\ Present(old.mp[p])
                /\ \A m \in 1..MaxRows :
                     new.assign[<<u, p, m>>].status # old.assign[<<u, p, m>>].status
                       => m = n
        /\ row.level # was.level => Present(row) /\ row.level \in Levels

\* and an account is created.
AccountChange(old, new) ==
  \A p \in Accounts : new.mp[p].status # old.mp[p].status => ~Present(old.mp[p])

Change(old, new) ==
  /\ old \in Tables /\ new \in Tables
  /\ Sound(old)
  /\ UserChange(old, new) /\ AssignChange(old, new) /\ AccountChange(old, new)

\* Every request in flight holds such a change of what its snapshot was.
RequestsOK ==
  /\ sess \in [Requests -> {NoRequest} \cup [kind: Kinds, seen: Tables, new: Tables]]
  /\ \A s \in Requests :
       ~Idle(s) => Change(sess[s].seen, sess[s].new) /\ Grown(sess[s].seen, db)

AdminInv == Sound(db) /\ Governed(db) /\ OneLive(db) /\ RequestsOK /\ offer \in Offers

-----------------------------------------------------------------------------
Verifying(u) == {t \in Tries : try[t].pc = "verify" /\ try[t].user = u}

\* The count in Redis is the number of wrong passwords; those to come are among
\* the logins that have passed the check.
LoginInv ==
  /\ fails \in [Users -> [n: Nat, expires: BOOLEAN]]
  /\ wrong \in [Users -> Nat]
  /\ try \in [Tries -> {NoTry} \cup [pc: {"expire"}, user: Users]
                         \cup [pc: {"verify"}, user: Users, seen: Nat]]
  /\ \A u \in Users :
       /\ wrong[u] = fails[u].n
       /\ fails[u].n + Cardinality(Verifying(u)) <= MaxFail - 1 + Cardinality(Tries)

-----------------------------------------------------------------------------
(* Merging a change into the tables *)

\* A row takes the columns of new that differ from those of old.
LEMMA AssignRowMerge ==
  ASSUME NEW cur \in AssignRow, NEW old \in AssignRow, NEW new \in AssignRow
  PROVE  /\ MergeRow(cur, old, new) \in AssignRow
         /\ MergeRow(cur, old, new).status
              = IF new.status = old.status THEN cur.status ELSE new.status
         /\ MergeRow(cur, old, new).level
              = IF new.level = old.level THEN cur.level ELSE new.level
  BY DEF MergeRow, AssignRow

\* A key of the tables of roles and assignments, and the parts of the tables.
LEMMA Keys ==
  /\ \A u \in Users, r \in Roles : <<u, r>> \in Users \X Roles
  /\ \A u \in Users, p \in Accounts, n \in 1..MaxRows :
       /\ <<u, p, n>> \in Assignments
       /\ <<u, p, n>>[1] = u /\ <<u, p, n>>[2] = p /\ <<u, p, n>>[3] = n
  /\ \A k \in Assignments :
       /\ k[1] \in Users /\ k[2] \in Accounts /\ k[3] \in 1..MaxRows
       /\ k = <<k[1], k[2], k[3]>>
  BY DEF Assignments

\* d is cur with what new changes of old, column by column.
MergedAs(d, cur, old, new) ==
  /\ d \in Tables
  /\ \A u \in Users :
       d.user[u].status = IF new.user[u].status = old.user[u].status
                          THEN cur.user[u].status ELSE new.user[u].status
  /\ \A x \in Users \X Roles :
       d.role[x].status = IF new.role[x].status = old.role[x].status
                          THEN cur.role[x].status ELSE new.role[x].status
  /\ \A k \in Assignments :
       /\ d.assign[k].status = IF new.assign[k].status = old.assign[k].status
                               THEN cur.assign[k].status ELSE new.assign[k].status
       /\ d.assign[k].level = IF new.assign[k].level = old.assign[k].level
                              THEN cur.assign[k].level ELSE new.assign[k].level
  /\ \A p \in Accounts :
       d.mp[p].status = IF new.mp[p].status = old.mp[p].status
                        THEN cur.mp[p].status ELSE new.mp[p].status

LEMMA Merged ==
  ASSUME NEW cur \in Tables, NEW old \in Tables, NEW new \in Tables
  PROVE  MergedAs(Merge(cur, old, new), cur, old, new)
<1> DEFINE d == Merge(cur, old, new)
<1>1. /\ d.user = MergeTable(cur.user, old.user, new.user)
      /\ d.role = MergeTable(cur.role, old.role, new.role)
      /\ d.assign = MergeTable(cur.assign, old.assign, new.assign)
      /\ d.mp = MergeTable(cur.mp, old.mp, new.mp)
      /\ d = [user |-> d.user, role |-> d.role, assign |-> d.assign, mp |-> d.mp]
  BY DEF Tables, Merge
<1>2. /\ cur.user \in [Users -> UserRow] /\ cur.role \in [Users \X Roles -> RoleRow]
      /\ cur.assign \in [Assignments -> AssignRow] /\ cur.mp \in [Accounts -> AccountRow]
      /\ old.user \in [Users -> UserRow] /\ old.role \in [Users \X Roles -> RoleRow]
      /\ old.assign \in [Assignments -> AssignRow] /\ old.mp \in [Accounts -> AccountRow]
      /\ new.user \in [Users -> UserRow] /\ new.role \in [Users \X Roles -> RoleRow]
      /\ new.assign \in [Assignments -> AssignRow] /\ new.mp \in [Accounts -> AccountRow]
  BY DEF Tables
<1> HIDE DEF d
<1>3. ASSUME NEW u \in Users
      PROVE  /\ d.user[u] \in UserRow
             /\ d.user[u].status = IF new.user[u].status = old.user[u].status
                                   THEN cur.user[u].status ELSE new.user[u].status
  <2>1. \A a, b, c \in UserRow :
          /\ MergeRow(a, b, c) \in UserRow
          /\ MergeRow(a, b, c).status = IF c.status = b.status THEN a.status ELSE c.status
    BY DEF MergeRow, UserRow
  <2> QED
    BY <1>1, <1>2, <2>1 DEF MergeTable
<1>4. ASSUME NEW x \in Users \X Roles
      PROVE  /\ d.role[x] \in RoleRow
             /\ d.role[x].status = IF new.role[x].status = old.role[x].status
                                   THEN cur.role[x].status ELSE new.role[x].status
  <2>1. \A a, b, c \in RoleRow :
          /\ MergeRow(a, b, c) \in RoleRow
          /\ MergeRow(a, b, c).status = IF c.status = b.status THEN a.status ELSE c.status
    BY DEF MergeRow, RoleRow
  <2> QED
    BY <1>1, <1>2, <2>1 DEF MergeTable
<1>5. ASSUME NEW k \in Assignments
      PROVE  /\ d.assign[k] \in AssignRow
             /\ d.assign[k].status = IF new.assign[k].status = old.assign[k].status
                                     THEN cur.assign[k].status ELSE new.assign[k].status
             /\ d.assign[k].level = IF new.assign[k].level = old.assign[k].level
                                    THEN cur.assign[k].level ELSE new.assign[k].level
  BY <1>1, <1>2, AssignRowMerge DEF MergeTable
<1>6. ASSUME NEW p \in Accounts
      PROVE  /\ d.mp[p] \in AccountRow
             /\ d.mp[p].status = IF new.mp[p].status = old.mp[p].status
                                 THEN cur.mp[p].status ELSE new.mp[p].status
  <2>1. \A a, b, c \in AccountRow :
          /\ MergeRow(a, b, c) \in AccountRow
          /\ MergeRow(a, b, c).status = IF c.status = b.status THEN a.status ELSE c.status
    BY DEF MergeRow, AccountRow
  <2> QED
    BY <1>1, <1>2, <2>1 DEF MergeTable
<1>7. /\ d.user \in [Users -> UserRow] /\ d.role \in [Users \X Roles -> RoleRow]
      /\ d.assign \in [Assignments -> AssignRow] /\ d.mp \in [Accounts -> AccountRow]
  BY <1>1, <1>2, <1>3, <1>4, <1>5, <1>6 DEF MergeTable
<1>8. d \in Tables
  BY <1>1, <1>7 DEF Tables
<1> QED
  BY <1>3, <1>4, <1>5, <1>6, <1>8 DEF d, MergedAs

\* uk_username and uk_user_mp, on a commit of new by a request that has read old.
Clashes(cur, old, new) ==
  \/ Collides(cur.user, old.user, new.user)
  \/ \E k \in Added(old.assign, new.assign) : LiveRows(cur, k[1], k[2]) # {}

\* A commit that no unique key refuses keeps the tables sound, somebody in
\* office and one level per account, and takes no row away.
LEMMA CommitKeeps ==
  ASSUME NEW cur, NEW old, NEW new, NEW d,
         Sound(cur), Change(old, new), Grown(old, cur),
         ~Clashes(cur, old, new), MergedAs(d, cur, old, new)
  PROVE  /\ Sound(d) /\ Grown(cur, d)
         /\ Governed(cur) => Governed(d)
         /\ OneLive(cur) => OneLive(d)
<1>1. cur \in Tables /\ old \in Tables /\ new \in Tables
  BY DEF Sound, Change
<1>2. /\ d \in Tables
      /\ \A u \in Users :
           d.user[u].status = IF new.user[u].status = old.user[u].status
                              THEN cur.user[u].status ELSE new.user[u].status
      /\ \A x \in Users \X Roles :
           d.role[x].status = IF new.role[x].status = old.role[x].status
                              THEN cur.role[x].status ELSE new.role[x].status
      /\ \A k \in Assignments :
           /\ d.assign[k].status = IF new.assign[k].status = old.assign[k].status
                                   THEN cur.assign[k].status ELSE new.assign[k].status
           /\ d.assign[k].level = IF new.assign[k].level = old.assign[k].level
                                  THEN cur.assign[k].level ELSE new.assign[k].level
      /\ \A p \in Accounts :
           d.mp[p].status = IF new.mp[p].status = old.mp[p].status
                            THEN cur.mp[p].status ELSE new.mp[p].status
  BY DEF MergedAs
<1>3. ASSUME NEW u \in Users, new.user[u].status # old.user[u].status
      PROVE  ~Present(cur.user[u])
  BY <1>1, <1>3 DEF Clashes, Collides, Added, Change, UserChange, Tables, Present
<1>4. ASSUME NEW u \in Users
      PROVE  Present(d.user[u]) <=> \E r \in Roles : HasRole(d, u, r)
  <2>1. CASE new.user[u].status # old.user[u].status
    <3>1. d.user[u].status = "ENABLED"
      BY <1>2, <2>1 DEF Change, UserChange
    <3>2. PICK r \in Roles : HasRole(new, u, r) /\ ~HasRole(old, u, r)
      BY <2>1 DEF Change, UserChange
    <3>3. HasRole(d, u, r)
      BY <1>2, <3>2, Keys DEF HasRole
    <3> QED
      BY <3>1, <3>3 DEF Present
  <2>2. CASE new.user[u].status = old.user[u].status
    <3>1. \A r \in Roles : HasRole(d, u, r) <=> HasRole(cur, u, r)
      BY <1>2, <2>2, Keys DEF HasRole, Change, UserChange
    <3> QED
      BY <1>2, <2>2, <3>1 DEF Sound, Present
  <2> QED
    BY <2>1, <2>2
<1>5. \A u \in Users : Present(cur.user[u]) => Present(d.user[u])
  BY <1>2 DEF Present, Change, UserChange
<1>6. \A p \in Accounts : Present(cur.mp[p]) => Present(d.mp[p])
  BY <1>1, <1>2 DEF Present, Change, AccountChange, Tables, AccountRow
<1>7. ASSUME NEW u \in Users, NEW p \in Accounts, NEW n \in 1..MaxRows
      PROVE  LET row == d.assign[<<u, p, n>>]
             IN  /\ Present(row) <=> row.level \in Levels
                 /\ Present(row) => Present(d.user[u]) /\ Present(d.mp[p])
                 /\ Present(cur.assign[<<u, p, n>>]) => Present(row)
  <2> DEFINE k == <<u, p, n>>
             row == d.assign[k]
  <2>1. k \in Assignments
    BY Keys
  <2>2. /\ cur.assign[k] \in AssignRow /\ old.assign[k] \in AssignRow
        /\ new.assign[k] \in AssignRow /\ row \in AssignRow
    BY <1>1, <1>2, <2>1 DEF Tables
  <2>3. /\ Present(cur.assign[k]) <=> cur.assign[k].level \in Levels
        /\ Present(cur.assign[k]) => Present(cur.user[u]) /\ Present(cur.mp[p])
    BY DEF Sound
  <2>4. Present(old.assign[k]) => Present(cur.assign[k])
    BY <2>1 DEF Grown
  <2>5. /\ row.status = IF new.assign[k].status = old.assign[k].status
                        THEN cur.assign[k].status ELSE new.assign[k].status
        /\ row.level = IF new.assign[k].level = old.assign[k].level
                       THEN cur.assign[k].level ELSE new.assign[k].level
    BY <1>2, <2>1
  <2>6. /\ new.assign[k].status # old.assign[k].status =>
             \/ old.assign[k].status = "LIVE" /\ new.assign[k].status = "REMOVED"
             \/ /\ ~Present(old.assign[k]) /\ new.assign[k].status = "LIVE"
                /\ new.assign[k].level # old.assign[k].level
                /\ Present(old.user[u]) /\ Present(old.mp[p])
        /\ new.assign[k].level # old.assign[k].level =>
             Present(new.assign[k]) /\ new.assign[k].level \in Levels
    BY DEF Change, AssignChange
  <2>7. Present(row) <=> row.level \in Levels
    BY <2>2, <2>3, <2>4, <2>5, <2>6 DEF Present
  <2>8. Present(cur.assign[k]) => Present(row)
    BY <2>5, <2>6 DEF Present
  <2>9. ASSUME Present(row)
        PROVE  Present(d.user[u]) /\ Present(d.mp[p])
    <3>1. Present(cur.user[u]) /\ Present(cur.mp[p])
      <4>1. CASE Present(cur.assign[k])
        BY <2>3, <4>1
      <4>2. CASE ~Present(cur.assign[k])
        <5>1. Present(old.user[u]) /\ Present(old.mp[p])
          BY <2>4, <2>5, <2>6, <2>9, <4>2 DEF Present
        <5> QED
          BY <5>1 DEF Grown
      <4> QED
        BY <4>1, <4>2
    <3> QED
      BY <1>5, <1>6, <3>1
  <2> QED
    BY <2>7, <2>8, <2>9
<1>8. Sound(d)
  BY <1>2, <1>4, <1>7 DEF Sound
<1>9. Grown(cur, d)
  BY <1>5, <1>6, <1>7, Keys DEF Grown
<1>10. ASSUME Governed(cur)
       PROVE  Governed(d)
  <2>1. PICK u \in Users : cur.user[u].status = "ENABLED" /\ HasRole(cur, u, "super_admin")
    BY <1>10 DEF Governed
  <2>2. d.user[u].status = "ENABLED"
    BY <1>2, <2>1 DEF Change, UserChange
  <2>3. HasRole(d, u, "super_admin")
    BY <1>2, <2>1, Keys, AccountsAssumption DEF Change, UserChange, HasRole
  <2> QED
    BY <2>2, <2>3 DEF Governed
<1>11. ASSUME OneLive(cur)
       PROVE  OneLive(d)
  <2>1. ASSUME NEW u \in Users, NEW p \in Accounts,
               NEW m \in LiveRows(d, u, p), NEW n \in LiveRows(d, u, p)
        PROVE  m = n
    <3> DEFINE New(i) == new.assign[<<u, p, i>>]
               Old(i) == old.assign[<<u, p, i>>]
    <3>1. /\ m \in 1..MaxRows /\ d.assign[<<u, p, m>>].status = "LIVE"
          /\ n \in 1..MaxRows /\ d.assign[<<u, p, n>>].status = "LIVE"
      BY DEF LiveRows
    <3>2. ASSUME NEW i \in 1..MaxRows, d.assign[<<u, p, i>>].status = "LIVE",
                 New(i).status # Old(i).status
          PROVE  /\ LiveRows(cur, u, p) = {}
                 /\ \A j \in 1..MaxRows : New(j).status # Old(j).status => j = i
      <4>1. New(i).status = "LIVE" /\ <<u, p, i>> \in Assignments
        BY <1>2, <3>2, Keys
      <4>2. /\ ~Present(Old(i))
            /\ \A j \in 1..MaxRows : New(j).status # Old(j).status => j = i
        BY <3>2, <4>1 DEF Change, AssignChange
      <4>3. <<u, p, i>> \in Added(old.assign, new.assign)
        BY <1>1, <4>1, <4>2 DEF Added, Present, Tables
      <4> QED
        BY <4>2, <4>3, Keys DEF Clashes
    <3>3. CASE New(m).status # Old(m).status \/ New(n).status # Old(n).status
      <4>1. LiveRows(cur, u, p) = {}
        BY <3>1, <3>2, <3>3
      <4>2. New(m).status # Old(m).status /\ New(n).status # Old(n).status
        BY <1>2, <3>1, <4>1, Keys DEF LiveRows
      <4> QED
        BY <3>1, <3>2, <4>2
    <3>4. CASE New(m).status = Old(m).status /\ New(n).status = Old(n).status
      <4>1. m \in LiveRows(cur, u, p) /\ n \in LiveRows(cur, u, p)
        BY <1>2, <3>1, <3>4, Keys DEF LiveRows
      <4> QED
        BY <1>11, <4>1 DEF OneLive
    <3> QED
      BY <3>3, <3>4
  <2> QED
    BY <2>1 DEF OneLive
<1> QED
  BY <1>8, <1>9, <1>10, <1>11

-----------------------------------------------------------------------------
(* The requests *)

\* A nonempty set of numbers has a least element.
LEMMA MinIn ==
  ASSUME NEW S \in SUBSET Nat, S # {}
  PROVE  Min(S) \in S
<1> DEFINE R == {p \in Nat \X Nat : p[1] < p[2]}
<1>1. IsWellFoundedOn(R, Nat)
  BY NatLessThanWellFounded DEF OpToRel
<1>2. PICK x \in S : \A y \in S : ~(<<y, x>> \in R)
  BY <1>1, WFMin
<1>3. ASSUME NEW y \in S
      PROVE  x =< y
  <2>1. ~(<<y, x>> \in R)
    BY <1>2
  <2>2. <<y, x>> \in Nat \X Nat /\ <<y, x>>[1] = y /\ <<y, x>>[2] = x
    OBVIOUS
  <2> QED
    BY <2>1, <2>2
<1> QED
  BY <1>3 DEF Min

\* create_user
LEMMA CreateUserChange ==
  ASSUME Sound(db), NEW u \in Users, ~Present(db.user[u]), NEW r \in Roles
  PROVE  Change(db, WithRole(u, r))
<1> DEFINE new == WithRole(u, r)
<1>1. /\ db.user \in [Users -> UserRow] /\ db.role \in [Users \X Roles -> RoleRow]
      /\ db.assign \in [Assignments -> AssignRow] /\ db.mp \in [Accounts -> AccountRow]
      /\ <<u, r>> \in Users \X Roles
  BY Keys DEF Sound, Tables
<1>2. /\ new.user = [db.user EXCEPT ![u].status = "ENABLED"]
      /\ new.role = [db.role EXCEPT ![<<u, r>>].status = "HELD"]
      /\ new.assign = db.assign /\ new.mp = db.mp
      /\ new = [user |-> new.user, role |-> new.role, assign |-> new.assign, mp |-> new.mp]
  <2>1. db \in [user: {db.user}, role: {db.role}, assign: {db.assign}, mp: {db.mp}]
    BY DEF Sound, Tables
  <2>2. new.user = [db.user EXCEPT ![u].status = "ENABLED"]
    BY <2>1 DEF WithRole
  <2>3. new.role = [db.role EXCEPT ![<<u, r>>].status = "HELD"]
    BY <2>1 DEF WithRole
  <2>4. new.assign = db.assign /\ new.mp = db.mp
    BY <2>1 DEF WithRole
  <2>5. new = [user |-> new.user, role |-> new.role, assign |-> new.assign, mp |-> new.mp]
    <3>1. new \in [user: {new.user}, role: {new.role}, assign: {new.assign}, mp: {new.mp}]
      BY <2>1 DEF WithRole
    <3> HIDE DEF new
    <3> QED
      BY <3>1
  <2> QED
    BY <2>2, <2>3, <2>4, <2>5
<1> HIDE DEF new
<1>3. /\ new.user \in [Users -> UserRow]
      /\ \A v \in Users : v # u => new.user[v] = db.user[v]
      /\ new.user[u].status = "ENABLED"
  BY <1>1, <1>2 DEF UserRow
<1>4. /\ new.role \in [Users \X Roles -> RoleRow]
      /\ \A x \in Users \X Roles : x # <<u, r>> => new.role[x] = db.role[x]
      /\ new.role[<<u, r>>].status = "HELD"
  BY <1>1, <1>2 DEF RoleRow
<1>5. new \in Tables
  BY <1>1, <1>2, <1>3, <1>4 DEF Tables
<1>6. ~HasRole(db, u, r)
  BY DEF Sound
<1>7. UserChange(db, new)
  <2>1. ASSUME NEW v \in Users, new.user[v].status # db.user[v].status
        PROVE  /\ ~Present(db.user[v]) /\ new.user[v].status = "ENABLED"
               /\ \E q \in Roles : HasRole(new, v, q) /\ ~HasRole(db, v, q)
    BY <1>3, <1>4, <1>6, <2>1 DEF HasRole
  <2>2. ASSUME NEW v \in Users, NEW q \in Roles,
               new.role[<<v, q>>].status # db.role[<<v, q>>].status
        PROVE  HasRole(new, v, q) /\ new.user[v].status # db.user[v].status
    <3>1. <<v, q>> = <<u, r>>
      BY <1>4, <2>2, Keys
    <3> QED
      BY <1>3, <1>4, <3>1 DEF HasRole, Present
  <2> QED
    BY <2>1, <2>2 DEF UserChange
<1>8. AssignChange(db, new) /\ AccountChange(db, new)
  BY <1>2 DEF AssignChange, AccountChange
<1> QED
  BY <1>5, <1>7, <1>8 DEF Change, Sound, new

\* create_account
LEMMA CreateAccountChange ==
  ASSUME Sound(db), NEW p \in Accounts, ~Present(db.mp[p])
  PROVE  Change(db, [db EXCEPT !.mp[p].status = "CREATED"])
<1> DEFINE new == [db EXCEPT !.mp[p].status = "CREATED"]
<1>1. /\ db.user \in [Users -> UserRow] /\ db.role \in [Users \X Roles -> RoleRow]
      /\ db.assign \in [Assignments -> AssignRow] /\ db.mp \in [Accounts -> AccountRow]
  BY DEF Sound, Tables
<1>2. /\ new.user = db.user /\ new.role = db.role /\ new.assign = db.assign
      /\ new.mp = [db.mp EXCEPT ![p].status = "CREATED"]
      /\ new = [user |-> new.user, role |-> new.role, assign |-> new.assign, mp |-> new.mp]
  BY DEF Sound, Tables
<1> HIDE DEF new
<1>3. new.mp \in [Accounts -> AccountRow] /\ \A q \in Accounts : q # p => new.mp[q] = db.mp[q]
  BY <1>1, <1>2 DEF AccountRow
<1>4. new \in Tables
  BY <1>1, <1>2, <1>3 DEF Tables
<1>5. UserChange(db, new) /\ AssignChange(db, new) /\ AccountChange(db, new)
  BY <1>2, <1>3 DEF UserChange, AssignChange, AccountChange
<1> QED
  BY <1>4, <1>5 DEF Change, Sound, new

\* set_assignees: within one request an account gets at most one new row for a
\* user, and only where no row is alive.
LEMMA SetAssigneesChange ==
  ASSUME Sound(db), NEW p \in Accounts, Present(db.mp[p]),
         NEW desired \in [Users -> Levels \cup {0}],
         \A u \in Users : desired[u] > 0 =>
           Present(db.user[u]) /\ (LiveRows(db, u, p) # {} \/ FreeRows(u, p) # {})
  PROVE  Change(db, [db EXCEPT !.assign = Reassigned(p, desired)])
<1> DEFINE new == [db EXCEPT !.assign = Reassigned(p, desired)]
<1>1. /\ db.user \in [Users -> UserRow] /\ db.role \in [Users \X Roles -> RoleRow]
      /\ db.assign \in [Assignments -> AssignRow] /\ db.mp \in [Accounts -> AccountRow]
  BY DEF Sound, Tables
<1>2. /\ new.user = db.user /\ new.role = db.role /\ new.mp = db.mp
      /\ new.assign = Reassigned(p, desired)
      /\ new = [user |-> new.user, role |-> new.role, assign |-> new.assign, mp |-> new.mp]
  BY DEF Sound, Tables
<1> HIDE DEF new
<1>3. Levels \subseteq Nat \ {0}
  BY AccountsAssumption
<1>4. ASSUME NEW u \in Users, LiveRows(db, u, p) = {}, desired[u] > 0
      PROVE  Min(FreeRows(u, p)) \in FreeRows(u, p)
  <2>1. FreeRows(u, p) # {} /\ FreeRows(u, p) \in SUBSET Nat
    BY <1>4 DEF FreeRows
  <2> QED
    BY <2>1, MinIn
<1>5. ASSUME NEW u \in Users, NEW n \in 1..MaxRows
      PROVE  LET was == db.assign[<<u, p, n>>]
                 row == new.assign[<<u, p, n>>]
                 live == LiveRows(db, u, p)
             IN  \/ /\ was.status = "LIVE" /\ desired[u] = 0
                    /\ row = [was EXCEPT !.status = "REMOVED"]
                 \/ /\ was.status = "LIVE" /\ desired[u] # 0
                    /\ row = [was EXCEPT !.level = desired[u]]
                 \/ /\ live = {} /\ desired[u] > 0 /\ n = Min(FreeRows(u, p))
                    /\ row = [status |-> "LIVE", level |-> desired[u]]
                 \/ row = was
  <2> DEFINE was == db.assign[<<u, p, n>>]
             row == new.assign[<<u, p, n>>]
             live == LiveRows(db, u, p)
  <2>1. row = IF n \in live
              THEN IF desired[u] = 0 THEN [was EXCEPT !.status = "REMOVED"]
                   ELSE [was EXCEPT !.level = desired[u]]
              ELSE IF live = {} /\ desired[u] > 0 /\ n = Min(FreeRows(u, p))
              THEN [status |-> "LIVE", level |-> desired[u]]
              ELSE was
    <3>1. /\ <<u, p, n>> \in Assignments
          /\ <<u, p, n>>[1] = u /\ <<u, p, n>>[2] = p /\ <<u, p, n>>[3] = n
      BY Keys
    <3> QED
      BY <1>2, <3>1 DEF Reassigned
  <2>2. n \in live <=> was.status = "LIVE"
    BY DEF LiveRows
  <2> QED
    BY <2>1, <2>2
<1>6. ASSUME NEW u \in Users, NEW q \in Accounts, NEW n \in 1..MaxRows, q # p
      PROVE  new.assign[<<u, q, n>>] = db.assign[<<u, q, n>>]
  BY <1>2, <1>6, Keys DEF Reassigned
<1>7. ASSUME NEW u \in Users, NEW n \in 1..MaxRows
      PROVE  LET was == db.assign[<<u, p, n>>]
                 row == new.assign[<<u, p, n>>]
             IN  /\ row \in AssignRow
                 /\ row.status # was.status =>
                      \/ was.status = "LIVE" /\ row.status = "REMOVED"
                      \/ /\ ~Present(was) /\ row.status = "LIVE" /\ row.level # was.level
                         /\ LiveRows(db, u, p) = {} /\ Present(db.user[u])
                         /\ n = Min(FreeRows(u, p))
                 /\ row.level # was.level => Present(row) /\ row.level \in Levels
  <2> DEFINE was == db.assign[<<u, p, n>>]
             row == new.assign[<<u, p, n>>]
  <2>1. /\ was \in AssignRow /\ (Present(was) <=> was.level \in Levels)
        /\ desired[u] \in Levels \cup {0}
    BY <1>1, Keys DEF Sound
  <2>2. CASE was.status = "LIVE" /\ desired[u] = 0 /\ row = [was EXCEPT !.status = "REMOVED"]
    BY <2>1, <2>2 DEF AssignRow
  <2>3. CASE was.status = "LIVE" /\ desired[u] # 0 /\ row = [was EXCEPT !.level = desired[u]]
    BY <2>1, <2>3 DEF AssignRow, Present
  <2>4. CASE /\ LiveRows(db, u, p) = {} /\ desired[u] > 0 /\ n = Min(FreeRows(u, p))
             /\ row = [status |-> "LIVE", level |-> desired[u]]
    <3>1. ~Present(was)
      BY <1>4, <2>4 DEF FreeRows
    <3>2. desired[u] \in Levels /\ was.level \notin Levels
      BY <1>3, <2>1, <2>4, <3>1
    <3> QED
      BY <2>4, <3>1, <3>2 DEF AssignRow, Present
  <2>5. CASE row = was
    BY <2>1, <2>5
  <2> QED
    BY <1>5, <2>2, <2>3, <2>4, <2>5
<1>8. new.assign \in [Assignments -> AssignRow]
  <2>1. \A k \in Assignments : new.assign[k] \in AssignRow
    BY <1>1, <1>6, <1>7, Keys
  <2> QED
    BY <1>2, <2>1 DEF Reassigned
<1>9. new \in Tables
  BY <1>1, <1>2, <1>8 DEF Tables
<1>10. AssignChange(db, new)
  <2>1. ASSUME NEW u \in Users, NEW q \in Accounts, NEW n \in 1..MaxRows, q # p
        PROVE  new.assign[<<u, q, n>>] = db.assign[<<u, q, n>>]
    BY <1>6, <2>1
  <2>2. ASSUME NEW u \in Users, NEW n \in 1..MaxRows
        PROVE  LET was == db.assign[<<u, p, n>>]
                   row == new.assign[<<u, p, n>>]
               IN  /\ row.status # was.status =>
                        \/ was.status = "LIVE" /\ row.status = "REMOVED"
                        \/ /\ ~Present(was) /\ row.status = "LIVE" /\ row.level # was.level
                           /\ LiveRows(db, u, p) = {}
                           /\ Present(db.user[u]) /\ Present(db.mp[p])
                           /\ \A m \in 1..MaxRows :
                                new.assign[<<u, p, m>>].status # db.assign[<<u, p, m>>].status
                                  => m = n
                   /\ row.level # was.level => Present(row) /\ row.level \in Levels
    <3>1. ASSUME NEW m \in 1..MaxRows, LiveRows(db, u, p) = {},
                 new.assign[<<u, p, m>>].status # db.assign[<<u, p, m>>].status
          PROVE  m = Min(FreeRows(u, p))
      BY <1>7, <3>1 DEF LiveRows
    <3> QED
      BY <1>7, <3>1
  <2>3. ASSUME NEW u \in Users, NEW q \in Accounts, NEW n \in 1..MaxRows
        PROVE  LET was == db.assign[<<u, q, n>>]
                   row == new.assign[<<u, q, n>>]
               IN  /\ row.status # was.status =>
                        \/ was.status = "LIVE" /\ row.status = "REMOVED"
                        \/ /\ ~Present(was) /\ row.status = "LIVE" /\ row.level # was.level
                           /\ LiveRows(db, u, q) = {}
                           /\ Present(db.user[u]) /\ Present(db.mp[q])
                           /\ \A m \in 1..MaxRows :
                                new.assign[<<u, q, m>>].status # db.assign[<<u, q, m>>].status
                                  => m = n
                   /\ row.level # was.level => Present(row) /\ row.level \in Levels
    <3>1. CASE q = p
      BY <2>2, <3>1
    <3>2. CASE q # p
      BY <2>1, <3>2
    <3> QED
      BY <3>1, <3>2
  <2> QED
    BY <2>3 DEF AssignChange
<1>11. UserChange(db, new) /\ AccountChange(db, new)
  BY <1>2 DEF UserChange, AccountChange
<1> QED
  BY <1>9, <1>10, <1>11 DEF Change, Sound, new

-----------------------------------------------------------------------------
(* Requests and commits keep the invariant *)

LEMMA GrownOn ==
  ASSUME NEW a, NEW b, NEW c, Grown(a, b), Grown(b, c)
  PROVE  Grown(a, c)
  BY DEF Grown

\* The commit of a request nobody overlapped.
LEMMA AloneKeeps ==
  ASSUME AdminInv, NEW new, RunAlone(new), Sound(new), Governed(new), OneLive(new)
  PROVE  AdminInv'
<1>1. \A o \in Requests : Idle(o)'
  BY DEF RunAlone, Idle
<1> QED
  BY <1>1 DEF RunAlone, AdminInv, RequestsOK

LEMMA RequestKeeps ==
  ASSUME AdminInv, NEW s \in Requests, NEW kind \in Kinds, NEW new,
         Request(s, kind, new), Change(db, new)
  PROVE  AdminInv'
<1>1. ~Sequential
  BY AccountsAssumption DEF AdminInv, Sequential, Kinds
<1>2. CASE kind \in Alone
  <2>1. RunAlone(new)
    BY <1>2 DEF Request
  <2>2. Grown(db, db) /\ MergedAs(new, db, db, new)
    BY DEF Grown, MergedAs, Change
  <2>3. ~Clashes(db, db, new)
    <3>1. ~Collides(db.user, db.user, new.user)
      BY DEF Collides, Added
    <3>2. ASSUME NEW k \in Added(db.assign, new.assign)
          PROVE  LiveRows(db, k[1], k[2]) = {}
      <4>1. k \in Assignments /\ Present(new.assign[k]) /\ ~Present(db.assign[k])
        BY DEF Added, Change, Tables
      <4>2. PICK u \in Users, p \in Accounts, n \in 1..MaxRows :
              k = <<u, p, n>> /\ k[1] = u /\ k[2] = p
        BY <4>1, Keys
      <4> QED
        BY <4>1, <4>2 DEF Change, AssignChange, Present
    <3> QED
      BY <3>1, <3>2 DEF Clashes
  <2>4. Sound(new) /\ Governed(new) /\ OneLive(new)
    BY <2>2, <2>3, CommitKeeps DEF AdminInv
  <2> QED
    BY <2>1, <2>4, AloneKeeps
<1>3. CASE kind \notin Alone
  <2>1. Open(s, kind, new)
    BY <1>1, <1>3 DEF Request
  <2>2. Grown(db, db)
    BY DEF Grown
  <2>3. [kind |-> kind, seen |-> db, new |-> new] \in [kind: Kinds, seen: Tables, new: Tables]
    BY DEF Change
  <2>4. /\ sess' \in [Requests -> {NoRequest} \cup [kind: Kinds, seen: Tables, new: Tables]]
        /\ sess'[s] = [kind |-> kind, seen |-> db, new |-> new]
        /\ \A o \in Requests : o # s => sess'[o] = sess[o]
        /\ db' = db /\ offer' = offer
    BY <2>1, <2>3 DEF Open, AdminInv, RequestsOK
  <2>5. ASSUME NEW o \in Requests, ~Idle(o)'
        PROVE  Change(sess'[o].seen, sess'[o].new) /\ Grown(sess'[o].seen, db')
    BY <2>2, <2>4, <2>5 DEF AdminInv, RequestsOK, Idle
  <2> QED
    BY <2>4, <2>5 DEF AdminInv, RequestsOK
<1> QED
  BY <1>2, <1>3

LEMMA EndKeeps ==
  ASSUME AdminInv, NEW s \in Requests, ~Idle(s),
         sess' = [sess EXCEPT ![s] = NoRequest], UNCHANGED offer,
         Sound(db'), Governed(db'), OneLive(db'), Grown(db, db')
  PROVE  AdminInv'
<1>1. /\ sess' \in [Requests -> {NoRequest} \cup [kind: Kinds, seen: Tables, new: Tables]]
      /\ sess'[s].kind = "idle"
      /\ \A o \in Requests : o # s => sess'[o] = sess[o]
  BY DEF AdminInv, RequestsOK, NoRequest
<1>2. ASSUME NEW o \in Requests, ~Idle(o)'
      PROVE  Change(sess'[o].seen, sess'[o].new) /\ Grown(sess'[o].seen, db')
  <2>1. o # s /\ ~Idle(o)
    BY <1>1, <1>2 DEF Idle
  <2>2. Change(sess[o].seen, sess[o].new) /\ Grown(sess[o].seen, db)
    BY <2>1 DEF AdminInv, RequestsOK
  <2> QED
    BY <1>1, <2>1, <2>2, GrownOn
<1> QED
  BY <1>1, <1>2 DEF AdminInv, RequestsOK

LEMMA CommitStep ==
  ASSUME AdminInv, NEW s \in Requests, Commit(s)
  PROVE  AdminInv'
<1> DEFINE old == sess[s].seen
           new == sess[s].new
<1>1. /\ ~Idle(s) /\ ~Duplicate(s) /\ UNCHANGED offer
      /\ db' = Merge(db, old, new) /\ sess' = [sess EXCEPT ![s] = NoRequest]
  BY DEF Commit, CommitUnless
<1>2. Change(old, new) /\ Grown(old, db)
  BY <1>1 DEF AdminInv, RequestsOK
<1>3. ~Clashes(db, old, new)
  BY <1>1 DEF Duplicate, Clashes
<1>4. MergedAs(db', db, old, new)
  BY <1>1, <1>2, Merged DEF AdminInv, Sound, Change
<1>5. Sound(db') /\ Grown(db, db') /\ Governed(db') /\ OneLive(db')
  BY <1>2, <1>3, <1>4, CommitKeeps DEF AdminInv
<1> QED
  BY <1>1, <1>5, EndKeeps

LEMMA AbortStep ==
  ASSUME AdminInv, NEW s \in Requests, Abort(s)
  PROVE  AdminInv'
<1>1. Grown(db, db)
  BY DEF Grown
<1>2. /\ ~Idle(s) /\ sess' = [sess EXCEPT ![s] = NoRequest] /\ UNCHANGED offer
      /\ db' = db
  BY DEF Abort
<1>3. Sound(db') /\ Governed(db') /\ OneLive(db') /\ Grown(db, db')
  BY <1>1, <1>2 DEF AdminInv
<1> QED
  BY <1>2, <1>3, EndKeeps

-----------------------------------------------------------------------------
(* The two changes that nothing overlaps *)

\* Who else is super administrator in office.
LEMMA Others ==
  ASSUME Sound(db), NEW u \in Users
  PROVE  /\ OtherSuperAdmins(u) # {} <=>
              \E v \in Users : v # u /\ db.user[v].status = "ENABLED"
                                 /\ HasRole(db, v, "super_admin")
         /\ \A r \in Roles : r \in RolesOf(u) <=> HasRole(db, u, r)
<1>1. ASSUME NEW v \in Users, NEW r \in Roles
      PROVE  r \in RolesOf(v) <=> HasRole(db, v, r)
  <2>1. db.role[<<v, r>>].status \in {"ABSENT", "HELD"}
    BY Keys DEF Sound, Tables, RoleRow
  <2> QED
    BY <2>1 DEF RolesOf, HasRole, Present
<1> QED
  BY <1>1, AccountsAssumption DEF OtherSuperAdmins, SuperAdmins, Enabled

\* update_user
LEMMA UpdateUserStep ==
  ASSUME AdminInv, NEW s \in Requests, NEW u \in Users, UpdateUser(s, u)
  PROVE  AdminInv'
<1>1. PICK to \in {"ENABLED", "DISABLED"} :
        /\ to = "DISABLED" /\ Enabled(u) /\ "super_admin" \in RolesOf(u)
             => OtherSuperAdmins(u) # {}
        /\ Request(s, "status", [db EXCEPT !.user[u].status = to])
  BY DEF UpdateUser
<1> DEFINE new == [db EXCEPT !.user[u].status = to]
<1>2. RunAlone(new)
  BY <1>1, AccountsAssumption DEF Request
<1>3. /\ db.user \in [Users -> UserRow] /\ db.role \in [Users \X Roles -> RoleRow]
      /\ db.assign \in [Assignments -> AssignRow] /\ db.mp \in [Accounts -> AccountRow]
      /\ Sound(db) /\ Present(db.user[u])
  BY DEF AdminInv, Sound, Tables, UpdateUser
<1>4. /\ new.user = [db.user EXCEPT ![u].status = to]
      /\ new.role = db.role /\ new.assign = db.assign /\ new.mp = db.mp
      /\ new = [user |-> new.user, role |-> new.role, assign |-> new.assign, mp |-> new.mp]
  BY DEF AdminInv, Sound, Tables
<1> HIDE DEF new
<1>5. /\ new.user \in [Users -> UserRow] /\ new.user[u].status = to
      /\ \A v \in Users : v # u => new.user[v] = db.user[v]
  BY <1>3, <1>4 DEF UserRow
<1>6. new \in Tables
  BY <1>3, <1>4, <1>5 DEF Tables
<1>7. \A v \in Users : Present(new.user[v]) <=> Present(db.user[v])
  BY <1>3, <1>5 DEF Present
<1>8. Sound(new)
  BY <1>3, <1>4, <1>6, <1>7 DEF Sound, HasRole
<1>9. OneLive(new)
  BY <1>4 DEF AdminInv, OneLive, LiveRows
<1>10. Governed(new)
  <2>1. CASE to = "DISABLED" /\ Enabled(u) /\ HasRole(db, u, "super_admin")
    <3>1. PICK v \in Users : v # u /\ db.user[v].status = "ENABLED"
                               /\ HasRole(db, v, "super_admin")
      BY <1>1, <1>3, <2>1, Others, AccountsAssumption
    <3> QED
      BY <1>4, <1>5, <3>1 DEF Governed, HasRole
  <2>2. CASE ~(to = "DISABLED" /\ Enabled(u) /\ HasRole(db, u, "super_admin"))
    <3>1. PICK v \in Users : db.user[v].status = "ENABLED" /\ HasRole(db, v, "super_admin")
      BY DEF AdminInv, Governed
    <3>2. new.user[v].status = "ENABLED"
      BY <1>5, <2>2, <3>1 DEF Enabled
    <3> QED
      BY <1>4, <3>1, <3>2 DEF Governed, HasRole
  <2> QED
    BY <2>1, <2>2
<1> QED
  BY <1>2, <1>8, <1>9, <1>10, AloneKeeps DEF new

\* set_user_roles
LEMMA SetUserRolesStep ==
  ASSUME AdminInv, NEW s \in Requests, NEW u \in Users, SetUserRoles(s, u)
  PROVE  AdminInv'
<1> DEFINE New(codes) ==
      [db EXCEPT !.role = [x \in Users \X Roles |->
         IF x[1] # u THEN db.role[x]
         ELSE IF x[2] \in codes THEN [status |-> "HELD"] ELSE Absent]]
<1>1. PICK codes \in (SUBSET Roles) \ {{}} :
        /\ "super_admin" \in RolesOf(u) \ codes => OtherSuperAdmins(u) # {}
        /\ Request(s, "roles", New(codes))
  BY DEF SetUserRoles
<1> DEFINE new == New(codes)
<1>2. RunAlone(new)
  BY <1>1, AccountsAssumption DEF Request
<1>3. /\ db.user \in [Users -> UserRow] /\ db.role \in [Users \X Roles -> RoleRow]
      /\ db.assign \in [Assignments -> AssignRow] /\ db.mp \in [Accounts -> AccountRow]
      /\ Sound(db) /\ Present(db.user[u])
  BY DEF AdminInv, Sound, Tables, SetUserRoles
<1>4. /\ new.role = [x \in Users \X Roles |->
           IF x[1] # u THEN db.role[x]
           ELSE IF x[2] \in codes THEN [status |-> "HELD"] ELSE Absent]
      /\ new.user = db.user /\ new.assign = db.assign /\ new.mp = db.mp
      /\ new = [user |-> new.user, role |-> new.role, assign |-> new.assign, mp |-> new.mp]
  BY DEF AdminInv, Sound, Tables
<1> HIDE DEF new, New
<1>5. new.role \in [Users \X Roles -> RoleRow]
  BY <1>3, <1>4 DEF RoleRow, Absent
<1>6. ASSUME NEW v \in Users, NEW r \in Roles
      PROVE  HasRole(new, v, r) <=> IF v = u THEN r \in codes ELSE HasRole(db, v, r)
  <2>1. /\ <<v, r>> \in Users \X Roles /\ <<v, r>>[1] = v /\ <<v, r>>[2] = r
    OBVIOUS
  <2>2. new.role[<<v, r>>] = IF v # u THEN db.role[<<v, r>>]
                             ELSE IF r \in codes THEN [status |-> "HELD"] ELSE Absent
    BY <1>4, <2>1
  <2> QED
    BY <2>2 DEF HasRole, Absent
<1>7. new \in Tables
  BY <1>3, <1>4, <1>5 DEF Tables
<1>8. Sound(new)
  <2>1. ASSUME NEW v \in Users
        PROVE  Present(new.user[v]) <=> \E r \in Roles : HasRole(new, v, r)
    <3>1. CASE v = u
      BY <1>3, <1>4, <1>6, <3>1
    <3>2. CASE v # u
      BY <1>3, <1>4, <1>6, <3>2 DEF Sound
    <3> QED
      BY <3>1, <3>2
  <2> QED
    BY <1>3, <1>4, <1>7, <2>1 DEF Sound
<1>9. OneLive(new)
  BY <1>4 DEF AdminInv, OneLive, LiveRows
<1>10. Governed(new)
  <2>1. PICK v \in Users : db.user[v].status = "ENABLED" /\ HasRole(db, v, "super_admin")
    BY DEF AdminInv, Governed
  <2>2. CASE v = u /\ "super_admin" \notin codes
    <3>1. PICK w \in Users : w # u /\ db.user[w].status = "ENABLED"
                               /\ HasRole(db, w, "super_admin")
      BY <1>1, <1>3, <2>1, <2>2, Others, AccountsAssumption
    <3> QED
      BY <1>4, <1>6, <3>1, AccountsAssumption DEF Governed
  <2>3. CASE ~(v = u /\ "super_admin" \notin codes)
    BY <1>4, <1>6, <2>1, <2>3, AccountsAssumption DEF Governed
  <2> QED
    BY <2>2, <2>3
<1> QED
  BY <1>2, <1>8, <1>9, <1>10, AloneKeeps DEF new

-----------------------------------------------------------------------------
(* Logins *)

\* A set of logins is finite, and no larger than Tries.
LEMMA SetsOfTries ==
  /\ Cardinality(Tries) \in Nat
  /\ \A S \in SUBSET Tries :
       IsFiniteSet(S) /\ Cardinality(S) \in Nat /\ Cardinality(S) <= Cardinality(Tries)
<1>1. IsFiniteSet(Tries)
  BY AccountsAssumption
<1> QED
  BY <1>1, FS_Subset, FS_CardinalityType

\* A step of login t after which it, and nobody else, may have stopped verifying.
LEMMA FewerVerify ==
  ASSUME LoginInv, NEW t \in Tries, NEW k,
         try' = [try EXCEPT ![t] = k], k.pc # "verify"
  PROVE  \A u \in Users :
           /\ Cardinality(Verifying(u)') \in Nat /\ Cardinality(Verifying(u)) \in Nat
           /\ Cardinality(Verifying(u)') <= Cardinality(Verifying(u))
           /\ try[t].pc = "verify" /\ try[t].user = u =>
                Cardinality(Verifying(u)') + 1 = Cardinality(Verifying(u))
<1> SUFFICES ASSUME NEW u \in Users
             PROVE  /\ Cardinality(Verifying(u)') \in Nat /\ Cardinality(Verifying(u)) \in Nat
                    /\ Cardinality(Verifying(u)') <= Cardinality(Verifying(u))
                    /\ try[t].pc = "verify" /\ try[t].user = u =>
                         Cardinality(Verifying(u)') + 1 = Cardinality(Verifying(u))
  OBVIOUS
<1>1. Verifying(u)' = Verifying(u) \ {t}
  BY DEF Verifying, LoginInv
<1>2. Verifying(u) \in SUBSET Tries
  BY DEF Verifying
<1>3. IsFiniteSet(Verifying(u)) /\ Cardinality(Verifying(u)) \in Nat
  BY <1>2, SetsOfTries
<1>4. /\ IsFiniteSet(Verifying(u) \ {t})
      /\ Cardinality(Verifying(u) \ {t}) = IF t \in Verifying(u) THEN Cardinality(Verifying(u)) - 1
                                           ELSE Cardinality(Verifying(u))
  BY <1>3, FS_RemoveElement
<1>5. Cardinality(Verifying(u) \ {t}) \in Nat
  BY <1>4, FS_CardinalityType
<1>6. try[t].pc = "verify" /\ try[t].user = u => t \in Verifying(u)
  BY DEF Verifying
<1> QED
  BY <1>1, <1>3, <1>4, <1>5, <1>6

LoginStates ==
  {NoTry} \cup [pc: {"expire"}, user: Users] \cup [pc: {"verify"}, user: Users, seen: Nat]

LEMMA LoginKept ==
  ASSUME LoginInv, [Next]_vars
  PROVE  LoginInv'
<1> USE DEF LoginStates
<1>1. /\ fails \in [Users -> [n: Nat, expires: BOOLEAN]] /\ wrong \in [Users -> Nat]
      /\ try \in [Tries -> LoginStates]
      /\ \A u \in Users : wrong[u] = fails[u].n
      /\ \A u \in Users :
           fails[u].n + Cardinality(Verifying(u)) <= MaxFail - 1 + Cardinality(Tries)
  BY DEF LoginInv
<1>2. MaxFail \in Nat \ {0} /\ Cardinality(Tries) \in Nat
  BY AccountsAssumption, SetsOfTries
<1>3. \A u \in Users : Cardinality(Verifying(u)) \in Nat
  BY SetsOfTries DEF Verifying
<1>4. ASSUME UNCHANGED loginVars
      PROVE  LoginInv'
  BY <1>1, <1>4 DEF loginVars, LoginInv, Verifying
<1>5. ASSUME NEW t \in Tries, NEW u \in Users, Attempt(t, u)
      PROVE  LoginInv'
  <2> DEFINE k == [pc |-> "verify", user |-> u, seen |-> fails[u].n]
  <2>1. /\ fails[u].n < MaxFail /\ fails' = fails /\ wrong' = wrong
        /\ try' = [try EXCEPT ![t] = k] /\ try[t].pc = "idle"
    BY <1>5 DEF Attempt
  <2>2. try' \in [Tries -> LoginStates]
    BY <1>1, <2>1
  <2>3. ASSUME NEW v \in Users
        PROVE  fails[v].n + Cardinality(Verifying(v)') <= MaxFail - 1 + Cardinality(Tries)
    <3>1. CASE v = u
      <4>1. Cardinality(Verifying(v)') \in Nat /\ Cardinality(Verifying(v)') <= Cardinality(Tries)
        BY SetsOfTries DEF Verifying
      <4> QED
        BY <1>1, <1>2, <2>1, <3>1, <4>1
    <3>2. CASE v # u
      <4>1. Verifying(v)' = Verifying(v)
        BY <1>1, <2>1, <3>2 DEF Verifying
      <4> QED
        BY <1>1, <4>1
    <3> QED
      BY <3>1, <3>2
  <2> QED
    BY <1>1, <2>1, <2>2, <2>3 DEF LoginInv
<1>6. ASSUME NEW t \in Tries, WrongPassword(t)
      PROVE  LoginInv'
  <2>1. PICK u \in Users : u = try[t].user
    BY <1>1, <1>6 DEF WrongPassword, NoTry
  <2>2. PICK k \in LoginStates : k.pc # "verify" /\ try' = [try EXCEPT ![t] = k]
    <3>1. NoTry \in LoginStates /\ NoTry.pc # "verify"
      BY DEF NoTry
    <3>2. /\ [pc |-> "expire", user |-> u] \in LoginStates
          /\ [pc |-> "expire", user |-> u].pc # "verify"
      OBVIOUS
    <3> QED
      BY <1>6, <2>1, <3>1, <3>2 DEF WrongPassword
  <2>3. /\ fails' = [fails EXCEPT ![u].n = fails[u].n + 1]
        /\ wrong' = [wrong EXCEPT ![u] = @ + 1] /\ try[t].pc = "verify"
    BY <1>6, <2>1 DEF WrongPassword, Counted
  <2>4. /\ fails' \in [Users -> [n: Nat, expires: BOOLEAN]] /\ wrong' \in [Users -> Nat]
        /\ try' \in [Tries -> LoginStates]
    BY <1>1, <2>2, <2>3
  <2>5. ASSUME NEW v \in Users
        PROVE  /\ wrong'[v] = fails'[v].n
               /\ fails'[v].n + Cardinality(Verifying(v)') <= MaxFail - 1 + Cardinality(Tries)
    <3>1. /\ Cardinality(Verifying(v)') \in Nat
          /\ Cardinality(Verifying(v)') <= Cardinality(Verifying(v))
          /\ v = u => Cardinality(Verifying(v)') + 1 = Cardinality(Verifying(v))
      BY <2>1, <2>2, <2>3, FewerVerify
    <3>2. /\ fails'[v].n = IF v = u THEN fails[v].n + 1 ELSE fails[v].n
          /\ wrong'[v] = IF v = u THEN wrong[v] + 1 ELSE wrong[v]
          /\ fails[v].n \in Nat
      BY <1>1, <2>3
    <3> QED
      BY <1>1, <1>2, <1>3, <3>1, <3>2
  <2> QED
    BY <2>4, <2>5 DEF LoginInv
<1>7. ASSUME NEW t \in Tries, SetExpiry(t) \/ CrashOfLogin(t)
      PROVE  LoginInv'
  <2>1. try' = [try EXCEPT ![t] = NoTry] /\ wrong' = wrong /\ NoTry.pc # "verify"
    BY <1>7 DEF SetExpiry, CrashOfLogin, NoTry
  <2>2. try' \in [Tries -> LoginStates]
    BY <1>1, <2>1
  <2>3. /\ fails' \in [Users -> [n: Nat, expires: BOOLEAN]]
        /\ \A v \in Users : fails'[v].n = fails[v].n
    <3>1. CASE SetExpiry(t)
      <4>1. PICK u \in Users : u = try[t].user
        BY <1>1, <3>1 DEF SetExpiry, NoTry
      <4>2. fails' = [fails EXCEPT ![u].expires = fails[u].expires \/ fails[u].n > 0]
        BY <3>1, <4>1 DEF SetExpiry
      <4>3. (fails[u].n > 0) \in BOOLEAN /\ fails[u].expires \in BOOLEAN
        BY <1>1
      <4> QED
        BY <1>1, <4>2, <4>3
    <3>2. CASE CrashOfLogin(t)
      BY <1>1, <3>2 DEF CrashOfLogin
    <3> QED
      BY <1>7, <3>1, <3>2
  <2>4. ASSUME NEW v \in Users
        PROVE  fails'[v].n + Cardinality(Verifying(v)') <= MaxFail - 1 + Cardinality(Tries)
    <3>1. /\ Cardinality(Verifying(v)') \in Nat
          /\ Cardinality(Verifying(v)') <= Cardinality(Verifying(v))
      BY <2>1, FewerVerify
    <3> QED
      BY <1>1, <1>2, <1>3, <2>3, <3>1
  <2> QED
    BY <1>1, <2>1, <2>2, <2>3, <2>4 DEF LoginInv
<1>8. ASSUME NEW u \in Users, Cleared(u)
      PROVE  /\ fails' \in [Users -> [n: Nat, expires: BOOLEAN]] /\ wrong' \in [Users -> Nat]
             /\ \A v \in Users : wrong'[v] = fails'[v].n /\ fails'[v].n <= fails[v].n
  BY <1>1, <1>8 DEF Cleared, NoCount
<1>9. ASSUME NEW t \in Tries, RightPassword(t)
      PROVE  LoginInv'
  <2>1. PICK u \in Users : u = try[t].user
    BY <1>1, <1>9 DEF RightPassword, NoTry
  <2>2. /\ fails' \in [Users -> [n: Nat, expires: BOOLEAN]] /\ wrong' \in [Users -> Nat]
        /\ \A v \in Users : wrong'[v] = fails'[v].n /\ fails'[v].n <= fails[v].n
    BY <1>1, <1>8, <1>9, <2>1 DEF RightPassword
  <2>3. try' = [try EXCEPT ![t] = NoTry] /\ NoTry.pc # "verify"
    BY <1>9 DEF RightPassword, NoTry
  <2>4. try' \in [Tries -> LoginStates]
    BY <1>1, <2>3
  <2>5. ASSUME NEW v \in Users
        PROVE  fails'[v].n + Cardinality(Verifying(v)') <= MaxFail - 1 + Cardinality(Tries)
    <3>1. /\ Cardinality(Verifying(v)') \in Nat
          /\ Cardinality(Verifying(v)') <= Cardinality(Verifying(v))
      BY <2>3, FewerVerify
    <3>2. fails'[v].n \in Nat /\ fails[v].n \in Nat
      BY <1>1, <2>2
    <3> QED
      BY <1>1, <1>2, <1>3, <2>2, <3>1, <3>2
  <2> QED
    BY <2>2, <2>4, <2>5 DEF LoginInv
<1>10. ASSUME NEW u \in Users, Expire(u)
       PROVE  LoginInv'
  <2>1. /\ fails' \in [Users -> [n: Nat, expires: BOOLEAN]] /\ wrong' \in [Users -> Nat]
        /\ \A v \in Users : wrong'[v] = fails'[v].n /\ fails'[v].n <= fails[v].n
        /\ try' = try
    BY <1>8, <1>10 DEF Expire
  <2>2. ASSUME NEW v \in Users
        PROVE  fails'[v].n + Cardinality(Verifying(v)') <= MaxFail - 1 + Cardinality(Tries)
    <3>1. Verifying(v)' = Verifying(v)
      BY <2>1 DEF Verifying
    <3>2. fails'[v].n \in Nat /\ fails[v].n \in Nat
      BY <1>1, <2>1
    <3> QED
      BY <1>1, <1>2, <1>3, <2>1, <3>1, <3>2
  <2> QED
    BY <1>1, <2>1, <2>2 DEF LoginInv
<1> QED
  BY <1>4, <1>5, <1>6, <1>7, <1>9, <1>10 DEF Next, LoginStep, vars, loginVars

-----------------------------------------------------------------------------
(* The theorems *)

UserInv == AdminInv /\ LoginInv

LEMMA InitHolds ==
  ASSUME Init
  PROVE  UserInv
<1>1. /\ Seed.user = [u \in Users |->
           IF u = FirstUser THEN [status |-> "ENABLED"] ELSE [status |-> "ABSENT"]]
      /\ Seed.role = [x \in Users \X Roles |->
           IF x = <<FirstUser, "super_admin">> THEN [status |-> "HELD"]
           ELSE [status |-> "ABSENT"]]
      /\ Seed.assign = [k \in Assignments |-> [status |-> "ABSENT", level |-> 0]]
      /\ Seed.mp = [p \in Accounts |-> [status |-> "ABSENT"]]
      /\ Seed = [user |-> Seed.user, role |-> Seed.role, assign |-> Seed.assign, mp |-> Seed.mp]
  BY DEF Seed, Absent
<1>2. db = Seed /\ sess = [s \in Requests |-> NoRequest] /\ offer \in Offers
  BY DEF Init, InitRequests
<1>3. FirstUser \in Users /\ "super_admin" \in Roles /\ 0 \notin Levels
  BY AccountsAssumption
<1>4. /\ Seed.user \in [Users -> UserRow] /\ Seed.role \in [Users \X Roles -> RoleRow]
      /\ Seed.assign \in [Assignments -> AssignRow] /\ Seed.mp \in [Accounts -> AccountRow]
  BY <1>1 DEF UserRow, RoleRow, AssignRow, AccountRow
<1>5. Seed \in Tables
  BY <1>1, <1>4 DEF Tables
<1>6. ASSUME NEW u \in Users
      PROVE  Present(Seed.user[u]) <=> \E r \in Roles : HasRole(Seed, u, r)
  <2>1. \A r \in Roles : HasRole(Seed, u, r) <=> u = FirstUser /\ r = "super_admin"
    BY <1>1, Keys DEF HasRole
  <2> QED
    BY <1>1, <1>3, <2>1 DEF Present
<1>7. \A k \in Assignments : ~Present(Seed.assign[k]) /\ Seed.assign[k].level \notin Levels
  BY <1>1, <1>3 DEF Present
<1>8. Sound(Seed)
  BY <1>5, <1>6, <1>7, Keys DEF Sound
<1>9. Governed(Seed)
  BY <1>1, <1>3, Keys DEF Governed, HasRole
<1>10. OneLive(Seed)
  BY <1>7, Keys DEF OneLive, LiveRows, Present
<1>11. RequestsOK
  BY <1>2 DEF RequestsOK, Idle, NoRequest
<1>12. LoginInv
  <2>1. \A u \in Users : Verifying(u) = {}
    BY DEF Init, Verifying, NoTry
  <2>2. fails \in [Users -> [n: Nat, expires: BOOLEAN]] /\ wrong \in [Users -> Nat]
        /\ \A u \in Users : wrong[u] = 0 /\ fails[u].n = 0
    BY DEF Init, NoCount
  <2>3. MaxFail \in Nat \ {0} /\ Cardinality(Tries) \in Nat
    BY AccountsAssumption, SetsOfTries
  <2>4. ASSUME NEW u \in Users
        PROVE  fails[u].n + Cardinality(Verifying(u)) <= MaxFail - 1 + Cardinality(Tries)
    BY <2>1, <2>2, <2>3, FS_EmptySet
  <2> QED
    BY <2>2, <2>4 DEF Init, LoginInv
<1> QED
  BY <1>2, <1>8, <1>9, <1>10, <1>11, <1>12 DEF AdminInv, UserInv

LEMMA AdminKept ==
  ASSUME AdminInv, [Next]_vars
  PROVE  AdminInv'
<1>1. ASSUME UNCHANGED <<db, sess, offer>>
      PROVE  AdminInv'
  BY <1>1 DEF AdminInv, RequestsOK, Idle
<1>2. ASSUME NEW s \in Requests, NEW u \in Users, CreateUser(s, u)
      PROVE  AdminInv'
  BY <1>2, CreateUserChange, RequestKeeps DEF CreateUser, AdminInv, Kinds
<1>3. ASSUME NEW s \in Requests, NEW p \in Accounts, CreateAccount(s, p)
      PROVE  AdminInv'
  BY <1>3, CreateAccountChange, RequestKeeps DEF CreateAccount, AdminInv, Kinds
<1>4. ASSUME NEW s \in Requests, NEW p \in Accounts, SetAssignees(s, p)
      PROVE  AdminInv'
  <2>1. PICK desired \in [Users -> Levels \cup {0}] :
          /\ \A u \in Users : desired[u] > 0 =>
               Present(db.user[u]) /\ (LiveRows(db, u, p) # {} \/ FreeRows(u, p) # {})
          /\ Request(s, "assign", [db EXCEPT !.assign = Reassigned(p, desired)])
    BY <1>4 DEF SetAssignees
  <2>2. Change(db, [db EXCEPT !.assign = Reassigned(p, desired)])
    BY <1>4, <2>1, SetAssigneesChange DEF SetAssignees, AdminInv
  <2> QED
    BY <2>1, <2>2, RequestKeeps DEF Kinds
<1>5. ASSUME NEW s \in Requests, Administration(s)
      PROVE  AdminInv'
  BY <1>2, <1>3, <1>4, <1>5, UpdateUserStep, SetUserRolesStep DEF Administration
<1> QED
  BY <1>1, <1>5, CommitStep, AbortStep DEF Next, vars

LEMMA AlwaysInv == Spec => []UserInv
<1>1. UserInv /\ [Next]_vars => UserInv'
  BY AdminKept, LoginKept DEF UserInv
<1> QED
  BY <1>1, InitHolds, PTL DEF Spec

\* Tables, counts and logins keep their types: whatever requests overlap, a user
\* has a role, and an assignment its level, its user and its account.
THEOREM UserTypes == Spec => []TypeOK
<1>1. ASSUME UserInv
      PROVE  TypeOK
  <2>1. Sound(db) /\ LoginInv
    BY <1>1 DEF UserInv, AdminInv
  <2>2. \A u \in Users : db.user[u].status \in {"ABSENT", "ENABLED", "DISABLED"}
    BY <2>1 DEF Sound, Tables, UserRow
  <2>3. ASSUME NEW u \in Users
        PROVE  Present(db.user[u]) <=> RolesOf(u) # {}
    <3>1. \A r \in Roles : r \in RolesOf(u) <=> HasRole(db, u, r)
      BY <2>1, Others
    <3>2. RolesOf(u) \subseteq Roles
      BY DEF RolesOf
    <3>3. Present(db.user[u]) <=> \E r \in Roles : HasRole(db, u, r)
      BY <2>1 DEF Sound
    <3> QED
      BY <3>1, <3>2, <3>3
  <2>4. ASSUME NEW k \in Assignments
        PROVE  /\ Present(db.assign[k]) <=> db.assign[k].level \in Levels
               /\ Present(db.assign[k]) => Present(db.user[k[1]]) /\ Present(db.mp[k[2]])
    <3>1. PICK u \in Users, p \in Accounts, n \in 1..MaxRows :
            k = <<u, p, n>> /\ k[1] = u /\ k[2] = p
      BY Keys
    <3> QED
      BY <2>1, <3>1 DEF Sound
  <2>5. \A u \in Users : fails[u] \in [n: Nat, expires: BOOLEAN]
    BY <2>1 DEF LoginInv
  <2>6. \A t \in Tries : try[t].pc \in {"idle", "verify", "expire"}
    BY <2>1 DEF LoginInv, NoTry
  <2> QED
    BY <2>2, <2>3, <2>4, <2>5, <2>6 DEF TypeOK
<1> QED
  BY <1>1, AlwaysInv, PTL

\* Some enabled user is super administrator, for any users, roles and requests,
\* as long as changes of status and of roles overlap nothing.
THEOREM SuperAdminStays == Spec => []SuperAdminRemains
<1>1. ASSUME UserInv
      PROVE  SuperAdminRemains
  <2>1. Sound(db) /\ Governed(db)
    BY <1>1 DEF UserInv, AdminInv
  <2>2. PICK u \in Users : db.user[u].status = "ENABLED" /\ HasRole(db, u, "super_admin")
    BY <2>1 DEF Governed
  <2>3. u \in SuperAdmins
    BY <2>1, <2>2, Others, AccountsAssumption DEF SuperAdmins, Enabled
  <2> QED
    BY <2>3 DEF SuperAdminRemains
<1> QED
  BY <1>1, AlwaysInv, PTL

\* A user has one live assignment to an account at most, whatever assignments
\* overlap (uk_user_mp).
THEOREM OneLevel == Spec => []OneLevelPerAccount
<1>1. ASSUME UserInv, NEW u \in Users, NEW p \in Accounts
      PROVE  Cardinality(LiveRows(db, u, p)) <= 1
  <2>1. \A m, n \in LiveRows(db, u, p) : m = n
    BY <1>1 DEF UserInv, AdminInv, OneLive
  <2>2. LiveRows(db, u, p) = {} \/ \E n : LiveRows(db, u, p) = {n}
    BY <2>1
  <2>3. Cardinality(LiveRows(db, u, p)) = 0 \/ Cardinality(LiveRows(db, u, p)) = 1
    BY <2>2, FS_EmptySet, FS_Singleton
  <2> QED
    BY <2>3
<1>2. UserInv => OneLevelPerAccount
  BY <1>1 DEF OneLevelPerAccount
<1> QED
  BY <1>2, AlwaysInv, PTL

\* The limit of failed logins is passed by no more than the logins under way
\* when it is reached (authenticate: GET, INCR, EXPIRE, DEL).
THEOREM GuessesAreBounded == Spec => []GuessesBounded
<1>1. ASSUME UserInv, NEW u \in Users
      PROVE  wrong[u] <= MaxFail - 1 + Cardinality(Tries)
  <2>1. /\ wrong[u] = fails[u].n /\ wrong[u] \in Nat
        /\ fails[u].n + Cardinality(Verifying(u)) <= MaxFail - 1 + Cardinality(Tries)
    BY <1>1 DEF UserInv, LoginInv
  <2>2. Cardinality(Verifying(u)) \in Nat /\ Cardinality(Tries) \in Nat /\ MaxFail \in Nat
    BY SetsOfTries, AccountsAssumption DEF Verifying
  <2> QED
    BY <2>1, <2>2
<1>2. UserInv => GuessesBounded
  BY <1>1 DEF GuessesBounded
<1> QED
  BY <1>2, AlwaysInv, PTL

=============================================================================
