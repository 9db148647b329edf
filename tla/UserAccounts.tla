---------------------------- MODULE UserAccounts ----------------------------
(***************************************************************************)
(* The users of the system: their roles, the official accounts they are    *)
(* assigned to, and the count of failed logins that locks one of them.     *)
(* Administration goes through the database (DbSession); the count lives   *)
(* in Redis, and each step of a login is one call to Redis.                *)
(***************************************************************************)
EXTENDS DbSession, Naturals, FiniteSets, FiniteSetsExt

CONSTANTS
  Users,      \* usernames
  FirstUser,  \* the super administrator of the seed data
  Roles,      \* the roles of the instance, among the built-in ones
  Accounts,   \* app_ids of official accounts
  Levels,     \* perm_levels of the instance
  MaxRows,    \* bound on the assignments of a user to an account, one at a time
  Tries,      \* logins that can be under way at a time
  MaxFail     \* LOGIN_MAX_FAIL

VARIABLES
  fails,    \* login:fail:{username}: its value, and whether it will expire
  try,      \* the logins
  wrong,    \* history: wrong passwords tried since the count was last absent
  reliable  \* no process dies in this behaviour

loginVars == <<fails, try, wrong>>
vars == <<db, sess, offer, loginVars, reliable>>

\* What each built-in role may do, as far as the actions below ask.
RolePerms ==
  [super_admin  |-> {"user:manage", "user:assign", "mp:account:manage"},
   admin        |-> {"user:manage", "user:assign", "mp:account:manage"},
   chief_editor |-> {},
   operator     |-> {},
   auditor      |-> {}]

Kinds == {"login", "user", "status", "roles", "assign", "mp"}

ASSUME AccountsAssumption ==
  /\ FirstUser \in Users
  /\ Roles \subseteq DOMAIN RolePerms /\ "super_admin" \in Roles
  /\ Levels \subseteq 1..4
  /\ MaxRows \in Nat /\ MaxFail \in Nat \ {0} /\ IsFiniteSet(Tries)
  /\ Offers \subseteq SUBSET Kinds /\ {"status", "roles"} \subseteq Alone

Absent == [status |-> "ABSENT"]

Assignments == Users \X Accounts \X (1..MaxRows)

\* The tables after seeding.
Seed ==
  [user |-> [u \in Users |->
     IF u = FirstUser THEN [status |-> "ENABLED"] ELSE Absent],
   role |-> [x \in Users \X Roles |->
     IF x = <<FirstUser, "super_admin">> THEN [status |-> "HELD"] ELSE Absent],
   assign |-> [k \in Assignments |-> [status |-> "ABSENT", level |-> 0]],
   mp |-> [p \in Accounts |-> Absent]]

NoCount == [n |-> 0, expires |-> FALSE]

NoTry == [pc |-> "idle"]

Init ==
  /\ InitRequests(Seed)
  /\ fails = [u \in Users |-> NoCount]
  /\ try = [t \in Tries |-> NoTry]
  /\ wrong = [u \in Users |-> 0]
  /\ reliable \in {TRUE, "login" \notin offer}

-----------------------------------------------------------------------------
(* Who may do what *)

RolesOf(u) == {r \in Roles : Present(db.role[<<u, r>>])}

Enabled(u) == db.user[u].status = "ENABLED"

\* get_current_user, require_perm
Allowed(u, perm) == Enabled(u) /\ \E r \in RolesOf(u) : perm \in RolePerms[r]

\* The rows an access check finds for a user and an account.
LiveRows(d, u, p) ==
  {n \in 1..MaxRows : d.assign[<<u, p, n>>].status = "LIVE"}

SuperAdmins == {u \in Users : Enabled(u) /\ "super_admin" \in RolesOf(u)}

\* Mutant: the user in question counts as well.
AnySuperAdmin(u) == SuperAdmins

\* _count_active_super_admins
OtherSuperAdmins(u) == SuperAdmins \ {u}

-----------------------------------------------------------------------------
(* Administration *)

\* Mutant: the role is left to a later request.
WithoutRole(u, r) == [db EXCEPT !.user[u].status = "ENABLED"]

\* The role is committed with the user.
WithRole(u, r) ==
  [db EXCEPT !.user[u].status = "ENABLED", !.role[<<u, r>>].status = "HELD"]

CreateUser(s, u) ==
  /\ ~Present(db.user[u])
  /\ \E r \in Roles : Request(s, "user", WithRole(u, r))

\* The last super administrator in office is not disabled.
UpdateUser(s, u) ==
  /\ Present(db.user[u])
  /\ \E to \in {"ENABLED", "DISABLED"} :
       /\ to = "DISABLED" /\ Enabled(u) /\ "super_admin" \in RolesOf(u)
            => OtherSuperAdmins(u) # {}
       /\ Request(s, "status", [db EXCEPT !.user[u].status = to])

\* Nor does it lose its role.  The roles are replaced as a whole.
SetUserRoles(s, u) ==
  /\ Present(db.user[u])
  /\ \E codes \in (SUBSET Roles) \ {{}} :
       /\ "super_admin" \in RolesOf(u) \ codes => OtherSuperAdmins(u) # {}
       /\ Request(s, "roles",
            [db EXCEPT !.role = [x \in Users \X Roles |->
               IF x[1] # u THEN db.role[x]
               ELSE IF x[2] \in codes THEN [status |-> "HELD"] ELSE Absent]])

CreateAccount(s, p) ==
  /\ ~Present(db.mp[p])
  /\ Request(s, "mp", [db EXCEPT !.mp[p].status = "CREATED"])

\* The primary key a new assignment gets: one that no other request took.
FreeRows(u, p) ==
  {n \in 1..MaxRows :
     /\ ~Present(db.assign[<<u, p, n>>])
     /\ \A o \in Requests :
          ~Idle(o) => ~Present(sess[o].new.assign[<<u, p, n>>])}

\* The assignments of account p become those asked for: level 0 is no mention.
Reassigned(p, desired) ==
  [k \in Assignments |->
     LET u == k[1]
         live == LiveRows(db, u, p)
     IN IF k[2] # p THEN db.assign[k]
        ELSE IF k[3] \in live
          THEN IF desired[u] = 0 THEN [db.assign[k] EXCEPT !.status = "REMOVED"]
               ELSE [db.assign[k] EXCEPT !.level = desired[u]]
        ELSE IF live = {} /\ desired[u] > 0 /\ k[3] = Min(FreeRows(u, p))
          THEN [status |-> "LIVE", level |-> desired[u]]
        ELSE db.assign[k]]

SetAssignees(s, p) ==
  /\ Present(db.mp[p])
  /\ \E desired \in [Users -> Levels \cup {0}] :
       /\ \A u \in Users : desired[u] > 0 =>
            Present(db.user[u]) /\ (LiveRows(db, u, p) # {} \/ FreeRows(u, p) # {})
       /\ Request(s, "assign", [db EXCEPT !.assign = Reassigned(p, desired)])

\* Mutant: assignments without their unique key.
DuplicateUser(s) == Collides(db.user, sess[s].seen.user, sess[s].new.user)

\* uk_username, uk_app_id; uk_user_mp, which covers the live rows.
Duplicate(s) ==
  \/ \E t \in {"user", "mp"} :
       Collides(db[t], sess[s].seen[t], sess[s].new[t])
  \/ \E k \in Added(sess[s].seen.assign, sess[s].new.assign) :
       LiveRows(db, k[1], k[2]) # {}

Commit(s) == ~Idle(s) /\ CommitUnless(s, Duplicate(s), sess[s].new)

-----------------------------------------------------------------------------
(* Login: authenticate *)

\* GET of the count; a locked account is refused there and then.
Attempt(t, u) ==
  /\ "login" \in offer
  /\ try[t].pc = "idle" /\ fails[u].n < MaxFail
  /\ try' = [try EXCEPT ![t] = [pc |-> "verify", user |-> u, seen |-> fails[u].n]]
  /\ UNCHANGED <<fails, wrong>>

\* Mutant: SET of the value read before, plus one.
CountedFromRead(t) == try[t].seen + 1

\* INCR
Counted(t) == fails[try[t].user].n + 1

\* Mutant: the first failure is told by the value read before.
FirstByRead(t, n) == try[t].seen = 0

FirstFailure(t, n) == n = 1

WrongPassword(t) ==
  /\ try[t].pc = "verify"
  /\ LET u == try[t].user
         n == Counted(t)
     IN /\ fails' = [fails EXCEPT ![u].n = n]
        /\ wrong' = [wrong EXCEPT ![u] = @ + 1]
        /\ try' = [try EXCEPT ![t] =
             IF FirstFailure(t, n) THEN [pc |-> "expire", user |-> u] ELSE NoTry]

\* EXPIRE; of a key that is gone it does nothing.
SetExpiry(t) ==
  /\ try[t].pc = "expire"
  /\ LET u == try[t].user
     IN fails' = [fails EXCEPT ![u].expires = @ \/ fails[u].n > 0]
  /\ try' = [try EXCEPT ![t] = NoTry]
  /\ UNCHANGED wrong

Cleared(u) ==
  /\ fails' = [fails EXCEPT ![u] = NoCount]
  /\ wrong' = [wrong EXCEPT ![u] = 0]

\* DEL; of a disabled user the count stays, and the login is refused.
RightPassword(t) ==
  /\ try[t].pc = "verify" /\ Present(db.user[try[t].user])
  /\ IF Enabled(try[t].user) THEN Cleared(try[t].user) ELSE UNCHANGED <<fails, wrong>>
  /\ try' = [try EXCEPT ![t] = NoTry]

LoginStep(t) == WrongPassword(t) \/ SetExpiry(t) \/ RightPassword(t)

\* Redis lets the count expire.
Expire(u) ==
  /\ fails[u].expires
  /\ Cleared(u)
  /\ UNCHANGED try

CrashOfLogin(t) ==
  /\ ~reliable /\ try[t].pc # "idle"
  /\ try' = [try EXCEPT ![t] = NoTry]
  /\ UNCHANGED <<fails, wrong>>

-----------------------------------------------------------------------------
Administration(s) ==
  \/ \E u \in Users :
       /\ \E admin \in Users : Allowed(admin, "user:manage")
       /\ CreateUser(s, u) \/ UpdateUser(s, u) \/ SetUserRoles(s, u)
  \/ \E p \in Accounts :
       \/ (\E admin \in Users : Allowed(admin, "mp:account:manage")) /\ CreateAccount(s, p)
       \/ (\E admin \in Users : Allowed(admin, "user:assign")) /\ SetAssignees(s, p)

Next ==
  \/ /\ \E s \in Requests : Administration(s) \/ Commit(s) \/ Abort(s)
     /\ UNCHANGED <<loginVars, reliable>>
  \/ /\ \/ \E t \in Tries : LoginStep(t) \/ CrashOfLogin(t) \/ \E u \in Users : Attempt(t, u)
        \/ \E u \in Users : Expire(u)
     /\ UNCHANGED <<db, sess, offer, reliable>>

LoginNext(A) == A /\ UNCHANGED <<db, sess, offer, reliable>>

\* A login under way goes on, and Redis keeps its time.
Fairness ==
  /\ \A t \in Tries : WF_vars(LoginNext(LoginStep(t)))
  /\ \A u \in Users : WF_vars(LoginNext(Expire(u)))

Spec == Init /\ [][Next]_vars /\ Fairness

-----------------------------------------------------------------------------
(* Properties *)

\* Tables, counts and logins have their types; an account nobody created has no
\* assignment.
TypeOK ==
  /\ \A u \in Users : db.user[u].status \in {"ABSENT", "ENABLED", "DISABLED"}
  /\ \A u \in Users : Present(db.user[u]) <=> RolesOf(u) # {}
  /\ \A k \in Assignments :
       /\ Present(db.assign[k]) <=> db.assign[k].level \in Levels
       /\ Present(db.assign[k]) => Present(db.user[k[1]]) /\ Present(db.mp[k[2]])
  /\ \A u \in Users : fails[u] \in [n: Nat, expires: BOOLEAN]
  /\ \A t \in Tries : try[t].pc \in {"idle", "verify", "expire"}

\* However logins of a user overlap, crash or succeed in between, no more wrong
\* passwords are tried before its count is gone again than the limit and the
\* logins that had passed the check when it was reached (authenticate).
GuessesBounded ==
  \A u \in Users : wrong[u] <= MaxFail - 1 + Cardinality(Tries)

\* A lock ends, provided no process dies between INCR and EXPIRE: whatever the
\* order of failures, successes and expiry, the count is never left without one.
LockEnds ==
  \A u \in Users :
    reliable /\ fails[u].n >= MaxFail ~> fails[u].n < MaxFail

\* Some enabled user is super administrator, provided no two changes of status
\* or roles overlap (update_user, set_user_roles).
SuperAdminRemains == SuperAdmins # {}

\* A user has at most one live assignment to an account, hence one perm_level
\* there, whatever assignments of the account overlap (set_assignees, uk_user_mp).
OneLevelPerAccount ==
  \A u \in Users, p \in Accounts : Cardinality(LiveRows(db, u, p)) <= 1
=============================================================================
