------------------------------ MODULE MCUsers ------------------------------
(* Instances of UserAccounts for TLC. *)
EXTENDS UserAccounts

CONSTANTS u1, u2, p1, s1, s2, t1, t2, t3

\* Roles, logins and assignments, each beside the changes of users that matter
\* to it.
RolesLoginsAssignments ==
  {{"user", "status", "roles"}, {"user", "status", "login"}, {"assign", "mp"}}
=============================================================================
