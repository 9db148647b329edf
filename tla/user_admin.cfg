SPECIFICATION Spec
CONSTANTS
  u1 = u1  u2 = u2
  p1 = p1
  s1 = s1  s2 = s2
  t1 = t1  t2 = t2  t3 = t3
  Requests = {s1, s2}
  Offers <- RolesLoginsAssignments
  Alone = {"status", "roles", "mp"}
  Users = {u1, u2}
  FirstUser = u1
  Roles = {"super_admin", "operator"}
  Accounts = {p1}
  Levels = {1, 2}
  MaxRows = 3
  Tries = {t1, t2}
  MaxFail = 2
INVARIANT TypeOK GuessesBounded SuperAdminRemains OneLevelPerAccount
PROPERTY LockEnds
