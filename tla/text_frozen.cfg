SPECIFICATION Spec
CONSTANTS
  a1 = a1  a2 = a2  a3 = a3
  g1 = g1
  m1 = m1  m2 = m2
  b1 = b1  b2 = b2
  r1 = r1  r2 = r2
  mp1 = mp1
  None = None
  Articles = {a1, a2}
  Groups = {g1}
  Materials = {m1}
  Bodies = {b1, b2}
  Mapped = {a1}
  FirstBody = b1
  Account <- OneAccount
  Image <- FirstHasImage
  Hash <- SameContent
  Requests = {r1, r2}
  Editors = {r1, r2}
  Submitters = {r1, r2}
  Auditors = {r1, r2}
  ReviewEnabled = TRUE
  MaxGroupSize = 2
  LastPosition = 3
  Alone = {}
  Offers <- Everything
  Versions <- WorkOnFirst
PROPERTY TextFrozen
