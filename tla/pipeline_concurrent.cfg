SPECIFICATION Spec
CONSTANTS
  a1 = a1  a2 = a2  a3 = a3
  k1 = k1  k2 = k2  k3 = k3
  s1 = s1  s2 = s2  s3 = s3
  e1 = e1
  Articles = {a1}
  Keys = {k1}
  Content <- SinglesContent
  Lead <- SinglesLead
  AutoKeys = {k1}
  Workers = {s1, s2}
  Clients = {s2, s3}
  Editors = {e1}
  MaxRetry = 1
  Real = FALSE
  WarnBefore = 1
  Ttl = 2
  Faults = {"crash"}
  MaxNow = 0
  MaxPosts = 2
  MaxRetries = 1
INVARIANTS NoTaskStranded PublishedIsTrue
PROPERTY CancelledIsFinal
