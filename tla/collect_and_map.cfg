SPECIFICATION Spec
CONSTANTS
  s1 = s1
  i1 = i1  i2 = i2  i3 = i3
  mp1 = mp1  mp2 = mp2
  q1 = q1  q2 = q2
  None = None
  Requests = {q1, q2}
  Offers <- CollectingAndMapping
  Alone = {"create", "rule", "confirm", "import"}
  Sources = {s1}
  Items = {i1, i2, i3}
  Feed <- OneFeed
  Stamp <- Dated
  Original <- OriginalLast
  Bits <- CloseBits
  BandOf <- TwoBitBands
  HammingThreshold = 3
  Words <- SomeWords
  Size <- SomeSizes
  MaxRules = 2
  Cond <- SomeConditions
  RuleForms <- SomeForms
  CircuitThreshold = 2
  MaxFails = 3
  MaxDay = 2
INVARIANT TypeOK OnlyLatePassed NearDuplicatesSettled CircuitMatchesCount
INVARIANT ProductsMatchStatus DryRunAgrees TodayWithinLimit
PROPERTY BestRuleWins
SYMMETRY InterchangeableRequests
CHECK_DEADLOCK FALSE
