----------------------------- MODULE MCCollect -----------------------------
(* Instances of CollectAndMap for TLC. *)
EXTENDS CollectAndMap, TLC

CONSTANTS s1, i1, i2, i3, mp1, mp2, q1, q2

OneFeed == [s \in Sources |-> <<i1, i2, i3>>]

\* Two bits a band: i1 and i2 differ in three bits of three bands.
CloseBits ==
  [i \in Items |-> IF i = i1 THEN {} ELSE IF i = i2 THEN {1, 3, 5} ELSE 1..8]

TwoBitBands == [b \in 1..8 |-> (b - 1) \div 2]

\* i2 has no date; i3 has an earlier one than i1, which is published before it.
Dated == [i \in Items |-> IF i = i1 THEN 2 ELSE IF i = i2 THEN 0 ELSE 1]

OriginalLast == {i3}

\* i1 is too short for rule 2, i3 has other words.
SomeWords == [i \in Items |-> IF i = i3 THEN {"a", "c"} ELSE {"a", "b"}]

SomeSizes == [i \in Items |-> IF i = i1 THEN 1 ELSE 2]

\* Rule 1 takes everything; rule 2 long texts with both words and without a third.
SomeConditions ==
  [r \in Rules |->
     IF r = 1 THEN None
     ELSE [exclude |-> {"c"}, include |-> {"a", "b"}, mode |-> "ALL", min |-> 2]]

Form(t, p, window, overflow) ==
  [target |-> t, priority |-> p, sources |-> Sources, limit |-> 1,
   window |-> window, overflow |-> overflow]

SomeForms ==
  {Form(mp1, 1, TRUE, "NEXT_DAY"), Form(mp1, 2, FALSE, "NEXT_DAY"), Form(mp2, 1, TRUE, "DROP")}

\* Without overlap, and with it.
Collecting ==
  {{"alone", "create", "run", "import", "source", "confirm", "article"},
   {"create", "run"}}

Mapping ==
  {{"alone", "create", "import", "rule", "map"},
   {"create", "import", "rule", "map"}}

CollectingAndMapping == Collecting \cup Mapping

InterchangeableRequests == Permutations(Requests)
=============================================================================
