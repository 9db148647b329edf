--------------------------- MODULE CollectProofs ---------------------------
(***************************************************************************)
(* Theorems about CollectAndMap: its types and invariants, for any number  *)
(* of sources, items, rules and requests.                                  *)
(*                                                                         *)
(* The invariant says what the committed tables keep, of every request in  *)
(* flight what it changes of its snapshot and how the tables have grown    *)
(* since, and what the tables keep besides if nothing overlaps.            *)
(***************************************************************************)
EXTENDS CollectAndMap, FiniteSetTheorems, WellFoundedInduction, TLAPS

SrcRow ==
  [status: {"ABSENT", "ACTIVE", "PAUSED", "CIRCUIT_OPEN"}, deleted: BOOLEAN,
   fails: 0..MaxFails, cursor: Dates, confirmed: BOOLEAN]

ArtRow ==
  [status: {"ABSENT", "COLLECTED", "UNMATCHED", "TRANSFORMED"}, deleted: BOOLEAN,
   dup: Items \cup {None}, source: Sources \cup {None}, original: BOOLEAN]

RuleRow ==
  [status: {"ABSENT", "ENABLED", "DISABLED", "DELETED"}, target: Targets \cup {None},
   priority: Int, sources: SUBSET Sources, limit: Nat,
   window: BOOLEAN, overflow: {"NEXT_DAY", "DROP"}]

ContentRow ==
  [status: {"ABSENT", "TRANSFORMED"}, rule: {0} \cup Rules, day: Nat, made: Nat]

Databases ==
  [src: [Sources -> SrcRow], art: [Items -> ArtRow],
   rule: [Rules -> RuleRow], content: [Items \X Targets -> ContentRow]]

\* What was made of item i.
Made(d, i) == \E t \in Targets : Present(d.content[<<i, t>>])

StoredItems(d) == {i \in Items : Present(d.art[i])}

\* A cursor at date c has passed no item outside has, but for those published
\* after one in has that has no lesser date.
PassedBy(has, s, c) ==
  \A n \in 1..Len(Feed[s]) :
    LET i == Feed[s][n]
    IN  i \notin has /\ 0 < Stamp[i] /\ Stamp[i] <= c
          => \E m \in 1..(n - 1) : Feed[s][m] \in has /\ Stamp[Feed[s][m]] >= Stamp[i]

Reached(d, s) == PassedBy(StoredItems(d), s, d.src[s].cursor)

ArtOK(row) ==
  IF Present(row) THEN row.source \in Sources /\ (row.dup # None => row.status = "UNMATCHED")
  ELSE row = NoArticle

RuleOK(row) ==
  /\ row.status = "DELETED" => row.sources = {}
  /\ Present(row) => \E f \in RuleForms : row.target = f.target /\ row.limit = f.limit

Sound(d) ==
  /\ d \in Databases
  /\ \A s \in Sources : Reached(d, s)
  /\ \A i \in Items : ArtOK(d.art[i]) /\ (d.art[i].status = "TRANSFORMED" <=> Made(d, i))
  /\ \A x \in Items \X Targets : ~Present(d.content[x]) => d.content[x] = NoProduct
  /\ \A r \in Rules : RuleOK(d.rule[r])

-----------------------------------------------------------------------------
(* What a request changes *)

\* Mapping item i makes something of it.
Makes(d, i) == ~Refused(d, i) /\ WonTargets(d, i) # {}

\* A row just stored from source s.
Fresh(row, s) ==
  /\ row \in ArtRow /\ row.status = CollectedAs(row.dup)
  /\ row.source = s /\ ~row.deleted

\* No rule in force for the target of a product is preferred to the one used.
Best(d, i, t, r) ==
  \A p \in Candidates(d, i) :
    d.rule[p].target = t => \/ d.rule[p].priority < d.rule[r].priority
                            \/ d.rule[p].priority = d.rule[r].priority /\ p >= r

\* A new product of item i.
Product(old, new, i, t) ==
  /\ ~Present(old.content[<<i, t>>]) /\ Present(new.content[<<i, t>>])
  /\ Makes(old, i)
  /\ new.content[<<i, t>>].rule \in Rules /\ Best(old, i, t, new.content[<<i, t>>].rule)

SameContent(old, new, i) ==
  \A t \in Targets : new.content[<<i, t>>] = old.content[<<i, t>>]

\* The request mapped item i, or left its products as they were.
MapsItem(old, new, i) ==
  /\ old.art[i].status = "COLLECTED"
  /\ IF Makes(old, i)
     THEN new.art[i] = [old.art[i] EXCEPT !.status = "TRANSFORMED"] /\ Made(new, i)
     ELSE new.art[i] = [old.art[i] EXCEPT !.status = "UNMATCHED"] /\ SameContent(old, new, i)
  /\ \A t \in Targets :
       new.content[<<i, t>>] = old.content[<<i, t>>] \/ Product(old, new, i, t)

LeavesItem(old, new, i) ==
  /\ SameContent(old, new, i)
  /\ \/ new.art[i] = old.art[i]
     \/ ~Present(old.art[i]) /\ \E s \in Sources : Fresh(new.art[i], s)
     \/ Present(old.art[i]) /\ new.art[i] = [old.art[i] EXCEPT !.deleted = TRUE]

Change(old, new) ==
  /\ Sound(old) /\ new \in Databases /\ new.rule = old.rule
  /\ \A s \in Sources : new.src[s].confirmed = old.src[s].confirmed
  /\ \A i \in Items : MapsItem(old, new, i) \/ LeavesItem(old, new, i)

\* A run of source s stores items of its feed, and what it read if it succeeds.
RunOf(s, old, new) ==
  /\ new.content = old.content
  /\ \A i \in Items :
       \/ new.art[i] = old.art[i]
       \/ /\ ~Present(old.art[i]) /\ Fresh(new.art[i], s)
          /\ \E n \in 1..Len(Feed[s]) : Feed[s][n] = i
  /\ \A o \in Sources : new.src[o].cursor = old.src[o].cursor \/ Reached(new, o)

Effect(kind, old, new) ==
  /\ Change(old, new)
  /\ IF kind = "run" THEN \E s \in Sources : RunOf(s, old, new)
     ELSE \A s \in Sources : new.src[s].cursor = old.src[s].cursor

\* What others may have committed since a snapshot, while rules and
\* confirmations stay: of an item no rule wants, they make nothing either.
Grown(old, cur) ==
  /\ cur.rule = old.rule
  /\ \A s \in Sources : cur.src[s].confirmed = old.src[s].confirmed
  /\ \A i \in Items :
       Present(old.art[i]) =>
         /\ Present(cur.art[i])
         /\ cur.art[i].source = old.art[i].source /\ cur.art[i].dup = old.art[i].dup
         /\ cur.art[i].original = old.art[i].original
         /\ ~Makes(old, i) /\ ~Made(old, i) => ~Made(cur, i)

RequestsOK ==
  /\ sess \in [Requests -> {NoRequest} \cup [kind: Kinds, seen: Databases, new: Databases]]
  /\ Sequential => \A q \in Requests : Idle(q)
  /\ \A q \in Requests :
       ~Idle(q) => /\ sess[q].kind \notin Alone
                   /\ Effect(sess[q].kind, sess[q].seen, sess[q].new)
                   /\ Grown(sess[q].seen, db)

-----------------------------------------------------------------------------
(* What holds besides where nothing overlaps *)

Circuit(d) ==
  \A s \in Sources :
    /\ d.src[s].status = "CIRCUIT_OPEN" => d.src[s].fails >= CircuitThreshold
    /\ d.src[s].status \in {"ABSENT", "ACTIVE"} => d.src[s].fails < CircuitThreshold

\* Two articles in use with texts that close.
Close(d, i, j) ==
  /\ i # j /\ Present(d.art[i]) /\ Present(d.art[j])
  /\ ~d.art[i].deleted /\ ~d.art[j].deleted
  /\ Hamming(i, j) <= HammingThreshold

Settled(d) ==
  \A i, j \in Items : Close(d, i, j) => d.art[i].dup # None \/ d.art[j].dup # None

\* How many articles made for account t on a day appear on that day.
OnItsDay(d, t, day) ==
  Cardinality({i \in Items : /\ Present(d.content[<<i, t>>])
                             /\ d.content[<<i, t>>].day = day
                             /\ d.content[<<i, t>>].made = day})

Limited(d) ==
  \A t \in Targets : Bounded(t) => \A day \in Nat : OnItsDay(d, t, day) <= Max(Limits(t))

AloneKept(old, new) ==
  /\ Circuit(old) => Circuit(new)
  /\ HammingThreshold < 4 /\ Settled(old) => Settled(new)
  /\ Limited(old) => Limited(new)

AloneInv ==
  Sequential => /\ Circuit(db) /\ Limited(db)
                /\ HammingThreshold < 4 => Settled(db)

FeedOK ==
  /\ feed \in [Sources -> Nat] /\ \A s \in Sources : feed[s] <= Len(Feed[s])
  /\ today \in Nat \ {0}

CollectInv == FeedOK /\ Sound(db) /\ RequestsOK /\ AloneInv

-----------------------------------------------------------------------------
(* Tables and rows *)

LEMMA Parts ==
  ASSUME NEW d \in Databases
  PROVE  /\ d.src \in [Sources -> SrcRow] /\ d.art \in [Items -> ArtRow]
         /\ d.rule \in [Rules -> RuleRow] /\ d.content \in [Items \X Targets -> ContentRow]
         /\ d = [src |-> d.src, art |-> d.art, rule |-> d.rule, content |-> d.content]
  BY DEF Databases

LEMMA SrcRowMerge ==
  ASSUME NEW cur \in SrcRow, NEW old \in SrcRow, NEW new \in SrcRow
  PROVE  LET row == MergeRow(cur, old, new)
         IN  /\ row \in SrcRow
             /\ row.cursor = IF new.cursor = old.cursor THEN cur.cursor ELSE new.cursor
             /\ row.confirmed =
                  IF new.confirmed = old.confirmed THEN cur.confirmed ELSE new.confirmed
  BY DEF MergeRow, SrcRow

LEMMA ArtRowMerge ==
  ASSUME NEW cur \in ArtRow, NEW old \in ArtRow, NEW new \in ArtRow
  PROVE  LET row == MergeRow(cur, old, new)
         IN  /\ row \in ArtRow
             /\ row.status = IF new.status = old.status THEN cur.status ELSE new.status
             /\ row.dup = IF new.dup = old.dup THEN cur.dup ELSE new.dup
             /\ row.source = IF new.source = old.source THEN cur.source ELSE new.source
             /\ row.original = IF new.original = old.original THEN cur.original ELSE new.original
             /\ new = old => row = cur
             /\ cur = old => row = new
<1> DEFINE row == MergeRow(cur, old, new)
<1>1. /\ row \in ArtRow
      /\ row.status = IF new.status = old.status THEN cur.status ELSE new.status
      /\ row.deleted = IF new.deleted = old.deleted THEN cur.deleted ELSE new.deleted
      /\ row.dup = IF new.dup = old.dup THEN cur.dup ELSE new.dup
      /\ row.source = IF new.source = old.source THEN cur.source ELSE new.source
      /\ row.original = IF new.original = old.original THEN cur.original ELSE new.original
  BY DEF MergeRow, ArtRow
<1> HIDE DEF row
<1>2. ASSUME NEW a \in ArtRow, NEW b \in ArtRow, a.status = b.status, a.deleted = b.deleted,
             a.dup = b.dup, a.source = b.source, a.original = b.original
      PROVE  a = b
  BY <1>2 DEF ArtRow
<1>3. (new = old => row = cur) /\ (cur = old => row = new)
  BY <1>1, <1>2
<1> QED
  BY <1>1, <1>3 DEF row

LEMMA RuleRowMerge ==
  ASSUME NEW cur \in RuleRow, NEW old
  PROVE  MergeRow(cur, old, old) = cur
  BY DEF MergeRow, RuleRow

LEMMA ContentRowMerge ==
  ASSUME NEW cur \in ContentRow, NEW old \in ContentRow, NEW new \in ContentRow
  PROVE  LET row == MergeRow(cur, old, new)
         IN  /\ row \in ContentRow
             /\ new = old => row = cur
             /\ cur = old => row = new
  BY DEF MergeRow, ContentRow

\* d is cur with what new changes of old, column by column.
MergedAs(d, cur, old, new) ==
  /\ d \in Databases
  /\ new.rule = old.rule => d.rule = cur.rule
  /\ \A s \in Sources :
       LET row == d.src[s]
           was == cur.src[s]
           from == old.src[s]
           to == new.src[s]
       IN  /\ row.cursor = IF to.cursor = from.cursor THEN was.cursor ELSE to.cursor
           /\ row.confirmed =
                IF to.confirmed = from.confirmed THEN was.confirmed ELSE to.confirmed
  /\ \A i \in Items :
       LET row == d.art[i]
           was == cur.art[i]
           from == old.art[i]
           to == new.art[i]
       IN  /\ row.status = IF to.status = from.status THEN was.status ELSE to.status
           /\ row.dup = IF to.dup = from.dup THEN was.dup ELSE to.dup
           /\ row.source = IF to.source = from.source THEN was.source ELSE to.source
           /\ row.original =
                IF to.original = from.original THEN was.original ELSE to.original
           /\ to = from => row = was
           /\ was = from => row = to
  /\ \A x \in Items \X Targets :
       /\ new.content[x] = old.content[x] => d.content[x] = cur.content[x]
       /\ cur.content[x] = old.content[x] => d.content[x] = new.content[x]

LEMMA Merged ==
  ASSUME NEW cur \in Databases, NEW old \in Databases, NEW new \in Databases
  PROVE  MergedAs(Merge(cur, old, new), cur, old, new)
<1> DEFINE d == Merge(cur, old, new)
<1>1. /\ d.src = MergeTable(cur.src, old.src, new.src)
      /\ d.art = MergeTable(cur.art, old.art, new.art)
      /\ d.rule = MergeTable(cur.rule, old.rule, new.rule)
      /\ d.content = MergeTable(cur.content, old.content, new.content)
      /\ d = [src |-> d.src, art |-> d.art, rule |-> d.rule, content |-> d.content]
  BY DEF Databases, Merge
<1> HIDE DEF d
<1>2. /\ cur.src \in [Sources -> SrcRow] /\ cur.art \in [Items -> ArtRow]
      /\ cur.rule \in [Rules -> RuleRow] /\ cur.content \in [Items \X Targets -> ContentRow]
      /\ old.src \in [Sources -> SrcRow] /\ old.art \in [Items -> ArtRow]
      /\ old.rule \in [Rules -> RuleRow] /\ old.content \in [Items \X Targets -> ContentRow]
      /\ new.src \in [Sources -> SrcRow] /\ new.art \in [Items -> ArtRow]
      /\ new.rule \in [Rules -> RuleRow] /\ new.content \in [Items \X Targets -> ContentRow]
  BY Parts
<1>3. /\ d.src = [s \in Sources |-> MergeRow(cur.src[s], old.src[s], new.src[s])]
      /\ d.art = [i \in Items |-> MergeRow(cur.art[i], old.art[i], new.art[i])]
      /\ d.rule = [r \in Rules |-> MergeRow(cur.rule[r], old.rule[r], new.rule[r])]
      /\ d.content = [x \in Items \X Targets |->
                        MergeRow(cur.content[x], old.content[x], new.content[x])]
  BY <1>1, <1>2 DEF MergeTable
<1>4. ASSUME NEW s \in Sources
      PROVE  LET row == d.src[s]
                 was == cur.src[s]
                 from == old.src[s]
                 to == new.src[s]
             IN  /\ row \in SrcRow
                 /\ row.cursor = IF to.cursor = from.cursor THEN was.cursor ELSE to.cursor
                 /\ row.confirmed =
                      IF to.confirmed = from.confirmed THEN was.confirmed ELSE to.confirmed
  <2>1. cur.src[s] \in SrcRow /\ old.src[s] \in SrcRow /\ new.src[s] \in SrcRow
    BY <1>2
  <2> QED
    BY <1>3, <2>1, SrcRowMerge
<1>5. ASSUME NEW i \in Items
      PROVE  LET row == d.art[i]
                 was == cur.art[i]
                 from == old.art[i]
                 to == new.art[i]
             IN  /\ row \in ArtRow
                 /\ row.status = IF to.status = from.status THEN was.status ELSE to.status
                 /\ row.dup = IF to.dup = from.dup THEN was.dup ELSE to.dup
                 /\ row.source = IF to.source = from.source THEN was.source ELSE to.source
                 /\ row.original =
                      IF to.original = from.original THEN was.original ELSE to.original
                 /\ to = from => row = was
                 /\ was = from => row = to
  <2>1. cur.art[i] \in ArtRow /\ old.art[i] \in ArtRow /\ new.art[i] \in ArtRow
    BY <1>2
  <2> QED
    BY <1>3, <2>1, ArtRowMerge
<1>6. ASSUME NEW x \in Items \X Targets
      PROVE  /\ d.content[x] \in ContentRow
             /\ new.content[x] = old.content[x] => d.content[x] = cur.content[x]
             /\ cur.content[x] = old.content[x] => d.content[x] = new.content[x]
  <2>1. /\ cur.content[x] \in ContentRow /\ old.content[x] \in ContentRow
        /\ new.content[x] \in ContentRow
    BY <1>2
  <2> QED
    BY <1>3, <2>1, ContentRowMerge
<1>7. ASSUME NEW r \in Rules
      PROVE  /\ d.rule[r] \in RuleRow
             /\ new.rule = old.rule => d.rule[r] = cur.rule[r]
  <2>1. /\ cur.rule[r] \in RuleRow /\ old.rule[r] \in RuleRow /\ new.rule[r] \in RuleRow
        /\ d.rule[r] = MergeRow(cur.rule[r], old.rule[r], new.rule[r])
    BY <1>2, <1>3
  <2>2. MergeRow(cur.rule[r], old.rule[r], new.rule[r]) \in RuleRow
    BY <2>1 DEF MergeRow, RuleRow
  <2> QED
    BY <2>1, <2>2, RuleRowMerge
<1>8. /\ d.src \in [Sources -> SrcRow] /\ d.art \in [Items -> ArtRow]
      /\ d.rule \in [Rules -> RuleRow] /\ d.content \in [Items \X Targets -> ContentRow]
  BY <1>3, <1>4, <1>5, <1>6, <1>7
<1>9. d \in Databases
  BY <1>1, <1>8 DEF Databases
<1>10. new.rule = old.rule => d.rule = cur.rule
  BY <1>2, <1>7, <1>8
<1> QED
  BY <1>4, <1>5, <1>6, <1>9, <1>10 DEF MergedAs, d

\* A change that nothing overlaps is its own commit.
LEMMA OwnChange ==
  ASSUME NEW d \in Databases, NEW new \in Databases
  PROVE  MergedAs(new, d, d, new)
  BY DEF MergedAs

-----------------------------------------------------------------------------
(* A commit keeps what the tables keep *)

LEMMA PassedMore ==
  ASSUME NEW has, NEW more, has \subseteq more, NEW s \in Sources, NEW c, PassedBy(has, s, c)
  PROVE  PassedBy(more, s, c)
<1>1. Len(Feed[s]) \in Nat
  BY CollectAssumption
<1> QED
  BY <1>1 DEF PassedBy

\* Rules, confirmations and the source of an item decide what is made of it.
LEMMA SameDecision ==
  ASSUME NEW d, NEW e, NEW i \in Items, e.rule = d.rule, d.art[i].source \in Sources,
         e.art[i].source = d.art[i].source, e.art[i].original = d.art[i].original,
         \A s \in Sources : e.src[s].confirmed = d.src[s].confirmed
  PROVE  /\ Candidates(e, i) = Candidates(d, i)
         /\ Makes(e, i) <=> Makes(d, i)
         /\ \A t \in Targets : \A r \in Rules : Best(e, i, t, r) <=> Best(d, i, t, r)
<1>1. Candidates(e, i) = Candidates(d, i)
  BY DEF Candidates
<1>2. WonTargets(e, i) = WonTargets(d, i)
  BY <1>1 DEF WonTargets
<1>3. Refused(e, i) <=> Refused(d, i)
  BY DEF Refused
<1> QED
  BY <1>1, <1>2, <1>3 DEF Makes, Best

\* A request has stored what its new cursor has passed, or others have.
Advanced(cur, old, new) ==
  \A s \in Sources :
    \/ new.src[s].cursor = old.src[s].cursor
    \/ PassedBy(StoredItems(new) \cup StoredItems(cur), s, new.src[s].cursor)

\* The commit of a change, which no unique key refuses.
Committed(d, cur, old, new) ==
  /\ Sound(cur) /\ Change(old, new) /\ Grown(old, cur) /\ Advanced(cur, old, new)
  /\ ~Collides(cur.art, old.art, new.art) /\ ~Collides(cur.content, old.content, new.content)
  /\ MergedAs(d, cur, old, new)

\* What becomes of item i in a commit.
ItemKept(cur, d, i) ==
  /\ ArtOK(d.art[i])
  /\ d.art[i].status = "TRANSFORMED" <=> Made(d, i)
  /\ Present(cur.art[i]) =>
       /\ Present(d.art[i])
       /\ d.art[i].source = cur.art[i].source /\ d.art[i].dup = cur.art[i].dup
       /\ d.art[i].original = cur.art[i].original
       /\ ~Makes(cur, i) /\ ~Made(cur, i) => ~Made(d, i)
  /\ \A t \in Targets :
       \/ d.content[<<i, t>>] = cur.content[<<i, t>>]
       \/ /\ Present(d.content[<<i, t>>])
          /\ d.content[<<i, t>>].rule \in Rules
          /\ Best(cur, i, t, d.content[<<i, t>>].rule)

LEMMA ItemFacts ==
  ASSUME NEW d, NEW cur, NEW old, NEW new, Committed(d, cur, old, new), NEW i \in Items
  PROVE  /\ cur.art[i] \in ArtRow /\ old.art[i] \in ArtRow /\ new.art[i] \in ArtRow
         /\ d.art[i] \in ArtRow
         /\ ArtOK(cur.art[i]) /\ ArtOK(old.art[i])
         /\ cur.art[i].status = "TRANSFORMED" <=> Made(cur, i)
         /\ old.art[i].status = "TRANSFORMED" <=> Made(old, i)
         /\ Present(old.art[i]) =>
              /\ Present(cur.art[i])
              /\ cur.art[i].source = old.art[i].source /\ cur.art[i].dup = old.art[i].dup
              /\ cur.art[i].original = old.art[i].original
              /\ ~Makes(old, i) /\ ~Made(old, i) => ~Made(cur, i)
         /\ MapsItem(old, new, i) \/ LeavesItem(old, new, i)
         /\ d.art[i].status =
              IF new.art[i].status = old.art[i].status THEN cur.art[i].status
              ELSE new.art[i].status
         /\ d.art[i].dup =
              IF new.art[i].dup = old.art[i].dup THEN cur.art[i].dup ELSE new.art[i].dup
         /\ d.art[i].source =
              IF new.art[i].source = old.art[i].source THEN cur.art[i].source
              ELSE new.art[i].source
         /\ d.art[i].original =
              IF new.art[i].original = old.art[i].original THEN cur.art[i].original
              ELSE new.art[i].original
         /\ new.art[i] = old.art[i] => d.art[i] = cur.art[i]
         /\ cur.art[i] = old.art[i] => d.art[i] = new.art[i]
<1>1. /\ Sound(cur) /\ Sound(old) /\ cur \in Databases /\ old \in Databases
      /\ new \in Databases /\ d \in Databases
  BY DEF Committed, Change, Sound, MergedAs
<1>2. /\ cur.art[i] \in ArtRow /\ old.art[i] \in ArtRow /\ new.art[i] \in ArtRow
      /\ d.art[i] \in ArtRow
  BY <1>1, Parts
<1>3. /\ ArtOK(cur.art[i]) /\ ArtOK(old.art[i])
      /\ cur.art[i].status = "TRANSFORMED" <=> Made(cur, i)
      /\ old.art[i].status = "TRANSFORMED" <=> Made(old, i)
  BY <1>1 DEF Sound
<1>4. Present(old.art[i]) =>
        /\ Present(cur.art[i])
        /\ cur.art[i].source = old.art[i].source /\ cur.art[i].dup = old.art[i].dup
        /\ cur.art[i].original = old.art[i].original
        /\ ~Makes(old, i) /\ ~Made(old, i) => ~Made(cur, i)
  BY DEF Committed, Grown
<1>5. MapsItem(old, new, i) \/ LeavesItem(old, new, i)
  BY DEF Committed, Change
<1> QED
  BY <1>2, <1>3, <1>4, <1>5 DEF Committed, MergedAs

\* Products only the request changed are as it made them, others as they were.
LEMMA ContentFacts ==
  ASSUME NEW d, NEW cur, NEW old, NEW new, Committed(d, cur, old, new),
         NEW i \in Items, NEW t \in Targets
  PROVE  LET x == <<i, t>>
         IN  /\ new.content[x] = old.content[x] => d.content[x] = cur.content[x]
             /\ Present(new.content[x]) /\ ~Present(old.content[x]) =>
                  d.content[x] = new.content[x] /\ ~Present(cur.content[x])
<1> DEFINE x == <<i, t>>
<1>1. x \in Items \X Targets
  OBVIOUS
<1>2. Sound(cur) /\ Sound(old) /\ old \in Databases
  BY DEF Committed, Change, Sound
<1>3. /\ new.content[x] = old.content[x] => d.content[x] = cur.content[x]
      /\ cur.content[x] = old.content[x] => d.content[x] = new.content[x]
  BY <1>1 DEF Committed, MergedAs
<1>4. ASSUME Present(new.content[x]), ~Present(old.content[x])
      PROVE  ~Present(cur.content[x]) /\ cur.content[x] = old.content[x]
  <2>1. x \in DOMAIN old.content
    BY <1>1, <1>2, Parts
  <2>2. ~Present(cur.content[x])
    BY <1>4, <2>1 DEF Committed, Collides, Added
  <2> QED
    BY <1>1, <1>2, <1>4, <2>2 DEF Sound
<1> QED
  BY <1>3, <1>4

LEMMA LeftItem ==
  ASSUME NEW d, NEW cur, NEW old, NEW new, Committed(d, cur, old, new),
         NEW i \in Items, LeavesItem(old, new, i)
  PROVE  ItemKept(cur, d, i)
<1>1. \A t \in Targets : d.content[<<i, t>>] = cur.content[<<i, t>>]
  BY ContentFacts DEF LeavesItem, SameContent
<1>2. Made(d, i) <=> Made(cur, i)
  BY <1>1 DEF Made
<1>3. CASE new.art[i] = old.art[i]
  <2>1. d.art[i] = cur.art[i]
    BY <1>3, ItemFacts
  <2> QED
    BY <1>1, <1>2, <2>1, ItemFacts DEF ItemKept
<1>4. CASE ~Present(old.art[i]) /\ \E s \in Sources : Fresh(new.art[i], s)
  <2>1. PICK s \in Sources : Fresh(new.art[i], s)
    BY <1>4
  <2>2. Present(new.art[i]) /\ ArtOK(new.art[i]) /\ new.art[i].status # "TRANSFORMED"
    BY <2>1 DEF Fresh, ArtOK, CollectedAs, Present
  <2>3. ~Present(cur.art[i])
    <3>1. i \in DOMAIN old.art
      BY Parts DEF Committed, Change, Sound
    <3> QED
      BY <1>4, <2>2, <3>1 DEF Committed, Collides, Added
  <2>4. cur.art[i] = NoArticle /\ old.art[i] = NoArticle
    BY <1>4, <2>3, ItemFacts DEF ArtOK
  <2>5. d.art[i] = new.art[i]
    BY <2>4, ItemFacts
  <2>6. ~Made(cur, i)
    BY <2>3, ItemFacts DEF Present
  <2> QED
    BY <1>1, <1>2, <2>2, <2>3, <2>5, <2>6 DEF ItemKept
<1>5. CASE Present(old.art[i]) /\ new.art[i] = [old.art[i] EXCEPT !.deleted = TRUE]
  <2>1. /\ new.art[i].status = old.art[i].status /\ new.art[i].dup = old.art[i].dup
        /\ new.art[i].source = old.art[i].source /\ new.art[i].original = old.art[i].original
    BY <1>5, ItemFacts DEF ArtRow
  <2>2. /\ d.art[i].status = cur.art[i].status /\ d.art[i].dup = cur.art[i].dup
        /\ d.art[i].source = cur.art[i].source /\ d.art[i].original = cur.art[i].original
    BY <2>1, ItemFacts
  <2>3. Present(cur.art[i]) /\ ArtOK(cur.art[i])
    BY <1>5, ItemFacts
  <2>4. ArtOK(d.art[i]) /\ Present(d.art[i])
    BY <2>2, <2>3 DEF ArtOK, Present
  <2>5. d.art[i].status = "TRANSFORMED" <=> Made(d, i)
    BY <1>2, <2>2, ItemFacts
  <2> QED
    BY <1>1, <1>2, <2>2, <2>4, <2>5 DEF ItemKept
<1> QED
  BY <1>3, <1>4, <1>5 DEF LeavesItem

LEMMA MappedItem ==
  ASSUME NEW d, NEW cur, NEW old, NEW new, Committed(d, cur, old, new),
         NEW i \in Items, MapsItem(old, new, i)
  PROVE  ItemKept(cur, d, i)
<1>1. /\ old.art[i].status = "COLLECTED" /\ Present(old.art[i]) /\ ~Made(old, i)
      /\ old.art[i] \in ArtRow /\ ArtOK(old.art[i])
  BY ItemFacts DEF MapsItem, Present
<1>2. /\ old.art[i].dup = None /\ old.art[i].source \in Sources
  BY <1>1 DEF ArtOK
<1>3. /\ new.art[i].dup = old.art[i].dup /\ new.art[i].source = old.art[i].source
      /\ new.art[i].original = old.art[i].original
      /\ new.art[i].status = IF Makes(old, i) THEN "TRANSFORMED" ELSE "UNMATCHED"
  BY <1>1 DEF MapsItem, ArtRow
<1>4. /\ Present(cur.art[i]) /\ cur.art[i].source = old.art[i].source
      /\ cur.art[i].dup = old.art[i].dup /\ cur.art[i].original = old.art[i].original
      /\ (~Makes(old, i) => ~Made(cur, i))
  BY <1>1, ItemFacts
<1>5. /\ d.art[i].dup = cur.art[i].dup /\ d.art[i].source = cur.art[i].source
      /\ d.art[i].original = cur.art[i].original
      /\ d.art[i].status = IF Makes(old, i) THEN "TRANSFORMED" ELSE "UNMATCHED"
  BY <1>1, <1>3, ItemFacts
<1>6. ArtOK(d.art[i]) /\ Present(d.art[i])
  BY <1>2, <1>4, <1>5 DEF ArtOK, Present
<1>7. /\ Makes(cur, i) <=> Makes(old, i)
      /\ \A t \in Targets : \A r \in Rules : Best(cur, i, t, r) <=> Best(old, i, t, r)
  <2>1. /\ cur.rule = old.rule
        /\ \A s \in Sources : cur.src[s].confirmed = old.src[s].confirmed
    BY DEF Committed, Grown
  <2> QED
    BY <1>2, <1>4, <2>1, SameDecision
<1>8. ASSUME NEW t \in Targets
      PROVE  \/ d.content[<<i, t>>] = cur.content[<<i, t>>]
             \/ /\ Makes(old, i) /\ Present(d.content[<<i, t>>])
                /\ d.content[<<i, t>>].rule \in Rules
                /\ Best(cur, i, t, d.content[<<i, t>>].rule)
  <2>1. CASE new.content[<<i, t>>] = old.content[<<i, t>>]
    BY <2>1, ContentFacts
  <2>2. CASE Product(old, new, i, t)
    <3>1. d.content[<<i, t>>] = new.content[<<i, t>>]
      BY <2>2, ContentFacts DEF Product
    <3> QED
      BY <1>7, <2>2, <3>1 DEF Product
  <2> QED
    BY <2>1, <2>2 DEF MapsItem
<1>9. CASE Makes(old, i)
  <2>1. PICK t \in Targets : Present(new.content[<<i, t>>])
    BY <1>9 DEF MapsItem, Made
  <2>2. ~Present(old.content[<<i, t>>])
    BY <1>1 DEF Made
  <2>3. Made(d, i)
    BY <2>1, <2>2, ContentFacts DEF Made
  <2> QED
    BY <1>4, <1>5, <1>6, <1>7, <1>8, <1>9, <2>3 DEF ItemKept
<1>10. CASE ~Makes(old, i)
  <2>1. \A t \in Targets : d.content[<<i, t>>] = cur.content[<<i, t>>]
    BY <1>8, <1>10
  <2>2. ~Made(d, i)
    BY <1>4, <1>10, <2>1 DEF Made
  <2> QED
    BY <1>4, <1>5, <1>6, <1>10, <2>1, <2>2 DEF ItemKept
<1> QED
  BY <1>9, <1>10

\* No rule preferred to the one used for what is new in d.
BestKept(cur, d) ==
  \A i \in Items, t \in Targets :
    Present(d.content[<<i, t>>]) /\ ~Present(cur.content[<<i, t>>]) =>
      Best(cur, i, t, d.content[<<i, t>>].rule)

LEMMA CommitKeeps ==
  ASSUME NEW d, NEW cur, NEW old, NEW new, Committed(d, cur, old, new)
  PROVE  Sound(d) /\ Grown(cur, d) /\ BestKept(cur, d)
<1>1. \A i \in Items : ItemKept(cur, d, i)
  BY LeftItem, MappedItem, ItemFacts
<1>2. /\ Sound(cur) /\ Sound(old) /\ cur \in Databases /\ old \in Databases
      /\ new \in Databases /\ d \in Databases
  BY DEF Committed, Change, Sound, MergedAs
<1>3. d.rule = cur.rule /\ \A s \in Sources : d.src[s].confirmed = cur.src[s].confirmed
  BY DEF Committed, MergedAs, Change
<1>4. Grown(cur, d)
  BY <1>1, <1>3 DEF Grown, ItemKept
<1>5. BestKept(cur, d)
  BY <1>1 DEF BestKept, ItemKept
<1>6. ASSUME NEW s \in Sources
      PROVE  Reached(d, s)
  <2>1. d.src[s].cursor =
          IF new.src[s].cursor = old.src[s].cursor THEN cur.src[s].cursor
          ELSE new.src[s].cursor
    BY DEF Committed, MergedAs
  <2>2. StoredItems(cur) \subseteq StoredItems(d)
    BY <1>4 DEF Grown, StoredItems
  <2>3. ASSUME NEW i \in StoredItems(new)
        PROVE  i \in StoredItems(d)
    <3>1. CASE Present(cur.art[i])
      BY <2>2, <3>1 DEF StoredItems
    <3>2. CASE ~Present(cur.art[i])
      <4>1. /\ i \in Items /\ Present(new.art[i])
            /\ cur.art[i] = NoArticle /\ ArtOK(old.art[i]) /\ ~Present(old.art[i])
        BY <3>2, ItemFacts DEF ArtOK, StoredItems
      <4>2. d.art[i] = new.art[i]
        BY <4>1, ItemFacts DEF ArtOK
      <4> QED
        BY <4>1, <4>2 DEF StoredItems
    <3> QED
      BY <3>1, <3>2
  <2>4. CASE new.src[s].cursor = old.src[s].cursor
    <3>1. PassedBy(StoredItems(cur), s, cur.src[s].cursor)
      BY <1>2 DEF Sound, Reached
    <3>2. PassedBy(StoredItems(d), s, cur.src[s].cursor)
      BY <2>2, <3>1, PassedMore
    <3> QED
      BY <2>1, <2>4, <3>2 DEF Reached
  <2>5. CASE new.src[s].cursor # old.src[s].cursor
    <3> DEFINE has == StoredItems(new) \cup StoredItems(cur)
    <3>1. PassedBy(has, s, new.src[s].cursor)
      BY <2>5 DEF Committed, Advanced
    <3>2. has \subseteq StoredItems(d)
      BY <2>2, <2>3
    <3> HIDE DEF has
    <3>3. PassedBy(StoredItems(d), s, new.src[s].cursor)
      BY <3>1, <3>2, PassedMore
    <3> QED
      BY <2>1, <2>5, <3>3 DEF Reached
  <2> QED
    BY <2>4, <2>5
<1>7. ASSUME NEW x \in Items \X Targets, ~Present(d.content[x])
      PROVE  d.content[x] = NoProduct
  <2>1. PICK i \in Items, t \in Targets : x = <<i, t>>
    OBVIOUS
  <2>2. d.content[x] = cur.content[x]
    BY <1>1, <1>7, <2>1 DEF ItemKept
  <2> QED
    BY <1>2, <1>7, <2>2 DEF Sound
<1>8. \A r \in Rules : RuleOK(d.rule[r])
  BY <1>2, <1>3 DEF Sound
<1>9. \A i \in Items : ArtOK(d.art[i]) /\ (d.art[i].status = "TRANSFORMED" <=> Made(d, i))
  BY <1>1 DEF ItemKept
<1>10. Sound(d)
  BY <1>2, <1>6, <1>7, <1>8, <1>9 DEF Sound
<1> QED
  BY <1>4, <1>5, <1>10

-----------------------------------------------------------------------------
(* Storing a list of items *)

LEMMA LeastIn ==
  ASSUME NEW S \in SUBSET Nat, S # {}
  PROVE  \E n \in S : \A m \in S : n <= m
<1> DEFINE R == {p \in Nat \X Nat : p[1] < p[2]}
<1>1. IsWellFoundedOn(R, Nat)
  BY NatLessThanWellFounded DEF OpToRel
<1>2. PICK x \in S : \A y \in S : ~(<<y, x>> \in R)
  BY <1>1, WFMin
<1>3. ASSUME NEW y \in S
      PROVE  x <= y
  <2>1. ~(<<y, x>> \in R)
    BY <1>2
  <2>2. <<y, x>> \in Nat \X Nat /\ <<y, x>>[1] = y /\ <<y, x>>[2] = x
    OBVIOUS
  <2> QED
    BY <2>1, <2>2
<1> QED
  BY <1>3

\* Induction up to L, for a set of numbers.
LEMMA UpTo ==
  ASSUME NEW L \in Nat, NEW G, 0 \in G, \A n \in 1..L : n-1 \in G => n \in G
  PROVE  0..L \subseteq G
<1>1. SUFFICES ASSUME {n \in 0..L : n \notin G} # {}
               PROVE  FALSE
  OBVIOUS
<1> DEFINE Bad == {n \in 0..L : n \notin G}
<1>2. PICK k \in Bad : \A m \in Bad : k <= m
  <2>1. Bad \in SUBSET Nat /\ Bad # {}
    BY <1>1
  <2> HIDE DEF Bad
  <2> QED
    BY <2>1, LeastIn
<1>3. k \in 1..L /\ k-1 \in 0..L /\ k-1 < k
  BY <1>2
<1>4. k-1 \in G
  BY <1>2, <1>3
<1> QED
  BY <1>2, <1>3, <1>4

\* What every step keeps, with as many items as there were steps, the end has.
LEMMA Stepwise ==
  ASSUME NEW d, NEW s, NEW items \in Seq(Items), NEW wanted, NEW S, d \in S[0],
         \A n \in 1..Len(items) : \A e \in S[n-1] : StoredOnce(e, s, items[n], wanted) \in S[n]
  PROVE  Ingested(d, s, items, wanted) \in S[Len(items)]
<1> DEFINE L == Len(items)
           Upto(f, m) == f = [n \in 0..m |->
                                IF n = 0 THEN d ELSE StoredOnce(f[n-1], s, items[n], wanted)]
           after[n \in 0..Len(items)] ==
             IF n = 0 THEN d ELSE StoredOnce(after[n-1], s, items[n], wanted)
<1>1. L \in Nat
  OBVIOUS
<1>2. \E f : Upto(f, L)
  <2> DEFINE G == {m \in Nat : \E f : Upto(f, m)}
  <2>1. 0 \in G
    <3>1. Upto([n \in 0..0 |-> d], 0)
      OBVIOUS
    <3> QED
      BY <3>1
  <2>2. ASSUME NEW m \in 1..L, m-1 \in G
        PROVE  m \in G
    <3>1. PICK f : Upto(f, m-1)
      BY <2>2
    <3> DEFINE g == [n \in 0..m |-> IF n = m THEN StoredOnce(f[m-1], s, items[m], wanted)
                                    ELSE f[n]]
    <3>2. ASSUME NEW n \in 0..m
          PROVE  g[n] = IF n = 0 THEN d ELSE StoredOnce(g[n-1], s, items[n], wanted)
      <4>1. CASE n = m
        <5>1. m # 0 /\ m-1 \in 0..m /\ m-1 # m
          OBVIOUS
        <5>2. g[m-1] = f[m-1]
          BY <5>1
        <5> QED
          BY <4>1, <5>1, <5>2
      <4>2. CASE n # m /\ n # 0
        <5>1. n \in 0..m-1 /\ n-1 \in 0..m /\ n-1 # m
          BY <4>2
        <5>2. g[n] = f[n] /\ g[n-1] = f[n-1]
          BY <4>2, <5>1
        <5>3. f[n] = StoredOnce(f[n-1], s, items[n], wanted)
          BY <3>1, <4>2, <5>1
        <5> QED
          BY <4>2, <5>2, <5>3
      <4>3. CASE n # m /\ n = 0
        <5>1. 0 \in 0..m-1
          BY <4>3
        <5>2. f[0] = d
          BY <3>1, <5>1
        <5> QED
          BY <4>3, <5>2
      <4> QED
        BY <4>1, <4>2, <4>3
    <3> HIDE DEF g
    <3>3. g = [n \in 0..m |-> g[n]]
      BY DEF g
    <3>4. Upto(g, m)
      BY <3>2, <3>3
    <3> QED
      BY <3>4
  <2>3. L \in G
    <3> HIDE DEF G
    <3>1. 0..L \subseteq G
      BY <1>1, <2>1, <2>2, UpTo
    <3> QED
      BY <1>1, <3>1
  <2> QED
    BY <2>3
<1>3. Upto(after, L)
  BY <1>2
<1>4. Ingested(d, s, items, wanted) = after[L]
  BY DEF Ingested
<1> HIDE DEF after
<1>5. \A n \in 0..L : after[n] \in S[n]
  <2> DEFINE G == {n \in 0..L : after[n] \in S[n]}
  <2>1. 0 \in G
    BY <1>1, <1>3
  <2>2. ASSUME NEW n \in 1..L, n-1 \in G
        PROVE  n \in G
    <3>1. n \in 0..L /\ n # 0
      BY <1>1
    <3>2. after[n] = StoredOnce(after[n-1], s, items[n], wanted)
      BY <1>3, <3>1
    <3> QED
      BY <2>2, <3>1, <3>2
  <2> QED
    BY <1>1, <2>1, <2>2, UpTo
<1> QED
  BY <1>1, <1>4, <1>5

-----------------------------------------------------------------------------
(* Near duplicates *)

\* Four bands and fewer differing bits: a band is equal.
LEMMA Recall ==
  ASSUME NEW i \in Items, NEW j \in Items, Hamming(i, j) < 4
  PROVE  Recalled(i, j)
<1> DEFINE D == (Bits[i] \ Bits[j]) \cup (Bits[j] \ Bits[i])
<1>1. SUFFICES ASSUME ~Recalled(i, j)
               PROVE  FALSE
  OBVIOUS
<1>2. ASSUME NEW band \in 0..3
      PROVE  \E b \in D : BandOf[b] = band
  BY <1>1 DEF Recalled, SameBand
<1>3. PICK b0 \in D, b1 \in D, b2 \in D, b3 \in D :
        BandOf[b0] = 0 /\ BandOf[b1] = 1 /\ BandOf[b2] = 2 /\ BandOf[b3] = 3
  <2>1. 0 \in 0..3 /\ 1 \in 0..3 /\ 2 \in 0..3 /\ 3 \in 0..3
    OBVIOUS
  <2> QED
    BY <1>2, <2>1
<1>4. IsFiniteSet(D)
  <2>1. IsFiniteSet(Bits[i]) /\ IsFiniteSet(Bits[j])
    BY CollectAssumption
  <2>2. IsFiniteSet(Bits[i] \cup Bits[j])
    BY <2>1, FS_Union
  <2>3. D \subseteq Bits[i] \cup Bits[j]
    OBVIOUS
  <2> QED
    BY <2>2, <2>3, FS_Subset
<1> HIDE DEF D
<1>5. IsFiniteSet({}) /\ Cardinality({}) = 0
  BY FS_EmptySet
<1>6. IsFiniteSet({b0}) /\ Cardinality({b0}) = 1
  BY FS_Singleton
<1>7. IsFiniteSet({b0, b1}) /\ Cardinality({b0, b1}) = 2
  <2>1. {b0, b1} = {b0} \cup {b1} /\ b1 \notin {b0}
    BY <1>3
  <2> QED
    BY <1>6, <2>1, FS_AddElement
<1>8. IsFiniteSet({b0, b1, b2}) /\ Cardinality({b0, b1, b2}) = 3
  <2>1. {b0, b1, b2} = {b0, b1} \cup {b2} /\ b2 \notin {b0, b1}
    BY <1>3
  <2> QED
    BY <1>7, <2>1, FS_AddElement
<1>9. IsFiniteSet({b0, b1, b2, b3}) /\ Cardinality({b0, b1, b2, b3}) = 4
  <2>1. {b0, b1, b2, b3} = {b0, b1, b2} \cup {b3} /\ b3 \notin {b0, b1, b2}
    BY <1>3
  <2> QED
    BY <1>8, <2>1, FS_AddElement
<1>10. Cardinality({b0, b1, b2, b3}) <= Cardinality(D)
  <2>1. {b0, b1, b2, b3} \subseteq D
    BY <1>3
  <2> QED
    BY <1>4, <2>1, FS_Subset
<1>11. Cardinality(D) < 4 /\ Cardinality(D) \in Nat
  BY <1>4, FS_CardinalityType DEF Hamming, D
<1> QED
  BY <1>9, <1>10, <1>11

LEMMA HammingSymmetric ==
  ASSUME NEW i, NEW j
  PROVE  Hamming(i, j) = Hamming(j, i)
<1>1. (Bits[i] \ Bits[j]) \cup (Bits[j] \ Bits[i])
        = (Bits[j] \ Bits[i]) \cup (Bits[i] \ Bits[j])
  OBVIOUS
<1> QED
  BY <1>1 DEF Hamming

LEMMA HammingType ==
  ASSUME NEW i \in Items, NEW j \in Items
  PROVE  Hamming(i, j) \in Nat
<1> DEFINE D == (Bits[i] \ Bits[j]) \cup (Bits[j] \ Bits[i])
<1>1. IsFiniteSet(Bits[i]) /\ IsFiniteSet(Bits[j])
  BY CollectAssumption
<1>2. IsFiniteSet(Bits[i] \cup Bits[j])
  BY <1>1, FS_Union
<1>3. D \subseteq Bits[i] \cup Bits[j]
  OBVIOUS
<1>4. IsFiniteSet(D)
  BY <1>2, <1>3, FS_Subset
<1> QED
  BY <1>4, FS_CardinalityType DEF Hamming

LEMMA StoredIs ==
  ASSUME NEW d \in Databases, NEW s \in Sources, NEW i \in Items, NEW original \in BOOLEAN,
         ~Present(d.art[i])
  PROVE  LET e == Stored(d, s, i, original)
         IN  /\ e \in Databases
             /\ e.src = d.src /\ e.rule = d.rule /\ e.content = d.content
             /\ Fresh(e.art[i], s)
             /\ \A j \in Items \ {i} : e.art[j] = d.art[j]
             /\ e.art[i].dup = None => Similar(d, i) = {}
<1> DEFINE e == Stored(d, s, i, original)
           dup == IF Similar(d, i) = {} THEN None ELSE CHOOSE j \in Similar(d, i) : TRUE
           row == [status |-> CollectedAs(dup), deleted |-> FALSE, dup |-> dup, source |-> s,
                   original |-> original]
<1>1. /\ d.src \in [Sources -> SrcRow] /\ d.art \in [Items -> ArtRow]
      /\ d.rule \in [Rules -> RuleRow] /\ d.content \in [Items \X Targets -> ContentRow]
      /\ d \in [src: {d.src}, art: {d.art}, rule: {d.rule}, content: {d.content}]
  BY DEF Databases
<1>2. dup \in Items \cup {None} /\ (dup = None => Similar(d, i) = {})
  <2>1. Similar(d, i) \subseteq Items /\ None \notin Items
    BY CollectAssumption DEF Similar
  <2> QED
    BY <2>1
<1>3. e = [d EXCEPT !.art[i] = row]
  BY DEF Stored
<1> HIDE DEF dup
<1>4. row \in ArtRow /\ Fresh(row, s) /\ row.dup = dup
  BY <1>2 DEF ArtRow, Fresh, CollectedAs
<1> HIDE DEF row
<1>5. /\ e.src = d.src /\ e.rule = d.rule /\ e.content = d.content
      /\ e.art = [d.art EXCEPT ![i] = row]
      /\ e = [src |-> e.src, art |-> e.art, rule |-> e.rule, content |-> e.content]
  BY <1>1, <1>3
<1> HIDE DEF e
<1>6. e.art \in [Items -> ArtRow]
  BY <1>1, <1>4, <1>5
<1>7. e \in Databases
  BY <1>1, <1>5, <1>6 DEF Databases
<1>8. e.art[i] = row /\ \A j \in Items \ {i} : e.art[j] = d.art[j]
  BY <1>1, <1>5
<1> QED
  BY <1>2, <1>4, <1>5, <1>7, <1>8 DEF e

\* Storing an item settles what is close to it.
LEMMA StoredSettles ==
  ASSUME NEW d \in Databases, NEW s \in Sources, NEW i \in Items, NEW original \in BOOLEAN,
         ~Present(d.art[i]), HammingThreshold < 4, Settled(d)
  PROVE  Settled(Stored(d, s, i, original))
<1> DEFINE e == Stored(d, s, i, original)
<1>1. /\ Fresh(e.art[i], s) /\ \A j \in Items \ {i} : e.art[j] = d.art[j]
      /\ e.art[i].dup = None => Similar(d, i) = {}
  BY StoredIs
<1> HIDE DEF e
<1>2. ASSUME NEW j \in Items \ {i}, Close(e, i, j) \/ Close(e, j, i)
      PROVE  e.art[i].dup # None
  <2>1. /\ Present(d.art[j]) /\ ~d.art[j].deleted /\ Hamming(i, j) <= HammingThreshold
    BY <1>1, <1>2, HammingSymmetric DEF Close
  <2>2. Recalled(i, j)
    <3>1. Hamming(i, j) < 4
      BY <2>1, HammingType, CollectAssumption
    <3> QED
      BY <3>1, Recall
  <2>3. j \in Similar(d, i)
    BY <2>1, <2>2 DEF Similar
  <2> QED
    BY <1>1, <2>3
<1>3. ASSUME NEW j \in Items, NEW k \in Items, Close(e, j, k)
      PROVE  e.art[j].dup # None \/ e.art[k].dup # None
  <2>1. CASE j = i \/ k = i
    BY <1>2, <1>3, <2>1 DEF Close
  <2>2. CASE j # i /\ k # i
    <3>1. Close(d, j, k)
      BY <1>1, <1>3, <2>2 DEF Close
    <3> QED
      BY <1>1, <2>2, <3>1 DEF Settled
  <2> QED
    BY <2>1, <2>2
<1> QED
  BY <1>3 DEF Settled, e

-----------------------------------------------------------------------------
(* What a list of items leaves in the tables *)

\* e is d with the items of a set stored from source s, unless they were already.
Stocked(d, e, s, new) ==
  /\ e \in Databases
  /\ e.src = d.src /\ e.rule = d.rule /\ e.content = d.content
  /\ \A i \in Items :
       IF Present(d.art[i]) \/ i \notin new THEN e.art[i] = d.art[i] ELSE Fresh(e.art[i], s)
  /\ HammingThreshold < 4 /\ Settled(d) => Settled(e)

LEMMA StockedOnce ==
  ASSUME NEW d \in Databases, NEW s \in Sources, NEW i \in Items, NEW wanted,
         NEW e, NEW new, Stocked(d, e, s, new), new \subseteq wanted
  PROVE  Stocked(d, StoredOnce(e, s, i, wanted), s, IF i \in wanted THEN new \cup {i} ELSE new)
<1>1. \A j \in Items : Present(d.art[j]) => Present(e.art[j])
  BY DEF Stocked
<1>2. CASE i \notin wanted
  BY <1>2 DEF StoredOnce
<1>3. CASE i \in wanted /\ Present(e.art[i])
  <2>1. StoredOnce(e, s, i, wanted) = e
    BY <1>3 DEF StoredOnce
  <2>2. Present(d.art[i]) \/ Fresh(e.art[i], s)
    BY <1>3 DEF Stocked
  <2>3. \A j \in Items : IF Present(d.art[j]) \/ j \notin new \cup {i} THEN e.art[j] = d.art[j]
                         ELSE Fresh(e.art[j], s)
    BY <2>2 DEF Stocked
  <2> QED
    BY <1>3, <2>1, <2>3 DEF Stocked
<1>4. CASE i \in wanted /\ ~Present(e.art[i])
  <2> DEFINE f == Stored(e, s, i, FALSE)
  <2>1. StoredOnce(e, s, i, wanted) = f
    BY <1>4 DEF StoredOnce
  <2>2. /\ f \in Databases /\ f.src = e.src /\ f.rule = e.rule /\ f.content = e.content
        /\ Fresh(f.art[i], s) /\ \A j \in Items \ {i} : f.art[j] = e.art[j]
    BY <1>4, StoredIs DEF Stocked
  <2>3. HammingThreshold < 4 /\ Settled(e) => Settled(f)
    BY <1>4, StoredSettles DEF Stocked
  <2> HIDE DEF f
  <2>4. ~Present(d.art[i])
    BY <1>1, <1>4
  <2>5. ASSUME NEW j \in Items
        PROVE  IF Present(d.art[j]) \/ j \notin new \cup {i} THEN f.art[j] = d.art[j]
               ELSE Fresh(f.art[j], s)
    <3>1. CASE j = i
      BY <2>2, <2>4, <3>1
    <3>2. CASE j # i
      BY <2>2, <3>2 DEF Stocked
    <3> QED
      BY <3>1, <3>2
  <2> QED
    BY <1>4, <2>1, <2>2, <2>3, <2>5 DEF Stocked
<1> QED
  BY <1>2, <1>3, <1>4

ItemsOf(items) == {items[n] : n \in 1..Len(items)}

LEMMA IngestedIs ==
  ASSUME NEW d \in Databases, NEW s \in Sources, NEW items \in Seq(Items), NEW wanted
  PROVE  Stocked(d, Ingested(d, s, items, wanted), s, wanted \cap ItemsOf(items))
<1> DEFINE First(n) == {items[k] : k \in 1..n}
           S == [n \in 0..Len(items) |->
                   {e \in Databases : Stocked(d, e, s, wanted \cap First(n))}]
<1>1. Len(items) \in Nat /\ \A n \in 1..Len(items) : items[n] \in Items
  OBVIOUS
<1>2. d \in S[0]
  <2>1. Stocked(d, d, s, wanted \cap First(0))
    BY DEF Stocked
  <2> QED
    BY <1>1, <2>1
<1>3. ASSUME NEW n \in 1..Len(items), NEW e \in S[n-1]
      PROVE  StoredOnce(e, s, items[n], wanted) \in S[n]
  <2>1. n-1 \in 0..Len(items) /\ n \in 0..Len(items)
    BY <1>1
  <2>2. Stocked(d, e, s, wanted \cap First(n-1))
    BY <1>3, <2>1
  <2>3. First(n) = First(n-1) \cup {items[n]}
    <3>1. 1..n = 1..n-1 \cup {n}
      BY <1>1
    <3> QED
      BY <3>1
  <2>4. wanted \cap First(n) = IF items[n] \in wanted THEN (wanted \cap First(n-1)) \cup {items[n]}
                               ELSE wanted \cap First(n-1)
    BY <2>3
  <2> HIDE DEF First
  <2>5. Stocked(d, StoredOnce(e, s, items[n], wanted), s, wanted \cap First(n))
    <3>1. wanted \cap First(n-1) \subseteq wanted /\ items[n] \in Items
      BY <1>1
    <3> QED
      BY <2>2, <2>4, <3>1, StockedOnce
  <2>6. StoredOnce(e, s, items[n], wanted) \in Databases
    BY <2>5 DEF Stocked
  <2> QED
    BY <2>1, <2>5, <2>6
<1> HIDE DEF S
<1>4. Ingested(d, s, items, wanted) \in S[Len(items)]
  BY <1>2, <1>3, Stepwise
<1> QED
  BY <1>1, <1>4 DEF S, ItemsOf

-----------------------------------------------------------------------------
(* Requests *)

LEMMA GrownOn ==
  ASSUME NEW old, NEW cur, NEW d, Sound(old), Grown(old, cur), Grown(cur, d)
  PROVE  Grown(old, d)
<1>1. /\ d.rule = old.rule
      /\ \A s \in Sources : d.src[s].confirmed = old.src[s].confirmed
      /\ cur.rule = old.rule
      /\ \A s \in Sources : cur.src[s].confirmed = old.src[s].confirmed
  BY DEF Grown
<1>2. ASSUME NEW i \in Items, Present(old.art[i])
      PROVE  /\ Present(d.art[i])
             /\ d.art[i].source = old.art[i].source /\ d.art[i].dup = old.art[i].dup
             /\ d.art[i].original = old.art[i].original
             /\ ~Makes(old, i) /\ ~Made(old, i) => ~Made(d, i)
  <2>1. /\ Present(cur.art[i])
        /\ cur.art[i].source = old.art[i].source /\ cur.art[i].dup = old.art[i].dup
        /\ cur.art[i].original = old.art[i].original
        /\ ~Makes(old, i) /\ ~Made(old, i) => ~Made(cur, i)
    BY <1>2 DEF Grown
  <2>2. old.art[i].source \in Sources
    BY <1>2 DEF Sound, ArtOK
  <2>3. Makes(cur, i) <=> Makes(old, i)
    BY <1>1, <2>1, <2>2, SameDecision
  <2> QED
    BY <2>1, <2>3 DEF Grown
<1> QED
  BY <1>1, <1>2 DEF Grown

\* What a request commits is a change of its snapshot, also after others stored
\* items of the feed it read.
LEMMA KeptIs ==
  ASSUME CollectInv, NEW q \in Requests, ~Idle(q)
  PROVE  Change(sess[q].seen, Kept(q)) /\ Advanced(db, sess[q].seen, Kept(q))
<1> DEFINE old == sess[q].seen
           new == sess[q].new
           kept == Kept(q)
<1>1. Effect(sess[q].kind, old, new) /\ Grown(old, db) /\ Sound(db)
  BY DEF CollectInv, RequestsOK
<1>2. Change(old, new) /\ Sound(old) /\ old \in Databases /\ new \in Databases
  BY <1>1 DEF Effect, Change, Sound
<1>3. CASE sess[q].kind # "run"
  <2>1. kept = new
    BY <1>3 DEF Kept
  <2> QED
    BY <1>1, <1>2, <1>3, <2>1 DEF Effect, Advanced
<1>4. CASE sess[q].kind = "run"
  <2>1. PICK s \in Sources : RunOf(s, old, new)
    BY <1>1, <1>4 DEF Effect
  <2>2. CASE Found(q) = {}
    <3>1. kept = new
      BY <2>2 DEF Kept
    <3>2. ASSUME NEW o \in Sources, new.src[o].cursor # old.src[o].cursor
          PROVE  PassedBy(StoredItems(new) \cup StoredItems(db), o, new.src[o].cursor)
      <4>1. PassedBy(StoredItems(new), o, new.src[o].cursor)
        BY <2>1, <3>2 DEF RunOf, Reached
      <4> QED
        BY <4>1, PassedMore
    <3> QED
      BY <1>2, <3>1, <3>2 DEF Advanced
  <2>3. CASE Found(q) # {}
    <3> DEFINE free == {i \in Found(q) : ~Present(db.art[i])}
               e == Ingested(old, s, Feed[s], free)
    <3>1. Found(q) = {i \in Items : Present(new.art[i]) /\ ~Present(old.art[i])}
      BY <1>2, Parts DEF Found, Added
    <3>2. ASSUME NEW i \in Found(q)
          PROVE  i \in Items /\ new.art[i].source = s /\ i \in ItemsOf(Feed[s])
      BY <2>1, <3>1, <3>2 DEF RunOf, Fresh, ItemsOf
    <3>3. RanOn(q) = s
      <4>1. PICK i \in Found(q) : TRUE
        BY <2>3
      <4>2. \E o \in Sources : \E j \in Found(q) : new.art[j].source = o
        BY <3>2, <4>1
      <4>3. \E j \in Found(q) : new.art[j].source = RanOn(q)
        BY <4>2 DEF RanOn
      <4> QED
        BY <3>2, <4>3
    <3>4. kept = [new EXCEPT !.art = e.art]
      BY <1>4, <2>3, <3>3 DEF Kept
    <3>5. Stocked(old, e, s, free)
      <4>1. free \cap ItemsOf(Feed[s]) = free
        BY <3>2
      <4>2. Feed[s] \in Seq(Items)
        BY CollectAssumption
      <4>3. Stocked(old, e, s, free \cap ItemsOf(Feed[s]))
        BY <1>2, <4>2, IngestedIs
      <4> QED
        BY <4>1, <4>3
    <3> HIDE DEF e
    <3>6. /\ kept.src = new.src /\ kept.rule = new.rule /\ kept.content = new.content
          /\ kept.art = e.art /\ kept \in Databases
      <4>1. e.art \in [Items -> ArtRow]
        BY <3>5, Parts DEF Stocked
      <4> QED
        BY <1>2, <3>4, <4>1 DEF Databases
    <3> HIDE DEF kept
    <3>7. ASSUME NEW i \in Items
          PROVE  LeavesItem(old, kept, i)
      <4>1. SameContent(old, kept, i)
        BY <2>1, <3>6 DEF RunOf, SameContent
      <4>2. \/ kept.art[i] = old.art[i]
            \/ ~Present(old.art[i]) /\ Fresh(kept.art[i], s)
        BY <3>5, <3>6 DEF Stocked
      <4> QED
        BY <4>1, <4>2 DEF LeavesItem
    <3>8. Change(old, kept)
      BY <1>2, <3>6, <3>7 DEF Change
    <3>9. ASSUME NEW o \in Sources, kept.src[o].cursor # old.src[o].cursor
          PROVE  PassedBy(StoredItems(kept) \cup StoredItems(db), o, kept.src[o].cursor)
      <4>1. PassedBy(StoredItems(new), o, new.src[o].cursor)
        BY <2>1, <3>6, <3>9 DEF RunOf, Reached
      <4>2. ASSUME NEW i \in StoredItems(new)
            PROVE  i \in StoredItems(kept) \cup StoredItems(db)
        <5>1. i \in Items /\ Present(new.art[i])
          BY DEF StoredItems
        <5>2. CASE Present(old.art[i])
          BY <1>1, <5>1, <5>2 DEF Grown, StoredItems
        <5>3. CASE i \in free
          BY <3>1, <3>5, <3>6, <5>1, <5>3 DEF Stocked, Fresh, CollectedAs, Present, StoredItems
        <5>4. CASE ~Present(old.art[i]) /\ i \notin free
          BY <3>1, <5>1, <5>4 DEF StoredItems
        <5> QED
          BY <5>2, <5>3, <5>4
      <4>3. StoredItems(new) \subseteq StoredItems(kept) \cup StoredItems(db)
        BY <4>2
      <4> QED
        BY <3>6, <4>1, <4>3, PassedMore
    <3>10. Advanced(db, old, kept)
      BY <3>9 DEF Advanced
    <3> QED
      BY <3>8, <3>10 DEF kept
  <2> QED
    BY <2>2, <2>3
<1> QED
  BY <1>3, <1>4

\* A step of db that ends a request, or leaves all as they are.
LEMMA Stays ==
  ASSUME CollectInv, Sound(db'), Grown(db, db'), UNCHANGED <<offer, feed, today>>,
         NEW q \in Requests, ~Idle(q), sess' = [sess EXCEPT ![q] = NoRequest]
  PROVE  CollectInv'
<1>1. ~Sequential
  BY DEF CollectInv, RequestsOK
<1>2. sess' \in [Requests -> {NoRequest} \cup [kind: Kinds, seen: Databases, new: Databases]]
  BY DEF CollectInv, RequestsOK
<1>3. ASSUME NEW r \in Requests, ~Idle(r)'
      PROVE  sess'[r] = sess[r] /\ ~Idle(r)
  BY <1>3 DEF Idle, NoRequest, CollectInv, RequestsOK
<1>4. ASSUME NEW r \in Requests, ~Idle(r)'
      PROVE  /\ sess'[r].kind \notin Alone
             /\ Effect(sess'[r].kind, sess'[r].seen, sess'[r].new)
             /\ Grown(sess'[r].seen, db')
  <2>1. /\ sess[r].kind \notin Alone
        /\ Effect(sess[r].kind, sess[r].seen, sess[r].new)
        /\ Grown(sess[r].seen, db)
    BY <1>3, <1>4 DEF CollectInv, RequestsOK
  <2>2. Sound(sess[r].seen)
    BY <2>1 DEF Effect, Change
  <2> QED
    BY <1>3, <1>4, <2>1, <2>2, GrownOn
<1>5. ~Sequential'
  BY <1>1 DEF Sequential
<1>6. RequestsOK'
  BY <1>2, <1>4, <1>5 DEF RequestsOK
<1>7. FeedOK' /\ AloneInv'
  BY <1>5 DEF CollectInv, FeedOK, AloneInv
<1> QED
  BY <1>6, <1>7 DEF CollectInv

LEMMA GrownSelf ==
  ASSUME NEW d
  PROVE  Grown(d, d)
  BY DEF Grown

LEMMA CommitStep ==
  ASSUME CollectInv, NEW q \in Requests, Commit(q), UNCHANGED <<feed, today>>
  PROVE  CollectInv' /\ BestKept(db, db')
<1> DEFINE old == sess[q].seen
           kept == Kept(q)
<1>1. /\ ~Idle(q) /\ ~Duplicate(q)
      /\ db' = Merge(db, old, kept) /\ sess' = [sess EXCEPT ![q] = NoRequest]
      /\ UNCHANGED offer
  BY DEF Commit, CommitUnless
<1>2. Change(old, kept) /\ Advanced(db, old, kept)
  BY <1>1, KeptIs
<1>3. Sound(db) /\ Grown(old, db)
  BY <1>1 DEF CollectInv, RequestsOK
<1>4. ~Collides(db.art, old.art, kept.art) /\ ~Collides(db.content, old.content, kept.content)
  BY <1>1 DEF Duplicate
<1>5. db \in Databases /\ old \in Databases /\ kept \in Databases
  BY <1>2, <1>3 DEF Change, Sound
<1> HIDE DEF kept
<1>6. MergedAs(db', db, old, kept)
  BY <1>1, <1>5, Merged
<1>7. Committed(db', db, old, kept)
  BY <1>2, <1>3, <1>4, <1>6 DEF Committed
<1>8. Sound(db') /\ Grown(db, db') /\ BestKept(db, db')
  BY <1>7, CommitKeeps
<1> QED
  BY <1>1, <1>8, Stays

LEMMA SameBest ==
  ASSUME NEW d, NEW e, e.content = d.content
  PROVE  BestKept(d, e)
  BY DEF BestKept

LEMMA AbortStep ==
  ASSUME CollectInv, NEW q \in Requests, Abort(q), UNCHANGED <<feed, today>>
  PROVE  CollectInv' /\ BestKept(db, db')
<1>1. ~Idle(q) /\ sess' = [sess EXCEPT ![q] = NoRequest] /\ UNCHANGED <<db, offer>>
  BY DEF Abort
<1>2. Sound(db') /\ Grown(db, db')
  BY <1>1, GrownSelf DEF CollectInv
<1> QED
  BY <1>1, <1>2, Stays, SameBest

\* A change of the tables while no request is in flight.
LEMMA Replaced ==
  ASSUME CollectInv, \A q \in Requests : Idle(q), UNCHANGED <<sess, offer, feed, today>>,
         Sound(db'), AloneKept(db, db')
  PROVE  CollectInv'
<1>1. \A q \in Requests : Idle(q)'
  BY DEF Idle
<1>2. RequestsOK'
  BY <1>1 DEF CollectInv, RequestsOK
<1>3. FeedOK'
  BY DEF CollectInv, FeedOK
<1>4. AloneInv'
  BY DEF CollectInv, AloneInv, AloneKept, Sequential
<1> QED
  BY <1>2, <1>3, <1>4 DEF CollectInv

LEMMA RequestKeeps ==
  ASSUME CollectInv, NEW q \in Requests, NEW kind \in Kinds, NEW new,
         Effect(kind, db, new), AloneKept(db, new), Request(q, kind, new), UNCHANGED <<feed, today>>
  PROVE  CollectInv' /\ BestKept(db, db')
<1>1. Sound(db) /\ db \in Databases /\ Change(db, new) /\ new \in Databases
  BY DEF CollectInv, Sound, Effect, Change
<1>2. CASE RunAlone(new)
  <2>1. db' = new /\ (\A r \in Requests : Idle(r)) /\ UNCHANGED <<sess, offer>>
    BY <1>2 DEF RunAlone
  <2>2. ASSUME NEW s \in Sources, new.src[s].cursor # db.src[s].cursor
        PROVE  PassedBy(StoredItems(new) \cup StoredItems(db), s, new.src[s].cursor)
    <3>1. PassedBy(StoredItems(new), s, new.src[s].cursor)
      BY <2>2 DEF Effect, RunOf, Reached
    <3> QED
      BY <3>1, PassedMore
  <2>3. ~Collides(db.art, db.art, new.art) /\ ~Collides(db.content, db.content, new.content)
    BY DEF Collides, Added
  <2>4. Committed(new, db, db, new)
    BY <1>1, <2>2, <2>3, OwnChange, GrownSelf DEF Committed, Advanced
  <2>5. Sound(new) /\ BestKept(db, new)
    BY <2>4, CommitKeeps
  <2> QED
    BY <2>1, <2>5, Replaced
<1>3. CASE ~Sequential /\ kind \notin Alone /\ Open(q, kind, new)
  <2> DEFINE k == [kind |-> kind, seen |-> db, new |-> new]
  <2>1. /\ sess' = [sess EXCEPT ![q] = k] /\ db' = db /\ offer' = offer
        /\ sess \in [Requests -> {NoRequest} \cup [kind: Kinds, seen: Databases, new: Databases]]
    BY <1>3 DEF Open, CollectInv, RequestsOK
  <2>2. /\ k \in [kind: Kinds, seen: Databases, new: Databases]
        /\ k.kind = kind /\ k.seen = db /\ k.new = new
    BY <1>1
  <2> HIDE DEF k
  <2>3. ASSUME NEW r \in Requests, ~Idle(r)'
        PROVE  /\ sess'[r].kind \notin Alone
               /\ Effect(sess'[r].kind, sess'[r].seen, sess'[r].new)
               /\ Grown(sess'[r].seen, db')
    <3>1. CASE r = q
      BY <1>3, <2>1, <2>2, <3>1, GrownSelf
    <3>2. CASE r # q
      <4>1. sess'[r] = sess[r] /\ ~Idle(r)
        BY <2>1, <2>3, <3>2 DEF Idle
      <4> QED
        BY <2>1, <4>1 DEF CollectInv, RequestsOK
    <3> QED
      BY <3>1, <3>2
  <2>4. sess' \in [Requests -> {NoRequest} \cup [kind: Kinds, seen: Databases, new: Databases]]
    BY <2>1, <2>2
  <2>5. ~Sequential'
    BY <1>3, <2>1 DEF Sequential
  <2>6. RequestsOK' /\ FeedOK' /\ AloneInv'
    BY <2>3, <2>4, <2>5 DEF RequestsOK, CollectInv, FeedOK, AloneInv
  <2> QED
    BY <1>1, <2>1, <2>6, SameBest DEF CollectInv
<1> QED
  BY <1>2, <1>3 DEF Request

\* Creating a source, confirming it and changing a rule overlap nothing.
LEMMA AloneKeeps ==
  ASSUME CollectInv, NEW q \in Requests, NEW kind \in {"create", "rule", "confirm"}, NEW new,
         Sound(new), AloneKept(db, new), new.content = db.content,
         Request(q, kind, new), UNCHANGED <<feed, today>>
  PROVE  CollectInv' /\ BestKept(db, db')
<1>1. kind \in Alone
  BY CollectAssumption
<1>2. db' = new /\ (\A r \in Requests : Idle(r)) /\ UNCHANGED <<sess, offer>>
  BY <1>1 DEF Request, RunAlone
<1> QED
  BY <1>2, Replaced, SameBest

-----------------------------------------------------------------------------
(* Requests on sources and rules *)

\* A row of a table is replaced.
LEMMA SourceRow ==
  ASSUME NEW d \in Databases, NEW s \in Sources, NEW row \in SrcRow
  PROVE  LET e == [d EXCEPT !.src[s] = row]
         IN  /\ e \in Databases /\ e.src = [d.src EXCEPT ![s] = row]
             /\ e.art = d.art /\ e.rule = d.rule /\ e.content = d.content
<1>1. d \in [src: {d.src}, art: {d.art}, rule: {d.rule}, content: {d.content}]
  BY DEF Databases
<1> QED
  BY <1>1 DEF Databases

LEMMA ArticleRow ==
  ASSUME NEW d \in Databases, NEW i \in Items, NEW row \in ArtRow
  PROVE  LET e == [d EXCEPT !.art[i] = row]
         IN  /\ e \in Databases /\ e.art = [d.art EXCEPT ![i] = row]
             /\ e.src = d.src /\ e.rule = d.rule /\ e.content = d.content
<1>1. d \in [src: {d.src}, art: {d.art}, rule: {d.rule}, content: {d.content}]
  BY DEF Databases
<1> QED
  BY <1>1 DEF Databases

LEMMA OneRule ==
  ASSUME NEW d \in Databases, NEW r \in Rules, NEW row \in RuleRow
  PROVE  LET e == [d EXCEPT !.rule[r] = row]
         IN  /\ e \in Databases /\ e.rule = [d.rule EXCEPT ![r] = row]
             /\ e.src = d.src /\ e.art = d.art /\ e.content = d.content
<1>1. d \in [src: {d.src}, art: {d.art}, rule: {d.rule}, content: {d.content}]
  BY DEF Databases
<1> QED
  BY <1>1 DEF Databases

\* What does not depend on overlaps for a change that makes nothing of an item
\* and stores none.
LEMMA AloneFrom ==
  ASSUME NEW old, NEW new, Circuit(old) => Circuit(new), new.content = old.content,
         \A i \in Items :
           /\ new.art[i].dup = old.art[i].dup
           /\ Present(new.art[i]) /\ ~new.art[i].deleted =>
                Present(old.art[i]) /\ ~old.art[i].deleted
  PROVE  AloneKept(old, new)
<1>1. Settled(old) => Settled(new)
  BY DEF Settled, Close
<1>2. Limited(old) => Limited(new)
  BY DEF Limited, OnItsDay
<1> QED
  BY <1>1, <1>2 DEF AloneKept

\* A source changes, but for its cursor.
LEMMA SourceKept ==
  ASSUME NEW d, NEW new, Sound(d), new \in Databases, new.art = d.art, new.rule = d.rule,
         new.content = d.content, \A s \in Sources : new.src[s].cursor = d.src[s].cursor
  PROVE  Sound(new)
<1>1. \A s \in Sources : Reached(new, s)
  BY DEF Sound, Reached, StoredItems
<1>2. \A i \in Items : Made(new, i) <=> Made(d, i)
  BY DEF Made
<1> QED
  BY <1>1, <1>2 DEF Sound

\* Status and count change together, and the cursor stays.
RowKept(old, row) ==
  /\ row \in SrcRow /\ row.cursor = old.cursor
  /\ row.status = "CIRCUIT_OPEN" => old.status = "CIRCUIT_OPEN" /\ row.fails = old.fails
  /\ row.status \in {"ABSENT", "ACTIVE"} =>
       \/ row.fails = 0
       \/ old.status \in {"ABSENT", "ACTIVE"} /\ row.fails = old.fails

\* The row of source s becomes row.
LEMMA SourceRequest ==
  ASSUME CollectInv, NEW s \in Sources, NEW row, RowKept(db.src[s], row)
  PROVE  LET new == [db EXCEPT !.src[s] = row]
         IN  /\ new \in Databases /\ new.src = [db.src EXCEPT ![s] = row]
             /\ new.art = db.art /\ new.rule = db.rule /\ new.content = db.content
             /\ Sound(new) /\ AloneKept(db, new)
<1> DEFINE new == [db EXCEPT !.src[s] = row]
<1>0. row \in SrcRow /\ row.cursor = db.src[s].cursor
  BY DEF RowKept
<1>1. Sound(db) /\ db \in Databases /\ db.src \in [Sources -> SrcRow]
  BY DEF CollectInv, Sound, Databases
<1>2. /\ new \in Databases /\ new.src = [db.src EXCEPT ![s] = row]
      /\ new.art = db.art /\ new.rule = db.rule /\ new.content = db.content
  BY <1>0, <1>1, SourceRow
<1> HIDE DEF new
<1>3. /\ new.src[s] = row
      /\ \A o \in Sources \ {s} : new.src[o] = db.src[o]
  BY <1>1, <1>2
<1>4. Sound(new)
  <2>1. \A o \in Sources : new.src[o].cursor = db.src[o].cursor
    BY <1>0, <1>3
  <2> QED
    BY <1>1, <1>2, <2>1, SourceKept
<1>5. ASSUME Circuit(db), NEW o \in Sources
      PROVE  /\ new.src[o].status = "CIRCUIT_OPEN" => new.src[o].fails >= CircuitThreshold
             /\ new.src[o].status \in {"ABSENT", "ACTIVE"} =>
                  new.src[o].fails < CircuitThreshold
  <2>1. CASE o = s
    <3>1. db.src[s].fails \in Nat /\ row.fails \in Nat
      BY <1>0, <1>1 DEF SrcRow
    <3>2. CircuitThreshold \in Nat /\ CircuitThreshold > 0
      BY CollectAssumption
    <3>3. row.status = "CIRCUIT_OPEN" => row.fails >= CircuitThreshold
      BY <1>5, <3>1, <3>2 DEF Circuit, RowKept
    <3>4. row.status \in {"ABSENT", "ACTIVE"} => row.fails < CircuitThreshold
      BY <1>5, <3>1, <3>2 DEF Circuit, RowKept
    <3> QED
      BY <1>3, <2>1, <3>3, <3>4
  <2>2. CASE o # s
    BY <1>3, <1>5, <2>2 DEF Circuit
  <2> QED
    BY <2>1, <2>2
<1>6. Circuit(db) => Circuit(new)
  BY <1>5 DEF Circuit
<1>7. AloneKept(db, new)
  BY <1>2, <1>6, AloneFrom
<1> QED
  BY <1>2, <1>4, <1>7 DEF new

LEMMA CreateSourceStep ==
  ASSUME CollectInv, NEW q \in Requests, NEW s \in Sources, CreateSource(s, q), UNCHANGED <<feed, today>>
  PROVE  CollectInv' /\ BestKept(db, db')
<1>1. PICK confirmed \in BOOLEAN :
        Request(q, "create", [db EXCEPT !.src[s].status = "ACTIVE",
                                        !.src[s].confirmed = confirmed])
  BY DEF CreateSource
<1> DEFINE row == [db.src[s] EXCEPT !.status = "ACTIVE", !.confirmed = confirmed]
           new == [db EXCEPT !.src[s] = row]
<1>2. db \in Databases /\ db.src \in [Sources -> SrcRow] /\ db.src[s] \in SrcRow
  BY DEF CollectInv, Sound, Databases
<1>3. [db EXCEPT !.src[s].status = "ACTIVE", !.src[s].confirmed = confirmed] = new
  BY <1>2 DEF Databases, SrcRow
<1>4. RowKept(db.src[s], row)
  BY <1>2 DEF RowKept, SrcRow, CreateSource, Present
<1> HIDE DEF row
<1>5. Sound(new) /\ AloneKept(db, new) /\ new.content = db.content
  BY <1>4, SourceRequest
<1> HIDE DEF new
<1> QED
  BY <1>1, <1>3, <1>5, AloneKeeps

LEMMA ConfirmStep ==
  ASSUME CollectInv, NEW q \in Requests, NEW s \in Sources, Confirm(s, q), UNCHANGED <<feed, today>>
  PROVE  CollectInv' /\ BestKept(db, db')
<1> DEFINE row == [db.src[s] EXCEPT !.confirmed = ~@]
           new == [db EXCEPT !.src[s] = row]
<1>1. Request(q, "confirm", [db EXCEPT !.src[s].confirmed = ~@])
  BY DEF Confirm
<1>2. db \in Databases /\ db.src \in [Sources -> SrcRow] /\ db.src[s] \in SrcRow
  BY DEF CollectInv, Sound, Databases
<1>3. [db EXCEPT !.src[s].confirmed = ~@] = new
  BY <1>2 DEF Databases, SrcRow
<1>4. RowKept(db.src[s], row)
  BY <1>2 DEF RowKept, SrcRow
<1> HIDE DEF row
<1>5. Sound(new) /\ AloneKept(db, new) /\ new.content = db.content
  BY <1>4, SourceRequest
<1> HIDE DEF new
<1> QED
  BY <1>1, <1>3, <1>5, AloneKeeps

\* A source changes with its confirmation as it was.
LEMMA SourceStep ==
  ASSUME CollectInv, NEW q \in Requests, NEW s \in Sources, NEW row,
         RowKept(db.src[s], row), row.confirmed = db.src[s].confirmed,
         Request(q, "source", [db EXCEPT !.src[s] = row]), UNCHANGED <<feed, today>>
  PROVE  CollectInv' /\ BestKept(db, db')
<1> DEFINE new == [db EXCEPT !.src[s] = row]
<1>1. Sound(db) /\ db \in Databases /\ db.src \in [Sources -> SrcRow]
  BY DEF CollectInv, Sound, Databases
<1>2. /\ new \in Databases /\ new.src = [db.src EXCEPT ![s] = row]
      /\ new.art = db.art /\ new.rule = db.rule /\ new.content = db.content
      /\ AloneKept(db, new)
  BY SourceRequest
<1>3. Request(q, "source", new)
  OBVIOUS
<1> HIDE DEF new
<1>4. \A o \in Sources : /\ new.src[o].cursor = db.src[o].cursor
                         /\ new.src[o].confirmed = db.src[o].confirmed
  BY <1>1, <1>2 DEF RowKept
<1>5. \A i \in Items : LeavesItem(db, new, i)
  BY <1>2 DEF LeavesItem, SameContent
<1>6. Effect("source", db, new)
  BY <1>1, <1>2, <1>4, <1>5 DEF Effect, Change
<1>7. "source" \in Kinds
  BY DEF Kinds
<1> QED
  BY <1>2, <1>3, <1>6, <1>7, RequestKeeps

LEMMA SetEnabledStep ==
  ASSUME CollectInv, NEW q \in Requests, NEW s \in Sources, SetEnabled(s, q), UNCHANGED <<feed, today>>
  PROVE  CollectInv' /\ BestKept(db, db')
<1>1. db \in Databases /\ db.src \in [Sources -> SrcRow] /\ db.src[s] \in SrcRow
  BY DEF CollectInv, Sound, Databases
<1>2. CASE Request(q, "source", [db EXCEPT !.src[s].status = "ACTIVE", !.src[s].fails = 0])
  <2> DEFINE row == [db.src[s] EXCEPT !.status = "ACTIVE", !.fails = 0]
  <2>1. [db EXCEPT !.src[s].status = "ACTIVE", !.src[s].fails = 0] = [db EXCEPT !.src[s] = row]
    BY <1>1 DEF Databases, SrcRow
  <2>2. 0 \in 0..MaxFails
    BY CollectAssumption
  <2>3. RowKept(db.src[s], row) /\ row.confirmed = db.src[s].confirmed
    <3>1. /\ row.status = "ACTIVE" /\ row.fails = 0 /\ row \in SrcRow
          /\ row.cursor = db.src[s].cursor /\ row.confirmed = db.src[s].confirmed
      BY <1>1, <2>2 DEF SrcRow
    <3> HIDE DEF row
    <3> QED
      BY <3>1 DEF RowKept
  <2> HIDE DEF row
  <2> QED
    BY <1>2, <2>1, <2>3, SourceStep
<1>3. CASE Request(q, "source", [db EXCEPT !.src[s].status = "PAUSED"])
  <2> DEFINE row == [db.src[s] EXCEPT !.status = "PAUSED"]
  <2>1. [db EXCEPT !.src[s].status = "PAUSED"] = [db EXCEPT !.src[s] = row]
    BY <1>1 DEF Databases, SrcRow
  <2>2. RowKept(db.src[s], row) /\ row.confirmed = db.src[s].confirmed
    BY <1>1 DEF RowKept, SrcRow
  <2> HIDE DEF row
  <2> QED
    BY <1>3, <2>1, <2>2, SourceStep
<1> QED
  BY <1>2, <1>3 DEF SetEnabled

LEMMA DeleteSourceStep ==
  ASSUME CollectInv, NEW q \in Requests, NEW s \in Sources, DeleteSource(s, q), UNCHANGED <<feed, today>>
  PROVE  CollectInv' /\ BestKept(db, db')
<1> DEFINE row == [db.src[s] EXCEPT !.deleted = TRUE]
<1>1. db \in Databases /\ db.src \in [Sources -> SrcRow] /\ db.src[s] \in SrcRow
  BY DEF CollectInv, Sound, Databases
<1>2. [db EXCEPT !.src[s].deleted = TRUE] = [db EXCEPT !.src[s] = row]
  BY <1>1 DEF Databases, SrcRow
<1>3. RowKept(db.src[s], row) /\ row.confirmed = db.src[s].confirmed
  BY <1>1 DEF RowKept, SrcRow
<1>4. Request(q, "source", [db EXCEPT !.src[s] = row])
  BY <1>2 DEF DeleteSource
<1> HIDE DEF row
<1> QED
  BY <1>3, <1>4, SourceStep

LEMMA RuleStep ==
  ASSUME CollectInv, NEW q \in Requests, NEW r \in Rules, NEW row \in RuleRow, RuleOK(row),
         Request(q, "rule", [db EXCEPT !.rule[r] = row]), UNCHANGED <<feed, today>>
  PROVE  CollectInv' /\ BestKept(db, db')
<1> DEFINE new == [db EXCEPT !.rule[r] = row]
<1>1. Sound(db) /\ db \in Databases /\ db.rule \in [Rules -> RuleRow]
  BY DEF CollectInv, Sound, Databases
<1>2. /\ new \in Databases /\ new.rule = [db.rule EXCEPT ![r] = row]
      /\ new.src = db.src /\ new.art = db.art /\ new.content = db.content
  BY <1>1, OneRule
<1>3. Request(q, "rule", new)
  OBVIOUS
<1> HIDE DEF new
<1>4. \A o \in Rules : RuleOK(new.rule[o])
  BY <1>1, <1>2 DEF Sound
<1>5. Sound(new)
  <2>1. \A s \in Sources : Reached(new, s)
    BY <1>1, <1>2 DEF Sound, Reached, StoredItems
  <2>2. \A i \in Items : Made(new, i) <=> Made(db, i)
    BY <1>2 DEF Made
  <2> QED
    BY <1>1, <1>2, <1>4, <2>1, <2>2 DEF Sound
<1>6. AloneKept(db, new)
  <2>1. Circuit(db) => Circuit(new)
    BY <1>2 DEF Circuit
  <2> QED
    BY <1>2, <2>1, AloneFrom
<1> QED
  BY <1>2, <1>3, <1>5, <1>6, AloneKeeps

LEMMA SaveRuleStep ==
  ASSUME CollectInv, NEW q \in Requests, NEW r \in Rules, SaveRule(r, q), UNCHANGED <<feed, today>>
  PROVE  CollectInv' /\ BestKept(db, db')
<1>1. PICK f \in RuleForms, status \in {"ENABLED", "DISABLED"} :
        Request(q, "rule",
          [db EXCEPT !.rule[r] = [status |-> status, target |-> f.target,
             priority |-> f.priority, sources |-> f.sources, limit |-> f.limit,
             window |-> f.window, overflow |-> f.overflow]])
  BY DEF SaveRule
<1> DEFINE row == [status |-> status, target |-> f.target,
             priority |-> f.priority, sources |-> f.sources, limit |-> f.limit,
             window |-> f.window, overflow |-> f.overflow]
<1>2. row \in RuleRow /\ RuleOK(row)
  BY CollectAssumption DEF RuleRow, RuleOK, Targets
<1> HIDE DEF row
<1> QED
  BY <1>1, <1>2, RuleStep DEF row

LEMMA SetRuleStatusStep ==
  ASSUME CollectInv, NEW q \in Requests, NEW r \in Rules, SetRuleStatus(r, q), UNCHANGED <<feed, today>>
  PROVE  CollectInv' /\ BestKept(db, db')
<1>1. PICK status \in {"ENABLED", "DISABLED"} :
        Request(q, "rule", [db EXCEPT !.rule[r].status = status])
  BY DEF SetRuleStatus
<1> DEFINE row == [db.rule[r] EXCEPT !.status = status]
<1>2. db \in Databases /\ db.rule \in [Rules -> RuleRow] /\ db.rule[r] \in RuleRow
  BY DEF CollectInv, Sound, Databases
<1>3. [db EXCEPT !.rule[r].status = status] = [db EXCEPT !.rule[r] = row]
  BY <1>2 DEF Databases, RuleRow
<1>4. Present(db.rule[r]) /\ RuleOK(db.rule[r])
  BY DEF SetRuleStatus, InForce, Present, CollectInv, Sound
<1>5. row \in RuleRow /\ RuleOK(row)
  BY <1>2, <1>4 DEF RuleRow, RuleOK, Present
<1> HIDE DEF row
<1> QED
  BY <1>1, <1>3, <1>5, RuleStep

LEMMA DeleteRuleStep ==
  ASSUME CollectInv, NEW q \in Requests, NEW r \in Rules, DeleteRule(r, q), UNCHANGED <<feed, today>>
  PROVE  CollectInv' /\ BestKept(db, db')
<1> DEFINE row == [db.rule[r] EXCEPT !.status = "DELETED", !.sources = {}]
<1>1. db \in Databases /\ db.rule \in [Rules -> RuleRow] /\ db.rule[r] \in RuleRow
  BY DEF CollectInv, Sound, Databases
<1>2. [db EXCEPT !.rule[r].status = "DELETED", !.rule[r].sources = {}]
        = [db EXCEPT !.rule[r] = row]
  BY <1>1 DEF Databases, RuleRow
<1>3. Present(db.rule[r]) /\ RuleOK(db.rule[r])
  BY DEF DeleteRule, InForce, Present, CollectInv, Sound
<1>4. row \in RuleRow /\ RuleOK(row)
  BY <1>1, <1>3 DEF RuleRow, RuleOK, Present
<1>5. Request(q, "rule", [db EXCEPT !.rule[r] = row])
  BY <1>2 DEF DeleteRule
<1> HIDE DEF row
<1> QED
  BY <1>4, <1>5, RuleStep

-----------------------------------------------------------------------------
(* Requests on articles, and runs *)

\* Items are stored or deleted, and nothing else changes.
LEMMA ItemRequest ==
  ASSUME CollectInv, NEW q \in Requests, NEW kind \in Kinds \ {"run"}, NEW new,
         new \in Databases, new.src = db.src, new.rule = db.rule, new.content = db.content,
         \A i \in Items : LeavesItem(db, new, i),
         AloneKept(db, new), Request(q, kind, new), UNCHANGED <<feed, today>>
  PROVE  CollectInv' /\ BestKept(db, db')
<1>1. Sound(db)
  BY DEF CollectInv
<1>2. Change(db, new)
  BY <1>1 DEF Change
<1>3. Effect(kind, db, new)
  BY <1>2 DEF Effect
<1> QED
  BY <1>3, RequestKeeps

LEMMA DeleteArticleStep ==
  ASSUME CollectInv, NEW q \in Requests, NEW i \in Items, DeleteArticle(i, q), UNCHANGED <<feed, today>>
  PROVE  CollectInv' /\ BestKept(db, db')
<1> DEFINE row == [db.art[i] EXCEPT !.deleted = TRUE]
           new == [db EXCEPT !.art[i] = row]
<1>1. db \in Databases /\ db.art \in [Items -> ArtRow] /\ db.art[i] \in ArtRow
  BY DEF CollectInv, Sound, Databases
<1>2. [db EXCEPT !.art[i].deleted = TRUE] = new
  BY <1>1 DEF Databases, ArtRow
<1>3. row \in ArtRow /\ row.dup = db.art[i].dup /\ row.deleted = TRUE
  BY <1>1 DEF ArtRow
<1>4. Present(db.art[i])
  BY DEF DeleteArticle, Present
<1>5. Request(q, "article", new)
  BY <1>2 DEF DeleteArticle
<1>6. /\ new \in Databases /\ new.art = [db.art EXCEPT ![i] = row]
      /\ new.src = db.src /\ new.rule = db.rule /\ new.content = db.content
  BY <1>1, <1>3, ArticleRow
<1> HIDE DEF new
<1>7. new.art[i] = row /\ \A j \in Items \ {i} : new.art[j] = db.art[j]
  BY <1>1, <1>6
<1>8. \A j \in Items : LeavesItem(db, new, j)
  BY <1>4, <1>6, <1>7 DEF LeavesItem, SameContent
<1>9. AloneKept(db, new)
  <2>1. Circuit(db) => Circuit(new)
    BY <1>6 DEF Circuit
  <2>2. ASSUME NEW j \in Items
        PROVE  /\ new.art[j].dup = db.art[j].dup
               /\ Present(new.art[j]) /\ ~new.art[j].deleted =>
                    Present(db.art[j]) /\ ~db.art[j].deleted
    BY <1>3, <1>7
  <2> QED
    BY <1>6, <2>1, <2>2, AloneFrom
<1>10. "article" \in Kinds \ {"run"}
  BY DEF Kinds
<1> QED
  BY <1>5, <1>6, <1>8, <1>9, <1>10, ItemRequest

LEMMA ManualImportStep ==
  ASSUME CollectInv, NEW q \in Requests, NEW s \in Sources, ManualImport(s, q), UNCHANGED <<feed, today>>
  PROVE  CollectInv' /\ BestKept(db, db')
<1>1. PICK i \in Items : ~Present(db.art[i]) /\ Request(q, "import", Stored(db, s, i, i \in Original))
  BY DEF ManualImport
<1> DEFINE original == i \in Original
           new == Stored(db, s, i, original)
<1>2. db \in Databases /\ original \in BOOLEAN
  BY DEF CollectInv, Sound
<1>9. Request(q, "import", new)
  BY <1>1
<1> HIDE DEF original
<1>3. /\ new \in Databases
      /\ new.src = db.src /\ new.rule = db.rule /\ new.content = db.content
      /\ Fresh(new.art[i], s) /\ \A j \in Items \ {i} : new.art[j] = db.art[j]
  BY <1>1, <1>2, StoredIs
<1>4. HammingThreshold < 4 /\ Settled(db) => Settled(new)
  BY <1>1, <1>2, StoredSettles
<1> HIDE DEF new
<1>5. \A j \in Items : LeavesItem(db, new, j)
  BY <1>1, <1>3 DEF LeavesItem, SameContent
<1>6. AloneKept(db, new)
  BY <1>3, <1>4 DEF AloneKept, Circuit, Limited, OnItsDay
<1>7. "import" \in Kinds \ {"run"}
  BY DEF Kinds
<1> QED
  BY <1>3, <1>5, <1>6, <1>7, <1>9, ItemRequest

\* A run of source s stores items of its feed and leaves row as the source.
LEMMA RunStep ==
  ASSUME CollectInv, NEW q \in Requests, NEW s \in Sources, NEW items \in Seq(Items),
         NEW wanted \in SUBSET Items, ItemsOf(items) \subseteq ItemsOf(Feed[s]),
         NEW row \in SrcRow, row.confirmed = db.src[s].confirmed,
         \/ row.cursor = db.src[s].cursor
         \/ PassedBy(StoredItems(db) \cup (wanted \cap ItemsOf(items)), s, row.cursor),
         Circuit(db) =>
           /\ row.status = "CIRCUIT_OPEN" => row.fails >= CircuitThreshold
           /\ row.status \in {"ABSENT", "ACTIVE"} => row.fails < CircuitThreshold,
         Request(q, "run", [Ingested(db, s, items, wanted) EXCEPT !.src[s] = row]),
         UNCHANGED <<feed, today>>
  PROVE  CollectInv' /\ BestKept(db, db')
<1> DEFINE got == wanted \cap ItemsOf(items)
           e == Ingested(db, s, items, wanted)
           new == [e EXCEPT !.src[s] = row]
<1>1. Sound(db) /\ db \in Databases /\ db.src \in [Sources -> SrcRow]
  BY DEF CollectInv, Sound, Databases
<1>2. Stocked(db, e, s, got)
  BY <1>1, IngestedIs
<1>3. Request(q, "run", new)
  OBVIOUS
<1> HIDE DEF e
<1>4. /\ new \in Databases /\ new.src = [db.src EXCEPT ![s] = row]
      /\ new.art = e.art /\ new.rule = db.rule /\ new.content = db.content
  BY <1>2, SourceRow DEF Stocked
<1> HIDE DEF new
<1>5. new.src[s] = row /\ \A o \in Sources \ {s} : new.src[o] = db.src[o]
  BY <1>1, <1>4
<1>6. ASSUME NEW i \in Items
      PROVE  IF Present(db.art[i]) \/ i \notin got THEN new.art[i] = db.art[i]
             ELSE Fresh(new.art[i], s)
  BY <1>2, <1>4 DEF Stocked
<1>7. ASSUME NEW i \in Items, Present(db.art[i]) \/ i \in got
      PROVE  Present(new.art[i])
  BY <1>6, <1>7 DEF Fresh, CollectedAs, Present
<1>8. \A i \in Items : LeavesItem(db, new, i)
  BY <1>4, <1>6 DEF LeavesItem, SameContent
<1>9. Change(db, new)
  <2>1. \A o \in Sources : new.src[o].confirmed = db.src[o].confirmed
    BY <1>5
  <2> QED
    BY <1>1, <1>4, <1>8, <2>1 DEF Change
<1>10. row.cursor # db.src[s].cursor => Reached(new, s)
  <2>1. SUFFICES ASSUME row.cursor # db.src[s].cursor
                 PROVE  PassedBy(StoredItems(new), s, row.cursor)
    BY <1>5 DEF Reached
  <2>2. StoredItems(db) \cup got \subseteq StoredItems(new)
    BY <1>7 DEF StoredItems
  <2> QED
    BY <2>1, <2>2, PassedMore
<1>11. RunOf(s, db, new)
  <2>1. ASSUME NEW i \in Items
        PROVE  \/ new.art[i] = db.art[i]
               \/ /\ ~Present(db.art[i]) /\ Fresh(new.art[i], s)
                  /\ \E n \in 1..Len(Feed[s]) : Feed[s][n] = i
    BY <1>6 DEF ItemsOf
  <2>2. ASSUME NEW o \in Sources
        PROVE  new.src[o].cursor = db.src[o].cursor \/ Reached(new, o)
    BY <1>5, <1>10
  <2> QED
    BY <1>4, <2>1, <2>2 DEF RunOf
<1>12. Effect("run", db, new)
  BY <1>9, <1>11 DEF Effect
<1>13. AloneKept(db, new)
  <2>1. Circuit(db) => Circuit(new)
    BY <1>5 DEF Circuit
  <2>2. Limited(db) => Limited(new)
    BY <1>4 DEF Limited, OnItsDay
  <2>3. HammingThreshold < 4 /\ Settled(db) => Settled(new)
    BY <1>2, <1>4 DEF Stocked, Settled, Close
  <2> QED
    BY <2>1, <2>2, <2>3 DEF AloneKept
<1>14. "run" \in Kinds
  BY DEF Kinds
<1> QED
  BY <1>3, <1>12, <1>13, <1>14, RequestKeeps

\* A part of the feed, from its first item.
LEMMA PrefixIs ==
  ASSUME NEW s \in Sources, NEW n \in 0..Len(Feed[s])
  PROVE  LET items == SubSeq(Feed[s], 1, n)
         IN  /\ items \in Seq(Items) /\ ItemsOf(items) \subseteq ItemsOf(Feed[s])
             /\ \A k \in 1..n : Feed[s][k] \in ItemsOf(items)
<1> DEFINE items == SubSeq(Feed[s], 1, n)
<1>1. Feed[s] \in Seq(Items) /\ Len(Feed[s]) \in Nat
  BY CollectAssumption
<1>2. /\ items \in Seq(Items) /\ Len(items) = n
      /\ \A k \in 1..n : items[k] = Feed[s][k]
  BY <1>1
<1> HIDE DEF items
<1>3. 1..n \subseteq 1..Len(Feed[s])
  BY <1>1
<1> QED
  BY <1>2, <1>3 DEF items, ItemsOf

LEMMA MaxIn ==
  ASSUME NEW S \in SUBSET Nat, S # {}, IsFiniteSet(S)
  PROVE  Max(S) \in S /\ \A y \in S : y <= Max(S)
<1> DEFINE Above(x) == {y \in S : y > x}
           Counts == {Cardinality(Above(x)) : x \in S}
<1>1. \A x \in S : IsFiniteSet(Above(x)) /\ Cardinality(Above(x)) \in Nat
  BY FS_Subset, FS_CardinalityType
<1>2. PICK x \in S : \A y \in S : Cardinality(Above(x)) <= Cardinality(Above(y))
  <2>1. Counts \in SUBSET Nat /\ Counts # {}
    BY <1>1
  <2>2. PICK n \in Counts : \A m \in Counts : n <= m
    BY <2>1, LeastIn
  <2> QED
    BY <2>2
<1>3. ASSUME NEW y \in S, y > x
      PROVE  FALSE
  <2>1. S \subseteq Nat /\ x \in Nat /\ y \in Nat
    OBVIOUS
  <2>2. Above(y) \in SUBSET Above(x)
    <3>1. ASSUME NEW z \in S, z > y
          PROVE  z > x
      BY <1>3, <2>1, <3>1
    <3> QED
      BY <3>1
  <2>3. y \in Above(x) /\ y \notin Above(y)
    BY <1>3
  <2>4. Cardinality(Above(y)) <= Cardinality(Above(x))
        /\ (Cardinality(Above(x)) = Cardinality(Above(y)) => Above(x) = Above(y))
    BY <1>1, <2>2, FS_Subset
  <2>5. Cardinality(Above(x)) = Cardinality(Above(y))
    BY <1>1, <1>2, <2>4
  <2> QED
    BY <2>3, <2>4, <2>5
<1>4. x \in S /\ \A y \in S : x >= y
  BY <1>3
<1>5. Max(S) \in S /\ \A y \in S : Max(S) >= y
  BY <1>4 DEF Max
<1> QED
  BY <1>5

\* A run takes the cursor no further than to the latest date it stores.
LEMMA NewCursorIs ==
  ASSUME CollectInv, NEW s \in Sources
  PROVE  LET got == NewItems(s) \cap ItemsOf(Offered(s))
         IN  /\ NewCursor(s) \in Dates
             /\ \/ NewCursor(s) = db.src[s].cursor
                \/ PassedBy(StoredItems(db) \cup got, s, NewCursor(s))
<1> DEFINE new == NewItems(s)
           got == new \cap ItemsOf(Offered(s))
           c == db.src[s].cursor
           stamp == [i \in new |-> Stamp[i]]
           C == {c} \cup {stamp[i] : i \in new}
<1>1. /\ Reached(db, s) /\ c \in Dates /\ Dates \subseteq Nat
      /\ Len(Feed[s]) \in Nat /\ feed[s] \in 0..Len(Feed[s])
  <2>1. db.src \in [Sources -> SrcRow] /\ Reached(db, s)
    BY DEF CollectInv, Sound, Databases
  <2> QED
    BY <2>1, CollectAssumption DEF SrcRow, CollectInv, FeedOK, Dates
<1>2. /\ new \subseteq Items /\ \A i \in new : \E n \in 1..feed[s] : Feed[s][n] = i
      /\ \A n \in 1..feed[s] : Feed[s][n] \in Items /\ Stamp[Feed[s][n]] > c => Feed[s][n] \in new
  BY DEF NewItems
<1>3. NewCursor(s) = Max(C)
  BY DEF NewCursor
<1> HIDE DEF new
<1>4. IsFiniteSet(C)
  <2>1. IsFiniteSet(new)
    BY <1>2, CollectAssumption, FS_Subset
  <2>2. stamp \in Surjection(new, {stamp[i] : i \in new})
    BY DEF Surjection
  <2>3. IsFiniteSet({stamp[i] : i \in new})
    BY <2>1, <2>2, FS_Surjection
  <2> HIDE DEF stamp
  <2> QED
    BY <2>3, FS_Singleton, FS_Union
<1>5. C \in SUBSET Nat /\ C \subseteq Dates
  BY <1>1, <1>2, CollectAssumption DEF Dates
<1>6. Max(C) \in C /\ c <= Max(C)
  BY <1>4, <1>5, MaxIn
<1>7. ASSUME Max(C) # c
      PROVE  PassedBy(StoredItems(db) \cup got, s, Max(C))
  <2>1. PICK i0 \in new : Max(C) = Stamp[i0]
    BY <1>6, <1>7
  <2>2. PICK k \in 1..feed[s] : Feed[s][k] = i0
    BY <1>2
  <2>3. \A n \in 1..feed[s] : Feed[s][n] \in ItemsOf(Offered(s))
    BY <1>1, PrefixIs DEF Offered
  <2>4. c \in Nat /\ Max(C) \in Nat
    BY <1>1, <1>5, <1>6
  <2> HIDE DEF C, c
  <2>5. SUFFICES ASSUME NEW n \in 1..Len(Feed[s]),
                        Feed[s][n] \notin StoredItems(db) \cup got,
                        0 < Stamp[Feed[s][n]], Stamp[Feed[s][n]] <= Max(C)
                 PROVE  \E m \in 1..(n - 1) : /\ Feed[s][m] \in StoredItems(db) \cup got
                                             /\ Stamp[Feed[s][m]] >= Stamp[Feed[s][n]]
    BY DEF PassedBy
  <2>6. Feed[s][n] \in Items /\ Stamp[Feed[s][n]] \in Nat
    BY CollectAssumption
  <2>7. CASE Stamp[Feed[s][n]] <= c
    BY <1>1, <2>5, <2>7 DEF Reached, PassedBy, c
  <2>8. CASE Stamp[Feed[s][n]] > c
    <3>1. n \notin 1..feed[s]
      BY <1>2, <2>3, <2>5, <2>6, <2>8 DEF c
    <3>2. k \in 1..(n - 1)
      BY <1>1, <3>1
    <3>3. Feed[s][k] \in got
      BY <2>2, <2>3
    <3> QED
      BY <2>1, <2>2, <2>5, <3>2, <3>3
  <2> QED
    BY <2>4, <2>6, <2>7, <2>8
<1> QED
  BY <1>3, <1>5, <1>6, <1>7 DEF new

LEMMA SucceededStep ==
  ASSUME CollectInv, NEW q \in Requests, NEW s \in Sources,
         Request(q, "run",
                 Succeeded(Ingested(db, s, Offered(s), NewItems(s)), s, NewCursor(s))),
         UNCHANGED <<feed, today>>
  PROVE  CollectInv' /\ BestKept(db, db')
<1> DEFINE items == Offered(s)
           wanted == NewItems(s)
           c == NewCursor(s)
           e == Ingested(db, s, items, wanted)
           row == [db.src[s] EXCEPT !.cursor = c, !.fails = 0,
                                    !.status = Recovered(db.src[s].status)]
<1>1. /\ items \in Seq(Items) /\ ItemsOf(items) \subseteq ItemsOf(Feed[s])
      /\ wanted \subseteq Items
  <2>1. feed[s] \in 0..Len(Feed[s])
    BY CollectAssumption DEF CollectInv, FeedOK
  <2> QED
    BY <2>1, PrefixIs DEF Offered, NewItems
<1>2. /\ c \in Dates
      /\ c = db.src[s].cursor \/ PassedBy(StoredItems(db) \cup (wanted \cap ItemsOf(items)), s, c)
  BY NewCursorIs
<1> HIDE DEF items, wanted, c
<1>3. /\ db \in Databases /\ db.src \in [Sources -> SrcRow] /\ db.src[s] \in SrcRow
  BY DEF CollectInv, Sound, Databases
<1>4. e \in Databases /\ e.src = db.src
  BY <1>1, <1>3, IngestedIs DEF Stocked
<1> HIDE DEF e
<1>5. Succeeded(e, s, c) = [e EXCEPT !.src[s] = row]
  BY <1>3, <1>4 DEF Succeeded, Databases, SrcRow
<1>6. /\ row \in SrcRow /\ row.fails = 0 /\ row.cursor = c
      /\ row.confirmed = db.src[s].confirmed /\ row.status # "CIRCUIT_OPEN"
  <2>1. 0 \in 0..MaxFails
    BY CollectAssumption
  <2> QED
    BY <1>2, <1>3, <2>1 DEF SrcRow, Recovered
<1> HIDE DEF row
<1>7. CircuitThreshold > 0
  BY CollectAssumption
<1>8. Request(q, "run", [e EXCEPT !.src[s] = row])
  BY <1>5 DEF e, items, wanted, c
<1> QED
  BY <1>1, <1>2, <1>6, <1>7, <1>8, RunStep DEF e

LEMMA FailedStep ==
  ASSUME CollectInv, NEW q \in Requests, NEW s \in Sources, NEW n \in 0..feed[s],
         db.src[s].fails < MaxFails,
         Request(q, "run",
           Failed(Ingested(db, s, SubSeq(Feed[s], 1, n), NewItems(s)), s, NewCursor(s))),
         UNCHANGED <<feed, today>>
  PROVE  CollectInv' /\ BestKept(db, db')
<1> DEFINE items == SubSeq(Feed[s], 1, n)
           wanted == NewItems(s)
           e == Ingested(db, s, items, wanted)
           count == db.src[s].fails + 1
           row == [db.src[s] EXCEPT !.fails = count,
                     !.status = IF count >= CircuitThreshold THEN "CIRCUIT_OPEN"
                                ELSE db.src[s].status]
<1>1. /\ items \in Seq(Items) /\ ItemsOf(items) \subseteq ItemsOf(Feed[s])
      /\ wanted \subseteq Items
  <2>1. n \in 0..Len(Feed[s])
    BY CollectAssumption DEF CollectInv, FeedOK
  <2> QED
    BY <2>1, PrefixIs DEF NewItems
<1> HIDE DEF items, wanted
<1>2. /\ db \in Databases /\ db.src \in [Sources -> SrcRow] /\ db.src[s] \in SrcRow
  BY DEF CollectInv, Sound, Databases
<1>3. e \in Databases /\ e.src = db.src
  BY <1>1, <1>2, IngestedIs DEF Stocked
<1> HIDE DEF e
<1>4. Failed(e, s, NewCursor(s)) = [e EXCEPT !.src[s] = row]
  BY <1>2, <1>3 DEF Failed, Databases, SrcRow
<1>5. /\ db.src[s].fails \in Nat /\ count \in 0..MaxFails
      /\ CircuitThreshold \in Nat
  BY <1>2, CollectAssumption DEF SrcRow
<1>6. /\ row \in SrcRow /\ row.fails = count /\ row.cursor = db.src[s].cursor
      /\ row.confirmed = db.src[s].confirmed
      /\ row.status = IF count >= CircuitThreshold THEN "CIRCUIT_OPEN" ELSE db.src[s].status
  BY <1>2, <1>5 DEF SrcRow
<1> HIDE DEF row
<1>7. ASSUME Circuit(db)
      PROVE  /\ row.status = "CIRCUIT_OPEN" => row.fails >= CircuitThreshold
             /\ row.status \in {"ABSENT", "ACTIVE"} => row.fails < CircuitThreshold
  BY <1>5, <1>6, <1>7 DEF Circuit
<1>8. Request(q, "run", [e EXCEPT !.src[s] = row])
  BY <1>4 DEF e, items, wanted
<1> QED
  BY <1>1, <1>6, <1>7, <1>8, RunStep DEF e

LEMMA RunNowStep ==
  ASSUME CollectInv, NEW q \in Requests, NEW s \in Sources, RunNow(s, q), UNCHANGED <<feed, today>>
  PROVE  CollectInv' /\ BestKept(db, db')
  BY SucceededStep, FailedStep DEF RunNow

-----------------------------------------------------------------------------
(* Mapping *)

\* Rules by priority, the oldest of equals first: a total order.
LEMMA FirstRule ==
  ASSUME NEW d \in Databases, NEW C \in SUBSET Rules, C # {}
  PROVE  \E r \in C : \A p \in C \ {r} : Before(d, r, p)
<1> DEFINE Ahead(r) == {p \in C : Before(d, p, r)}
           Counts == {Cardinality(Ahead(r)) : r \in C}
<1>1. \A r \in Rules : r \in Nat /\ d.rule[r].priority \in Int
  BY CollectAssumption DEF Rules, Databases, RuleRow
<1>2. IsFiniteSet(C)
  <2>1. MaxRules \in Int /\ 1 \in Int
    BY CollectAssumption
  <2>2. IsFiniteSet(Rules)
    BY <2>1, FS_Interval DEF Rules
  <2> QED
    BY <2>2, FS_Subset
<1>3. \A r \in C : IsFiniteSet(Ahead(r)) /\ Cardinality(Ahead(r)) \in Nat
  BY <1>2, FS_Subset, FS_CardinalityType
<1>4. PICK r \in C : \A p \in C : Cardinality(Ahead(r)) <= Cardinality(Ahead(p))
  <2>1. Counts \in SUBSET Nat /\ Counts # {}
    BY <1>3
  <2> HIDE DEF Ahead
  <2>2. PICK n \in Counts : \A m \in Counts : n <= m
    BY <2>1, LeastIn
  <2> QED
    BY <2>2
<1>5. ASSUME NEW p \in C \ {r}, ~Before(d, r, p)
      PROVE  FALSE
  <2>1. /\ r \in Nat /\ p \in Nat
        /\ d.rule[r].priority \in Int /\ d.rule[p].priority \in Int
    BY <1>1
  <2>2. Before(d, p, r) /\ ~Before(d, p, p)
    BY <1>5, <2>1 DEF Before
  <2>3. Ahead(p) \in SUBSET Ahead(r)
    <3>1. ASSUME NEW o \in C, Before(d, o, p)
          PROVE  Before(d, o, r)
      <4>1. o \in Nat /\ d.rule[o].priority \in Int
        BY <1>1
      <4> QED
        BY <2>1, <2>2, <3>1, <4>1 DEF Before
    <3> QED
      BY <3>1
  <2>4. p \in Ahead(r) /\ p \notin Ahead(p)
    BY <2>2
  <2> HIDE DEF Ahead
  <2>5. /\ Cardinality(Ahead(p)) <= Cardinality(Ahead(r))
        /\ Cardinality(Ahead(r)) = Cardinality(Ahead(p)) => Ahead(r) = Ahead(p)
    BY <1>3, <2>3, FS_Subset
  <2>6. Cardinality(Ahead(r)) = Cardinality(Ahead(p))
    BY <1>3, <1>4, <2>5
  <2> QED
    BY <2>4, <2>5, <2>6
<1> QED
  BY <1>5

LEMMA WinnerIs ==
  ASSUME NEW d \in Databases, NEW i \in Items, NEW t \in WonTargets(d, i)
  PROVE  LET r == Winner(d, i, t)
         IN  /\ r \in Candidates(d, i) /\ r \in Rules /\ d.rule[r].target = t
             /\ Best(d, i, t, r)
<1> DEFINE rivals == {r \in Candidates(d, i) : d.rule[r].target = t}
           r == Winner(d, i, t)
<1>1. rivals \in SUBSET Rules /\ rivals # {}
  BY DEF Candidates, WonTargets
<1>2. \E p \in rivals : \A o \in rivals \ {p} : Before(d, p, o)
  BY <1>1, FirstRule
<1>3. r = CHOOSE p \in rivals : \A o \in rivals \ {p} : Before(d, p, o)
  BY DEF Winner
<1> HIDE DEF r
<1>4. r \in rivals /\ \A o \in rivals \ {r} : Before(d, r, o)
  BY <1>2, <1>3
<1>5. r \in Candidates(d, i) /\ r \in Rules /\ d.rule[r].target = t
  BY <1>1, <1>4
<1>6. Best(d, i, t, r)
  <2>1. \A o \in Rules : o \in Nat /\ d.rule[o].priority \in Int
    BY CollectAssumption DEF Rules, Databases, RuleRow
  <2>2. ASSUME NEW p \in Candidates(d, i), d.rule[p].target = t
        PROVE  \/ d.rule[p].priority < d.rule[r].priority
               \/ d.rule[p].priority = d.rule[r].priority /\ p >= r
    <3>1. p \in Rules
      BY DEF Candidates
    <3>2. CASE p = r
      BY <2>1, <3>1, <3>2
    <3>3. CASE p # r
      BY <1>4, <1>5, <2>1, <2>2, <3>1, <3>3 DEF Before
    <3> QED
      BY <3>2, <3>3
  <2> QED
    BY <2>2 DEF Best
<1> QED
  BY <1>5, <1>6 DEF r

LEMMA DayType ==
  ASSUME NEW d, NEW t, NEW day
  PROVE  SameDay(d, t, day) \in Nat /\ OnItsDay(d, t, day) \in Nat
<1>1. IsFiniteSet(Items)
  BY CollectAssumption
<1> DEFINE D == {i \in Items : Present(d.content[<<i, t>>]) /\ d.content[<<i, t>>].day = day}
           E == {i \in Items : /\ Present(d.content[<<i, t>>])
                               /\ d.content[<<i, t>>].day = day
                               /\ d.content[<<i, t>>].made = day}
<1>2. IsFiniteSet(D) /\ IsFiniteSet(E)
  BY <1>1, FS_Subset
<1> QED
  BY <1>2, FS_CardinalityType DEF SameDay, OnItsDay

LEMMA LimitsMax ==
  ASSUME NEW f \in RuleForms
  PROVE  Max(Limits(f.target)) \in Nat /\ f.limit \in Nat /\ f.limit <= Max(Limits(f.target))
<1> DEFINE t == f.target
           G == {g \in RuleForms : g.target = t}
           h == [g \in G |-> g.limit]
<1>1. IsFiniteSet(G)
  BY CollectAssumption, FS_Subset
<1>2. IsFiniteSet({h[g] : g \in G})
  <2>1. h \in Surjection(G, {h[g] : g \in G})
    BY DEF Surjection
  <2> QED
    BY <1>1, <2>1, FS_Surjection
<1>3. Limits(t) = {h[g] : g \in G}
  BY DEF Limits
<1>4. Limits(t) \in SUBSET Nat /\ f.limit \in Limits(t)
  BY CollectAssumption DEF Limits
<1> QED
  BY <1>2, <1>3, <1>4, MaxIn

-----------------------------------------------------------------------------
(* Mapping one article *)

\* A product is due for target t of item i.
Due(d, i, t) == t \in WonTargets(d, i) /\ ~Present(d.content[<<i, t>>])

LEMMA ProductsAre ==
  ASSUME NEW d \in Databases, NEW i \in Items, today \in Nat \ {0}
  PROVE  LET products == Products(d, i)
         IN  /\ products \in [Items \X Targets -> ContentRow]
             /\ \A j \in Items, t \in Targets :
                  IF j = i /\ Due(d, i, t)
                  THEN /\ Present(products[<<j, t>>])
                       /\ products[<<j, t>>].rule = Winner(d, i, t)
                       /\ products[<<j, t>>].day
                            = Day(d.rule[Winner(d, i, t)], SameDay(d, t, today))
                       /\ products[<<j, t>>].made = today
                  ELSE products[<<j, t>>] = d.content[<<j, t>>]
<1> DEFINE products == Products(d, i)
           Row(t) == LET r == Winner(d, i, t)
                     IN [status |-> "TRANSFORMED", rule |-> r,
                         day |-> Day(d.rule[r], SameDay(d, t, today)), made |-> today]
<1>1. d.content \in [Items \X Targets -> ContentRow]
  BY DEF Databases
<1>2. ASSUME NEW t \in WonTargets(d, i)
      PROVE  /\ Row(t) \in ContentRow /\ Present(Row(t)) /\ Row(t).rule = Winner(d, i, t)
             /\ Row(t).day = Day(d.rule[Winner(d, i, t)], SameDay(d, t, today))
             /\ Row(t).made = today
  <2>1. Winner(d, i, t) \in Rules
    BY WinnerIs
  <2>2. \A rule, n : Day(rule, n) \in Nat
    BY DEF Day
  <2> QED
    BY <2>1, <2>2 DEF ContentRow, Present
<1>3. products = [x \in Items \X Targets |->
                    IF x[1] = i /\ Due(d, x[1], x[2]) THEN Row(x[2]) ELSE d.content[x]]
  <2>1. ASSUME NEW x \in Items \X Targets
        PROVE  (x[1] = i /\ x[2] \in WonTargets(d, i) /\ ~Present(d.content[x]))
                 = (x[1] = i /\ Due(d, x[1], x[2]))
    <3>1. x = <<x[1], x[2]>>
      OBVIOUS
    <3> QED
      BY <3>1 DEF Due
  <2> QED
    BY <2>1 DEF Products
<1> HIDE DEF products, Row
<1>4. ASSUME NEW x \in Items \X Targets
      PROVE  products[x] \in ContentRow
  BY <1>1, <1>2, <1>3 DEF Due
<1>5. ASSUME NEW j \in Items, NEW t \in Targets
      PROVE  products[<<j, t>>] = IF j = i /\ Due(d, j, t) THEN Row(t) ELSE d.content[<<j, t>>]
  <2>1. <<j, t>> \in Items \X Targets /\ <<j, t>>[1] = j /\ <<j, t>>[2] = t
    OBVIOUS
  <2> QED
    BY <1>3, <2>1
<1>6. ASSUME NEW j \in Items, NEW t \in Targets
      PROVE  IF j = i /\ Due(d, i, t)
             THEN /\ Present(products[<<j, t>>])
                  /\ products[<<j, t>>].rule = Winner(d, i, t)
                  /\ products[<<j, t>>].day
                       = Day(d.rule[Winner(d, i, t)], SameDay(d, t, today))
                  /\ products[<<j, t>>].made = today
             ELSE products[<<j, t>>] = d.content[<<j, t>>]
  BY <1>2, <1>5 DEF Due
<1>7. products \in [Items \X Targets -> ContentRow]
  BY <1>3, <1>4
<1> QED
  BY <1>6, <1>7 DEF products

\* The tables after a mapping of item i: its products, and its status.
LEMMA ProcessedIs ==
  ASSUME NEW d, NEW i \in Items, Sound(d), d.art[i].status = "COLLECTED", today \in Nat \ {0}
  PROVE  LET new == Processed(d, i)
         IN  /\ new \in Databases /\ new.src = d.src /\ new.rule = d.rule
             /\ new.art = [d.art EXCEPT ![i] = [d.art[i] EXCEPT !.status =
                             IF Makes(d, i) THEN "TRANSFORMED" ELSE "UNMATCHED"]]
             /\ new.content = IF Makes(d, i) THEN Products(d, i) ELSE d.content
<1> DEFINE products == Products(d, i)
           Row(status) == [d.art[i] EXCEPT !.status = status]
<1>1. /\ d \in Databases /\ d.art \in [Items -> ArtRow] /\ d.art[i] \in ArtRow
      /\ d.content \in [Items \X Targets -> ContentRow]
      /\ d \in [src: {d.src}, art: {d.art}, rule: {d.rule}, content: {d.content}]
  BY DEF Sound, Databases
<1>2. Row("TRANSFORMED") \in ArtRow /\ Row("UNMATCHED") \in ArtRow
  BY <1>1 DEF ArtRow
<1>3. CASE Refused(d, i)
  <2>1. ~Makes(d, i)
    BY <1>3 DEF Makes
  <2>2. Processed(d, i) = [d EXCEPT !.art[i] = Row("UNMATCHED")]
    BY <1>1, <1>3 DEF Processed, ArtRow
  <2> HIDE DEF Row
  <2>3. LET new == [d EXCEPT !.art[i] = Row("UNMATCHED")]
        IN  /\ new \in Databases /\ new.art = [d.art EXCEPT ![i] = Row("UNMATCHED")]
            /\ new.src = d.src /\ new.rule = d.rule /\ new.content = d.content
    BY <1>1, <1>2, ArticleRow
  <2> QED
    BY <2>1, <2>2, <2>3 DEF Row
<1>4. CASE ~Refused(d, i)
  <2>1. /\ products \in [Items \X Targets -> ContentRow]
        /\ \A j \in Items, t \in Targets :
             IF j = i /\ Due(d, i, t) THEN Present(products[<<j, t>>])
             ELSE products[<<j, t>>] = d.content[<<j, t>>]
    BY <1>1, ProductsAre
  <2>2. Processed(d, i) = Moved(d, i, products)
    BY <1>4 DEF Processed
  <2> HIDE DEF products
  <2>3. (products # d.content) <=> Makes(d, i)
    <3>1. CASE Makes(d, i)
      <4>1. PICK t \in WonTargets(d, i) : TRUE
        BY <3>1 DEF Makes
      <4>2. t \in Targets
        <5>1. PICK r \in Candidates(d, i) : t = d.rule[r].target
          BY DEF WonTargets
        <5>2. r \in Rules /\ Present(d.rule[r])
          BY <5>1 DEF Candidates, Present
        <5> QED
          BY <5>1, <5>2 DEF Sound, RuleOK, Targets
      <4>3. ~Present(d.content[<<i, t>>])
        BY <4>2 DEF Sound, Made
      <4>4. Present(products[<<i, t>>])
        BY <2>1, <4>2, <4>3 DEF Due
      <4> QED
        BY <3>1, <4>3, <4>4
    <3>2. CASE ~Makes(d, i)
      <4>1. WonTargets(d, i) = {}
        BY <1>4, <3>2 DEF Makes
      <4>2. \A j \in Items, t \in Targets : products[<<j, t>>] = d.content[<<j, t>>]
        BY <2>1, <4>1 DEF Due
      <4>3. \A x \in Items \X Targets : products[x] = d.content[x]
        BY <4>2
      <4> QED
        BY <1>1, <2>1, <3>2, <4>3
    <3> QED
      BY <3>1, <3>2
  <2> DEFINE status == IF Makes(d, i) THEN "TRANSFORMED" ELSE "UNMATCHED"
             new == Processed(d, i)
  <2>4. new = [d EXCEPT !.content = products, !.art[i].status = status]
    BY <2>2, <2>3 DEF Moved
  <2> HIDE DEF new
  <2>5. /\ new.src = d.src /\ new.rule = d.rule /\ new.content = products
        /\ new.art = [d.art EXCEPT ![i] = Row(status)]
        /\ new = [src |-> new.src, art |-> new.art, rule |-> new.rule, content |-> new.content]
    BY <1>1, <2>4 DEF ArtRow
  <2>6. new.art \in [Items -> ArtRow]
    BY <1>1, <1>2, <2>5
  <2>7. new \in Databases
    BY <1>1, <2>1, <2>5, <2>6 DEF Databases
  <2>8. new.content = IF Makes(d, i) THEN products ELSE d.content
    BY <2>3, <2>5
  <2> QED
    BY <2>5, <2>7, <2>8 DEF new, products
<1> QED
  BY <1>3, <1>4

-----------------------------------------------------------------------------
(* What mapping keeps, and the whole of Next *)

\* Mapping an article adds no more than one to a day, and that below the limit.
LEMMA DayKept ==
  ASSUME NEW d, NEW new, NEW i \in Items, Sound(d), today \in Nat \ {0},
         new.content = IF Makes(d, i) THEN Products(d, i) ELSE d.content,
         Limited(d)
  PROVE  Limited(new)
<1>1. SUFFICES ASSUME NEW t \in Targets, Bounded(t), NEW day \in Nat
               PROVE  OnItsDay(new, t, day) <= Max(Limits(t))
  BY DEF Limited
<1> DEFINE D(e) == {j \in Items : /\ Present(e.content[<<j, t>>])
                                  /\ e.content[<<j, t>>].day = day
                                  /\ e.content[<<j, t>>].made = day}
           r == Winner(d, i, t)
<1>2. /\ OnItsDay(d, t, day) <= Max(Limits(t))
      /\ OnItsDay(d, t, day) \in Nat /\ OnItsDay(new, t, day) \in Nat
      /\ SameDay(d, t, today) \in Nat
  BY <1>1, DayType DEF Limited
<1>3. d \in Databases
  BY DEF Sound
<1>4. CASE ~Makes(d, i) \/ ~Due(d, i, t)
  <2>1. \A j \in Items : new.content[<<j, t>>] = d.content[<<j, t>>]
    BY <1>3, <1>4, ProductsAre
  <2>2. OnItsDay(new, t, day) = OnItsDay(d, t, day)
    BY <2>1 DEF OnItsDay
  <2> QED
    BY <1>2, <2>2
<1>5. CASE Makes(d, i) /\ Due(d, i, t)
  <2>1. /\ \A j \in Items \ {i} : new.content[<<j, t>>] = d.content[<<j, t>>]
        /\ new.content[<<i, t>>].day = Day(d.rule[r], SameDay(d, t, today))
        /\ new.content[<<i, t>>].made = today
    BY <1>3, <1>5, ProductsAre
  <2>2. r \in Candidates(d, i) /\ r \in Rules /\ d.rule[r].target = t
    BY <1>3, <1>5, WinnerIs DEF Due
  <2> HIDE DEF r
  <2>3. PICK f \in RuleForms : d.rule[r].target = f.target /\ d.rule[r].limit = f.limit
    BY <2>2 DEF Candidates, Present, Sound, RuleOK
  <2>4. /\ d.rule[r].limit \in Nat /\ d.rule[r].limit > 0
        /\ Max(Limits(t)) \in Nat /\ d.rule[r].limit <= Max(Limits(t))
    BY <1>1, <2>2, <2>3, LimitsMax DEF Bounded
  <2>5. IsFiniteSet(D(d))
    BY CollectAssumption, FS_Subset
  <2>6. CASE new.content[<<i, t>>].day = day /\ day = today
    <3>1. SameDay(d, t, today) < d.rule[r].limit
      <4>1. Day(d.rule[r], SameDay(d, t, today)) = today /\ today # 0 /\ today + 1 # today
        BY <2>1, <2>6
      <4>2. ~Full(d.rule[r], SameDay(d, t, today))
        BY <4>1 DEF Day
      <4> QED
        BY <1>2, <2>4, <4>2 DEF Full
    <3>2. D(new) \in SUBSET (D(d) \cup {i})
      BY <2>1
    <3>3. OnItsDay(d, t, day) = Cardinality(D(d)) /\ OnItsDay(new, t, day) = Cardinality(D(new))
      BY DEF OnItsDay
    <3>7. OnItsDay(d, t, day) <= SameDay(d, t, today)
      <4> DEFINE E == {j \in Items : /\ Present(d.content[<<j, t>>])
                                     /\ d.content[<<j, t>>].day = today}
      <4>1. IsFiniteSet(E) /\ D(d) \in SUBSET E
        BY <2>6, CollectAssumption, FS_Subset
      <4>2. SameDay(d, t, today) = Cardinality(E)
        BY DEF SameDay
      <4> HIDE DEF D, E
      <4> QED
        BY <3>3, <4>1, <4>2, FS_Subset
    <3> HIDE DEF D
    <3>4. IsFiniteSet(D(d) \cup {i}) /\ Cardinality(D(d) \cup {i}) <= Cardinality(D(d)) + 1
      <4>1. Cardinality(D(d)) \in Nat
        BY <2>5, FS_CardinalityType
      <4>2. /\ IsFiniteSet(D(d) \cup {i})
            /\ Cardinality(D(d) \cup {i})
                 = IF i \in D(d) THEN Cardinality(D(d)) ELSE Cardinality(D(d)) + 1
        BY <2>5, FS_AddElement
      <4> QED
        BY <4>1, <4>2
    <3>5. Cardinality(D(new)) <= Cardinality(D(d) \cup {i})
      BY <3>2, <3>4, FS_Subset
    <3>6. Cardinality(D(d) \cup {i}) \in Nat
      BY <3>4, FS_CardinalityType
    <3> QED
      BY <1>2, <2>4, <3>1, <3>3, <3>4, <3>5, <3>6, <3>7
  <2>7. CASE ~(new.content[<<i, t>>].day = day /\ day = today)
    <3>1. D(new) \in SUBSET D(d)
      BY <2>1, <2>7
    <3>2. OnItsDay(d, t, day) = Cardinality(D(d)) /\ OnItsDay(new, t, day) = Cardinality(D(new))
      BY DEF OnItsDay
    <3> HIDE DEF D
    <3>3. Cardinality(D(new)) <= Cardinality(D(d))
      BY <2>5, <3>1, FS_Subset
    <3> QED
      BY <1>2, <2>4, <3>2, <3>3
  <2> QED
    BY <2>6, <2>7
<1> QED
  BY <1>4, <1>5

LEMMA MapOneStep ==
  ASSUME CollectInv, NEW q \in Requests, NEW i \in Items, MapOne(i, q), UNCHANGED <<feed, today>>
  PROVE  CollectInv' /\ BestKept(db, db')
<1> DEFINE new == Processed(db, i)
           row == [db.art[i] EXCEPT !.status =
                     IF Makes(db, i) THEN "TRANSFORMED" ELSE "UNMATCHED"]
<1>1. /\ Sound(db) /\ db \in Databases /\ db.art \in [Items -> ArtRow] /\ db.art[i] \in ArtRow
      /\ db.art[i].status = "COLLECTED" /\ Request(q, "map", new)
  BY DEF CollectInv, Sound, Databases, MapOne
<1>0. today \in Nat \ {0}
  BY DEF CollectInv, FeedOK
<1>2. /\ new \in Databases /\ new.src = db.src /\ new.rule = db.rule
      /\ new.art = [db.art EXCEPT ![i] = row]
      /\ new.content = IF Makes(db, i) THEN Products(db, i) ELSE db.content
  BY <1>0, <1>1, ProcessedIs
<1>3. row.dup = db.art[i].dup /\ row.deleted = db.art[i].deleted
  BY <1>1 DEF ArtRow
<1> HIDE DEF new
<1>4. new.art[i] = row /\ \A j \in Items \ {i} : new.art[j] = db.art[j]
  BY <1>1, <1>2
<1>5. ASSUME NEW j \in Items, NEW t \in Targets
      PROVE  IF j = i /\ Makes(db, i) /\ Due(db, i, t)
             THEN Product(db, new, i, t) /\ Present(new.content[<<i, t>>])
             ELSE new.content[<<j, t>>] = db.content[<<j, t>>]
  <2>1. CASE j = i /\ Makes(db, i) /\ Due(db, i, t)
    <3>1. /\ Present(new.content[<<i, t>>])
          /\ new.content[<<i, t>>].rule = Winner(db, i, t)
      BY <1>0, <1>1, <1>2, <2>1, ProductsAre
    <3>2. Winner(db, i, t) \in Rules /\ Best(db, i, t, Winner(db, i, t))
      BY <1>1, <2>1, WinnerIs DEF Due
    <3> QED
      BY <2>1, <3>1, <3>2 DEF Product, Due
  <2>2. CASE ~(j = i /\ Makes(db, i) /\ Due(db, i, t))
    BY <1>0, <1>1, <1>2, <2>2, ProductsAre
  <2> QED
    BY <2>1, <2>2
<1>6. ASSUME NEW j \in Items \ {i}
      PROVE  LeavesItem(db, new, j)
  BY <1>4, <1>5 DEF LeavesItem, SameContent
<1>7. MapsItem(db, new, i)
  <2>1. CASE Makes(db, i)
    <3>1. PICK r \in Candidates(db, i) : TRUE
      BY <2>1 DEF Makes, WonTargets
    <3>2. db.rule[r].target \in WonTargets(db, i) /\ db.rule[r].target \in Targets
      <4>1. r \in Rules /\ Present(db.rule[r])
        BY <3>1 DEF Candidates, Present
      <4> QED
        BY <1>1, <3>1, <4>1 DEF Sound, RuleOK, Targets, WonTargets
    <3>3. Due(db, i, db.rule[r].target)
      BY <1>1, <3>2 DEF Due, Sound, Made
    <3>4. Made(new, i)
      BY <1>5, <2>1, <3>2, <3>3 DEF Made
    <3> QED
      BY <1>1, <1>4, <1>5, <2>1, <3>4 DEF MapsItem
  <2>2. CASE ~Makes(db, i)
    BY <1>1, <1>4, <1>5, <2>2 DEF MapsItem, SameContent
  <2> QED
    BY <2>1, <2>2
<1>8. Effect("map", db, new)
  <2>1. Change(db, new)
    BY <1>1, <1>2, <1>6, <1>7 DEF Change
  <2> QED
    BY <1>2, <2>1 DEF Effect
<1>9. AloneKept(db, new)
  <2>1. Circuit(db) => Circuit(new)
    BY <1>2 DEF Circuit
  <2>2. Settled(db) => Settled(new)
    <3>1. \A j \in Items : /\ new.art[j].dup = db.art[j].dup
                           /\ new.art[j].deleted = db.art[j].deleted
                           /\ Present(new.art[j]) => Present(db.art[j])
      BY <1>1, <1>3, <1>4 DEF Present
    <3> QED
      BY <3>1 DEF Settled, Close
  <2>3. Limited(db) => Limited(new)
    BY <1>0, <1>1, <1>2, DayKept
  <2> QED
    BY <2>1, <2>2, <2>3 DEF AloneKept
<1>10. "map" \in Kinds
  BY DEF Kinds
<1> QED
  BY <1>1, <1>8, <1>9, <1>10, RequestKeeps

LEMMA PublishStep ==
  ASSUME CollectInv, NEW s \in Sources, Publish(s)
  PROVE  CollectInv' /\ BestKept(db, db')
<1>1. FeedOK'
  <2>1. Len(Feed[s]) \in Nat
    BY CollectAssumption
  <2> QED
    BY <2>1 DEF Publish, CollectInv, FeedOK
<1>2. Sound(db)' /\ RequestsOK' /\ AloneInv'
  BY DEF Publish, CollectInv, RequestsOK, AloneInv, Sequential, Idle
<1> QED
  BY <1>1, <1>2, SameBest DEF Publish, CollectInv

LEMMA NewDayStep ==
  ASSUME CollectInv, NewDay
  PROVE  CollectInv' /\ BestKept(db, db')
<1>1. FeedOK' /\ Sound(db)' /\ RequestsOK' /\ AloneInv'
  BY DEF NewDay, CollectInv, FeedOK, RequestsOK, AloneInv, Sequential, Idle
<1> QED
  BY <1>1, SameBest DEF NewDay, CollectInv

LEMMA NextKeeps ==
  ASSUME CollectInv, [Next]_vars
  PROVE  CollectInv' /\ BestKept(db, db')
<1>1. CASE UNCHANGED vars
  <2>1. CollectInv'
    BY <1>1 DEF vars, CollectInv, FeedOK, RequestsOK, AloneInv, Sequential, Idle
  <2> QED
    BY <1>1, <2>1, SameBest DEF vars
<1>2. CASE \E s \in Sources : Publish(s)
  BY <1>2, PublishStep
<1>3. ASSUME NEW q \in Requests, UNCHANGED <<feed, today>>,
             \/ Commit(q) \/ Abort(q)
             \/ \E s \in Sources : OnSource(s, q)
             \/ \E r \in Rules : OnRule(r, q)
             \/ \E i \in Items : OnArticle(i, q)
      PROVE  CollectInv' /\ BestKept(db, db')
  <2>1. CASE Commit(q)
    BY <1>3, <2>1, CommitStep
  <2>2. CASE Abort(q)
    BY <1>3, <2>2, AbortStep
  <2>3. ASSUME NEW s \in Sources, OnSource(s, q)
        PROVE  CollectInv' /\ BestKept(db, db')
    BY <1>3, <2>3, CreateSourceStep, ConfirmStep, SetEnabledStep, DeleteSourceStep,
       RunNowStep, ManualImportStep DEF OnSource
  <2>4. ASSUME NEW r \in Rules, OnRule(r, q)
        PROVE  CollectInv' /\ BestKept(db, db')
    BY <1>3, <2>4, SaveRuleStep, SetRuleStatusStep, DeleteRuleStep DEF OnRule
  <2>5. ASSUME NEW i \in Items, OnArticle(i, q)
        PROVE  CollectInv' /\ BestKept(db, db')
    BY <1>3, <2>5, DeleteArticleStep, MapOneStep DEF OnArticle
  <2> QED
    BY <1>3, <2>1, <2>2, <2>3, <2>4, <2>5
<1> QED
  BY <1>1, <1>2, <1>3, NewDayStep DEF Next

-----------------------------------------------------------------------------
(* The theorems *)

LEMMA TablesOK ==
  Tables \in Databases
<1>1. [s \in Sources |-> [status |-> "ABSENT", deleted |-> FALSE, fails |-> 0, cursor |-> 0,
                          confirmed |-> FALSE]] \in [Sources -> SrcRow]
  <2>1. 0 \in 0..MaxFails
    BY CollectAssumption
  <2> QED
    BY <2>1 DEF SrcRow, Dates
<1>2. NoArticle \in ArtRow /\ NoRule \in RuleRow /\ NoProduct \in ContentRow
  BY DEF NoArticle, ArtRow, NoRule, RuleRow, NoProduct, ContentRow
<1> QED
  BY <1>1, <1>2 DEF Tables, Databases, NoProduct

LEMMA InitKeeps ==
  ASSUME Init
  PROVE  CollectInv
<1>1. /\ db = Tables /\ sess = [q \in Requests |-> NoRequest]
      /\ feed = [s \in Sources |-> 0] /\ today = 1
  BY DEF Init, InitRequests
<1>2. /\ \A s \in Sources : /\ db.src[s].status = "ABSENT" /\ db.src[s].fails = 0
                            /\ db.src[s].cursor = 0
      /\ \A i \in Items : db.art[i] = NoArticle
      /\ \A r \in Rules : db.rule[r] = NoRule
      /\ \A x \in Items \X Targets : db.content[x] = NoProduct
  BY <1>1 DEF Tables, NoProduct
<1>3. \A s \in Sources : Len(Feed[s]) \in Nat
  BY CollectAssumption
<1>4. FeedOK
  BY <1>1, <1>3 DEF FeedOK
<1>5. Sound(db)
  <2>1. db \in Databases
    BY <1>1, TablesOK
  <2>2. \A s \in Sources : Reached(db, s)
    BY <1>2, <1>3, CollectAssumption DEF Reached, PassedBy
  <2>3. \A i \in Items : ArtOK(db.art[i]) /\ (db.art[i].status = "TRANSFORMED" <=> Made(db, i))
    <3>0. ~Present(NoProduct)
      BY DEF NoProduct, Present
    <3>1. ASSUME NEW i \in Items
          PROVE  ~Made(db, i)
      <4>1. \A t \in Targets : db.content[<<i, t>>] = NoProduct
        BY <1>2
      <4> QED
        BY <4>1, <3>0 DEF Made
    <3>2. ASSUME NEW i \in Items
          PROVE  ~Present(db.art[i]) /\ db.art[i].status # "TRANSFORMED"
      BY <1>2 DEF NoArticle, Present
    <3> QED
      BY <1>2, <3>1, <3>2 DEF ArtOK
  <2>4. \A r \in Rules : RuleOK(db.rule[r])
    BY <1>2 DEF RuleOK, NoRule, Present
  <2> QED
    BY <1>2, <2>1, <2>2, <2>3, <2>4 DEF Sound
<1>6. RequestsOK
  BY <1>1 DEF RequestsOK, Idle, NoRequest
<1>7. Circuit(db)
  BY <1>2, CollectAssumption DEF Circuit
<1>8. Settled(db)
  BY <1>2 DEF Settled, Close, NoArticle, Present
<1>9. Limited(db)
  <2>1. SUFFICES ASSUME NEW t \in Targets, NEW day \in Nat
                 PROVE  OnItsDay(db, t, day) <= Max(Limits(t))
    BY DEF Limited
  <2>2. OnItsDay(db, t, day) = 0
    <3>1. {i \in Items : /\ Present(db.content[<<i, t>>])
                         /\ db.content[<<i, t>>].day = day
                         /\ db.content[<<i, t>>].made = day} = {}
      BY <1>2 DEF NoProduct, Present
    <3> QED
      BY <3>1, FS_EmptySet DEF OnItsDay
  <2>3. Max(Limits(t)) \in Nat
    BY LimitsMax DEF Targets
  <2> QED
    BY <2>2, <2>3
<1> QED
  BY <1>4, <1>5, <1>6, <1>7, <1>8, <1>9 DEF CollectInv, AloneInv

THEOREM AlwaysInv ==
  Spec => []CollectInv
<1>1. CollectInv /\ [Next]_vars => CollectInv'
  BY NextKeeps
<1> QED
  BY InitKeeps, <1>1, PTL DEF Spec

\* Sources, articles and rules have their types; what repeats another article
\* is not left for mapping, and a rule that is deleted has no sources.
THEOREM CollectTypes ==
  Spec => []TypeOK
<1>1. CollectInv => TypeOK
  <2>1. SUFFICES ASSUME CollectInv
                 PROVE  TypeOK
    OBVIOUS
  <2>2. /\ Sound(db) /\ db.src \in [Sources -> SrcRow] /\ db.art \in [Items -> ArtRow]
    BY <2>1 DEF CollectInv, Sound, Databases
  <2>3. \A s \in Sources :
          /\ db.src[s].status \in {"ABSENT", "ACTIVE", "PAUSED", "CIRCUIT_OPEN"}
          /\ db.src[s].fails \in 0..MaxFails /\ db.src[s].cursor \in Dates
    BY <2>2 DEF SrcRow
  <2>4. \A i \in Items :
          /\ db.art[i].status \in {"ABSENT", "COLLECTED", "UNMATCHED", "TRANSFORMED"}
          /\ db.art[i].dup # None => db.art[i].status = "UNMATCHED"
    BY <2>2 DEF ArtRow, Sound, ArtOK, NoArticle
  <2>5. \A r \in Rules : db.rule[r].status = "DELETED" => db.rule[r].sources = {}
    BY <2>2 DEF Sound, RuleOK
  <2> QED
    BY <2>3, <2>4, <2>5 DEF TypeOK
<1> QED
  BY <1>1, AlwaysInv, PTL

\* Whatever runs of a source overlap, fail half way or abort, and whatever the
\* dates, the cursor passes an item it leaves out only if an earlier one with no
\* lesser date is stored (run_now, fetch_list).
THEOREM PassesOnlyLate ==
  Spec => []OnlyLatePassed
<1>1. ASSUME CollectInv
      PROVE  OnlyLatePassed
  <2>1. \A s \in Sources : PassedBy(StoredItems(db), s, db.src[s].cursor)
    BY <1>1 DEF CollectInv, Sound, Reached
  <2>2. \A s \in Sources : Feed[s] \in Seq(Items) /\ Len(Feed[s]) \in Nat
    BY CollectAssumption
  <2>3. \A s \in Sources : \A n \in 1..Len(Feed[s]) :
          Feed[s][n] \in StoredItems(db) <=> Present(db.art[Feed[s][n]])
    BY <2>2 DEF StoredItems
  <2>4. \A s \in Sources : \A n \in 1..Len(Feed[s]) : \A m \in 1..(n - 1) : m \in 1..Len(Feed[s])
    BY <2>2
  <2> QED
    BY <2>1, <2>3, <2>4 DEF PassedBy, OnlyLatePassed
<1> QED
  BY <1>1, AlwaysInv, PTL

\* With a threshold below the number of bands, and requests that do not overlap,
\* recalling by equal bands misses no near duplicate (dedup_check).
THEOREM DuplicatesSettle ==
  ASSUME HammingThreshold < 4
  PROVE  Spec => []NearDuplicatesSettled
<1>1. CollectInv => NearDuplicatesSettled
  BY DEF CollectInv, AloneInv, Settled, Close, NearDuplicatesSettled
<1> QED
  BY <1>1, AlwaysInv, PTL

\* Where nothing overlaps, the circuit of a source is open just while its
\* failures in a row have reached the threshold (run_now, set_enabled).
THEOREM CircuitCounts ==
  Spec => []CircuitMatchesCount
<1>1. CollectInv => CircuitMatchesCount
  BY DEF CollectInv, AloneInv, Circuit, CircuitMatchesCount
<1> QED
  BY <1>1, AlwaysInv, PTL

\* An article is TRANSFORMED just if something was made of it, also when two
\* mappings of it overlap (process_collect_article).
THEOREM StatusTellsProducts ==
  Spec => []ProductsMatchStatus
<1>1. CollectInv => ProductsMatchStatus
  BY DEF CollectInv, Sound, Made, ProductsMatchStatus
<1> QED
  BY <1>1, AlwaysInv, PTL

\* Where mappings do not overlap, no more than the largest limit a rule for an
\* account may have is made on a day for that same day, whatever rules are
\* changed and however much earlier days left for it
\* (compute_suggested_publish_at).
THEOREM DayLimitKept ==
  Spec => []TodayWithinLimit
<1>1. CollectInv => TodayWithinLimit
  BY DEF CollectInv, AloneInv, Limited, OnItsDay, FeedOK, TodayWithinLimit
<1> QED
  BY <1>1, AlwaysInv, PTL

\* What a step makes for an account is made by the rule of highest priority of
\* those in force that match, the oldest of equals, also if others committed
\* since the snapshot of the mapping; rules do not change under a mapping
\* (process_collect_article).
THEOREM PreferredRuleWins ==
  Spec => BestRuleWins
<1>1. CollectInv /\ [Next]_vars =>
        [\A i \in Items, t \in Targets :
           Present(db'.content[<<i, t>>]) /\ ~Present(db.content[<<i, t>>])
             => LET r == db'.content[<<i, t>>].rule
                IN \A p \in Candidates(db, i) :
                     db.rule[p].target = t
                       => \/ db.rule[p].priority < db.rule[r].priority
                          \/ db.rule[p].priority = db.rule[r].priority /\ p >= r]_vars
  BY NextKeeps DEF BestKept, Best
<1> QED
  BY <1>1, AlwaysInv, PTL DEF Spec, BestRuleWins

\* A dry run lets an article pass its gates just if mapping would let it match
\* (evaluate_detail, evaluate).
THEOREM DryRunTells ==
  Spec => []DryRunAgrees
<1>1. ASSUME NEW r \in Rules, NEW i \in Items
      PROVE  (\A check \in Detail(Cond[r], i) : check.passed) <=> Evaluate(Cond[r], i)
  <2>1. CASE Cond[r] = None
    BY <2>1 DEF Detail, Evaluate
  <2>2. CASE Cond[r] # None
    <3> DEFINE cond == Cond[r]
               Excluded == KeywordsIn(i, cond.exclude) = {}
               Included == IF cond.mode = "ALL" THEN cond.include \subseteq Words[i]
                           ELSE cond.include = {} \/ KeywordsIn(i, cond.include) # {}
               Long == cond.min > 0 => Size[i] >= cond.min
    <3>1. (\A check \in Detail(cond, i) : check.passed) <=> Excluded /\ Included /\ Long
      <4>1. Detail(cond, i) =
              {[name |-> "keywords_exclude", passed |-> Excluded],
               [name |-> "keywords_include", passed |-> Included],
               [name |-> "min_word_count", passed |-> Long]}
        BY <2>2 DEF Detail
      <4> HIDE DEF Excluded, Included, Long
      <4> QED
        BY <4>1
    <3>2. Evaluate(cond, i) <=> Excluded /\ Included /\ Long
      <4> DEFINE Enough == cond.min > 0 => Size[i] >= cond.min
      <4>1. Evaluate(cond, i) <=>
              IF KeywordsIn(i, cond.exclude) # {} THEN FALSE
              ELSE IF cond.include # {} /\ cond.mode = "ALL" /\ ~(cond.include \subseteq Words[i])
                THEN FALSE
              ELSE IF cond.include # {} /\ cond.mode # "ALL" /\ KeywordsIn(i, cond.include) = {}
                THEN FALSE
              ELSE Enough
        BY <2>2, Zenon DEF Evaluate
      <4>2. Long <=> Enough
        OBVIOUS
      <4> HIDE DEF Enough, Long
      <4> QED
        BY <4>1, <4>2 DEF KeywordsIn
    <3> QED
      BY <3>1, <3>2
  <2> QED
    BY <2>1, <2>2
<1>2. DryRunAgrees
  BY <1>1 DEF DryRunAgrees
<1> QED
  BY <1>2, PTL

=============================================================================
