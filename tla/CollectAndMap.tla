--------------------------- MODULE CollectAndMap ---------------------------
(***************************************************************************)
(* From a feed to the articles of official accounts: a run of a source     *)
(* stores what the feed has beyond its cursor and sorts out duplicates;    *)
(* mapping makes of a stored article one article per official account that *)
(* a rule sends it to.  Runs, mappings and administration open on a        *)
(* snapshot and commit later (DbSession).  Sources are RSS feeds.          *)
(***************************************************************************)
EXTENDS DbSession, Integers, Sequences, FiniteSets, FiniteSetsExt

CONSTANTS
  Sources,
  Items,       \* what feeds offer: one url each
  Feed,        \* Feed[s]: the items of source s in the order they are published
  Stamp,       \* Stamp[i]: the date of item i by the order of strings, 0 if it has none
  Original,    \* the items an importer marks as original works
  Bits,        \* Bits[i]: the ones in the SimHash of the text of item i
  BandOf,      \* BandOf[b]: the band, 0..3, bit b belongs to
  HammingThreshold, \* HAMMING_THRESHOLD
  Words, Size, \* Words[i], Size[i]: the keywords in item i, and its length
  MaxRules,    \* bound on the rules created
  Cond,        \* Cond[r]: match_condition_json of rule r
  RuleForms,   \* the targets, priorities, sources and schedules a rule may get
  CircuitThreshold, \* CIRCUIT_THRESHOLD
  MaxFails,    \* bound on the failures of a source in a row
  MaxDay,      \* bound on the days that pass
  None

Rules == 1..MaxRules

Targets == {f.target : f \in RuleForms}

Dates == {0} \cup {Stamp[i] : i \in Items}

Kinds == {"alone", "create", "run", "import", "source", "confirm", "article", "rule", "map"}

ASSUME CollectAssumption ==
  /\ \A s \in Sources : Feed[s] \in Seq(Items)
  /\ \A i \in Items : Stamp[i] \in Nat
  /\ IsFiniteSet(Items) /\ Original \subseteq Items /\ None \notin Items
  /\ \A i \in Items : IsFiniteSet(Bits[i]) /\ \A b \in Bits[i] : BandOf[b] \in 0..3
  /\ IsFiniteSet(RuleForms)
  /\ \A f \in RuleForms :
       /\ f.priority \in Int /\ f.sources \subseteq Sources /\ f.limit \in Nat
       /\ f.window \in BOOLEAN /\ f.overflow \in {"NEXT_DAY", "DROP"}
  /\ HammingThreshold \in Nat /\ MaxRules \in Nat /\ MaxDay \in Nat
  /\ CircuitThreshold \in Nat \ {0} /\ MaxFails \in Nat
  /\ Offers \subseteq SUBSET Kinds /\ {"create", "rule", "confirm"} \subseteq Alone

VARIABLES
  feed,  \* feed[s]: how much of its feed source s has published
  today

vars == <<db, sess, offer, feed, today>>

NoArticle ==
  [status |-> "ABSENT", deleted |-> FALSE, dup |-> None, source |-> None, original |-> FALSE]

NoRule ==
  [status |-> "ABSENT", target |-> None, priority |-> 0, sources |-> {}, limit |-> 0,
   window |-> FALSE, overflow |-> "NEXT_DAY"]

\* day: when it is to appear, 0 if that is left open; made: when it was made.
NoProduct == [status |-> "ABSENT", rule |-> 0, day |-> 0, made |-> 0]

Tables ==
  [src |-> [s \in Sources |->
     [status |-> "ABSENT", deleted |-> FALSE, fails |-> 0, cursor |-> 0,
      confirmed |-> FALSE]],
   art |-> [i \in Items |-> NoArticle],
   rule |-> [r \in Rules |-> NoRule],
   content |-> [x \in Items \X Targets |-> NoProduct]]

Init ==
  /\ InitRequests(Tables)
  /\ feed = [s \in Sources |-> 0] /\ today = 1

\* What a feed publishes matters where sources are run, the date where articles
\* are mapped: neither changes in other behaviours.
Publish(s) ==
  /\ "run" \in offer /\ feed[s] < Len(Feed[s])
  /\ feed' = [feed EXCEPT ![s] = @ + 1]
  /\ UNCHANGED <<db, sess, offer, today>>

NewDay ==
  /\ "map" \in offer /\ today < MaxDay
  /\ today' = today + 1
  /\ UNCHANGED <<db, sess, offer, feed>>

-----------------------------------------------------------------------------
(* Collecting *)

Hamming(i, j) == Cardinality((Bits[i] \ Bits[j]) \cup (Bits[j] \ Bits[i]))

SameBand(i, j, band) ==
  \A b \in Bits[i] \cup Bits[j] :
    BandOf[b] = band => b \in Bits[i] \cap Bits[j]

\* Mutant: candidates come from the first three bands.
RecalledByThree(i, j) == \E band \in 0..2 : SameBand(i, j, band)

Recalled(i, j) == \E band \in 0..3 : SameBand(i, j, band)

\* dedup_check: the articles that item i repeats; whichever the database
\* returns first counts.
Similar(d, i) ==
  {j \in Items : /\ Present(d.art[j]) /\ ~d.art[j].deleted
                 /\ Recalled(i, j) /\ Hamming(i, j) <= HammingThreshold}

\* Mutant: a near duplicate is collected like any other.
AlwaysCollected(dup) == "COLLECTED"

CollectedAs(dup) == IF dup = None THEN "COLLECTED" ELSE "UNMATCHED"

\* The adapter of a feed marks nothing as original, an importer may.
Stored(d, s, i, original) ==
  LET dup == IF Similar(d, i) = {} THEN None ELSE CHOOSE j \in Similar(d, i) : TRUE
  IN [d EXCEPT !.art[i] = [status |-> CollectedAs(dup), deleted |-> FALSE,
                           dup |-> dup, source |-> s, original |-> original]]

\* A url already stored is passed over, also one whose article was deleted.
StoredOnce(d, s, i, wanted) ==
  IF i \notin wanted \/ Present(d.art[i]) THEN d ELSE Stored(d, s, i, FALSE)

\* The wanted ones of items, stored one after the other.
Ingested(d, s, items, wanted) ==
  LET after[n \in 0..Len(items)] ==
        IF n = 0 THEN d ELSE StoredOnce(after[n-1], s, items[n], wanted)
  IN after[Len(items)]

\* Mutant: a source that works again stays as it is.
NotRecovered(status) == status

Recovered(status) == IF status = "CIRCUIT_OPEN" THEN "ACTIVE" ELSE status

Succeeded(d, s, cursor) ==
  [d EXCEPT !.src[s].cursor = cursor, !.src[s].fails = 0,
            !.src[s].status = Recovered(@)]

\* Mutant: the cursor is set before the items are read.
FailedBeyond(d, s, cursor) ==
  [d EXCEPT !.src[s].fails = @ + 1, !.src[s].cursor = cursor,
            !.src[s].status =
              IF d.src[s].fails + 1 >= CircuitThreshold THEN "CIRCUIT_OPEN" ELSE @]

\* What was stored before the error stays.
Failed(d, s, cursor) ==
  [d EXCEPT !.src[s].fails = @ + 1,
            !.src[s].status =
              IF d.src[s].fails + 1 >= CircuitThreshold THEN "CIRCUIT_OPEN" ELSE @]

Listed(s) == Present(db.src[s]) /\ ~db.src[s].deleted

\* fetch_list compares dates as strings: of the dated items it returns those
\* beyond the cursor, which becomes the latest date returned.
Offered(s) == SubSeq(Feed[s], 1, feed[s])

NewItems(s) ==
  {i \in Items : /\ \E n \in 1..feed[s] : Feed[s][n] = i
                 /\ Stamp[i] = 0 \/ Stamp[i] > db.src[s].cursor}

NewCursor(s) == Max({db.src[s].cursor} \cup {Stamp[i] : i \in NewItems(s)})

CreateSource(s, q) ==
  /\ ~Present(db.src[s])
  /\ \E confirmed \in BOOLEAN :
       Request(q, "create", [db EXCEPT !.src[s].status = "ACTIVE",
                                       !.src[s].confirmed = confirmed])

\* An API request, or the tick for a source that is due.
RunNow(s, q) ==
  /\ Listed(s) /\ db.src[s].status # "PAUSED"
  /\ LET items == NewItems(s)
         cursor == NewCursor(s)
     IN \/ Request(q, "run", Succeeded(Ingested(db, s, Offered(s), items), s, cursor))
        \/ \E n \in 0..feed[s] :
             /\ db.src[s].fails < MaxFails
             /\ Request(q, "run",
                        Failed(Ingested(db, s, SubSeq(Feed[s], 1, n), items), s, cursor))

ManualImport(s, q) ==
  /\ Listed(s)
  /\ \E i \in Items :
       /\ ~Present(db.art[i])
       /\ Request(q, "import", Stored(db, s, i, i \in Original))

SetEnabled(s, q) ==
  /\ Listed(s)
  /\ \/ Request(q, "source", [db EXCEPT !.src[s].status = "ACTIVE", !.src[s].fails = 0])
     \/ Request(q, "source", [db EXCEPT !.src[s].status = "PAUSED"])

\* update_source, as far as anything depends on it.
Confirm(s, q) ==
  /\ Listed(s)
  /\ Request(q, "confirm", [db EXCEPT !.src[s].confirmed = ~@])

DeleteSource(s, q) ==
  Listed(s) /\ Request(q, "source", [db EXCEPT !.src[s].deleted = TRUE])

DeleteArticle(i, q) ==
  /\ db.art[i].status \in {"COLLECTED", "UNMATCHED"} /\ ~db.art[i].deleted
  /\ Request(q, "article", [db EXCEPT !.art[i].deleted = TRUE])

-----------------------------------------------------------------------------
(* Rules *)

\* match_condition_json: none, or what to exclude, what to include and how much.
KeywordsIn(i, words) == words \cap Words[i]

\* evaluate leaves at the first gate that is closed.
Evaluate(cond, i) ==
  IF cond = None THEN TRUE
  ELSE IF KeywordsIn(i, cond.exclude) # {} THEN FALSE
  ELSE IF cond.include # {} /\ cond.mode = "ALL" /\ ~(cond.include \subseteq Words[i])
    THEN FALSE
  ELSE IF cond.include # {} /\ cond.mode # "ALL" /\ KeywordsIn(i, cond.include) = {}
    THEN FALSE
  ELSE cond.min > 0 => Size[i] >= cond.min

\* Mutant: the length is not told to the dry run.
IncompleteDetail(cond, i) ==
  IF cond = None THEN {}
  ELSE {[name |-> "keywords_exclude", passed |-> KeywordsIn(i, cond.exclude) = {}],
        [name |-> "keywords_include", passed |->
           IF cond.mode = "ALL" THEN cond.include \subseteq Words[i]
           ELSE cond.include = {} \/ KeywordsIn(i, cond.include) # {}]}

\* evaluate_detail: every gate, for the dry run; a gate not set lets pass.
Detail(cond, i) ==
  IF cond = None THEN {}
  ELSE {[name |-> "keywords_exclude", passed |-> KeywordsIn(i, cond.exclude) = {}],
        [name |-> "keywords_include", passed |->
           IF cond.mode = "ALL" THEN cond.include \subseteq Words[i]
           ELSE cond.include = {} \/ KeywordsIn(i, cond.include) # {}],
        [name |-> "min_word_count", passed |-> cond.min > 0 => Size[i] >= cond.min]}

InForce(r) == db.rule[r].status \in {"ENABLED", "DISABLED"}

\* create_rule and update_rule with their sources, which are replaced as a whole.
SaveRule(r, q) ==
  /\ \/ InForce(r)
     \/ ~Present(db.rule[r]) /\ \A o \in 1..(r - 1) : Present(db.rule[o])
  /\ \E f \in RuleForms, status \in {"ENABLED", "DISABLED"} :
       Request(q, "rule",
         [db EXCEPT !.rule[r] = [status |-> status, target |-> f.target,
            priority |-> f.priority, sources |-> f.sources, limit |-> f.limit,
            window |-> f.window, overflow |-> f.overflow]])

SetRuleStatus(r, q) ==
  /\ InForce(r)
  /\ \E status \in {"ENABLED", "DISABLED"} :
       Request(q, "rule", [db EXCEPT !.rule[r].status = status])

DeleteRule(r, q) ==
  /\ InForce(r)
  /\ Request(q, "rule", [db EXCEPT !.rule[r].status = "DELETED", !.rule[r].sources = {}])

-----------------------------------------------------------------------------
(* Mapping *)

Candidates(d, i) ==
  {r \in Rules : /\ d.rule[r].status = "ENABLED"
                 /\ d.art[i].source \in d.rule[r].sources
                 /\ Evaluate(Cond[r], i)}

\* Mutant: the lowest priority first.
BeforeAscending(d, p, r) ==
  \/ d.rule[p].priority < d.rule[r].priority
  \/ d.rule[p].priority = d.rule[r].priority /\ p < r

\* priority DESC, id ASC
Before(d, p, r) ==
  \/ d.rule[p].priority > d.rule[r].priority
  \/ d.rule[p].priority = d.rule[r].priority /\ p < r

\* Of the rules in their order, the first for a target wins it.
Winner(d, i, t) ==
  LET rivals == {r \in Candidates(d, i) : d.rule[r].target = t}
  IN CHOOSE r \in rivals : \A p \in rivals \ {r} : Before(d, r, p)

WonTargets(d, i) == {d.rule[r].target : r \in Candidates(d, i)}

SameDay(d, t, day) ==
  Cardinality({i \in Items : Present(d.content[<<i, t>>]) /\ d.content[<<i, t>>].day = day})

\* The rule lets no more than its limit appear on a day that has count.
Full(rule, count) == rule.limit > 0 /\ count >= rule.limit

\* Mutant: the limit is exceeded by one.
DayUpTo(rule, count) ==
  IF ~rule.window \/ (Full(rule, count - 1) /\ rule.overflow = "DROP") THEN 0
  ELSE IF Full(rule, count - 1) THEN today + 1 ELSE today

\* compute_suggested_publish_at: what overflows today is not counted tomorrow.
Day(rule, count) ==
  IF ~rule.window \/ (Full(rule, count) /\ rule.overflow = "DROP") THEN 0
  ELSE IF Full(rule, count) THEN today + 1 ELSE today

Products(d, i) ==
  [x \in Items \X Targets |->
     IF x[1] = i /\ x[2] \in WonTargets(d, i) /\ ~Present(d.content[x])
     THEN LET r == Winner(d, i, x[2])
          IN [status |-> "TRANSFORMED", rule |-> r,
              day |-> Day(d.rule[r], SameDay(d, x[2], today)), made |-> today]
     ELSE d.content[x]]

Refused(d, i) == d.art[i].original /\ ~d.src[d.art[i].source].confirmed

Moved(d, i, products) ==
  [d EXCEPT !.content = products,
            !.art[i].status = IF products # d.content THEN "TRANSFORMED" ELSE "UNMATCHED"]

\* Mutant: originals are refused when their articles have been made.
RefusedTooLate(d, i) ==
  LET e == Moved(d, i, Products(d, i))
  IN IF Refused(d, i) THEN [e EXCEPT !.art[i].status = "UNMATCHED"] ELSE e

\* process_collect_article
Processed(d, i) ==
  IF Refused(d, i) THEN [d EXCEPT !.art[i].status = "UNMATCHED"]
  ELSE Moved(d, i, Products(d, i))

\* One article of run_pending: each is committed by itself.
MapOne(i, q) ==
  /\ db.art[i].status = "COLLECTED" /\ ~db.art[i].deleted
  /\ Request(q, "map", Processed(db, i))

-----------------------------------------------------------------------------
\* The items a run has found new, and the source it ran.
Found(q) == Added(sess[q].seen.art, sess[q].new.art)

RanOn(q) == CHOOSE s \in Sources : \E i \in Found(q) : sess[q].new.art[i].source = s

\* A run that meets a url another has stored since its snapshot counts a
\* duplicate and goes on without it (begin_nested, IntegrityError); its snapshot
\* does not show it the article of the other, so texts close to that one pass.
Kept(q) ==
  IF sess[q].kind # "run" \/ Found(q) = {} THEN sess[q].new
  ELSE LET free == {i \in Found(q) : ~Present(db.art[i])}
       IN [sess[q].new EXCEPT !.art =
             Ingested(sess[q].seen, RanOn(q), Feed[RanOn(q)], free).art]

\* uk_url_hash for an import, uk_collect_mp for a mapping: the request fails.
Duplicate(q) ==
  \/ Collides(db.art, sess[q].seen.art, Kept(q).art)
  \/ Collides(db.content, sess[q].seen.content, Kept(q).content)

Commit(q) == ~Idle(q) /\ CommitUnless(q, Duplicate(q), Kept(q))

OnSource(s, q) ==
  \/ CreateSource(s, q) \/ Confirm(s, q) \/ SetEnabled(s, q) \/ DeleteSource(s, q)
  \/ RunNow(s, q) \/ ManualImport(s, q)

OnRule(r, q) == SaveRule(r, q) \/ SetRuleStatus(r, q) \/ DeleteRule(r, q)

OnArticle(i, q) == DeleteArticle(i, q) \/ MapOne(i, q)

Next ==
  \/ \E q \in Requests :
       /\ \/ Commit(q) \/ Abort(q)
          \/ \E s \in Sources : OnSource(s, q)
          \/ \E r \in Rules : OnRule(r, q)
          \/ \E i \in Items : OnArticle(i, q)
       /\ UNCHANGED <<feed, today>>
  \/ \E s \in Sources : Publish(s)
  \/ NewDay

Spec == Init /\ [][Next]_vars

-----------------------------------------------------------------------------
(* Properties *)

\* Sources, articles and rules have their types; a near duplicate is never
\* left for mapping, and a rule that is deleted has no sources.
TypeOK ==
  /\ \A s \in Sources :
       /\ db.src[s].status \in {"ABSENT", "ACTIVE", "PAUSED", "CIRCUIT_OPEN"}
       /\ db.src[s].fails \in 0..MaxFails /\ db.src[s].cursor \in Dates
  /\ \A i \in Items :
       /\ db.art[i].status \in {"ABSENT", "COLLECTED", "UNMATCHED", "TRANSFORMED"}
       /\ db.art[i].dup # None => db.art[i].status = "UNMATCHED"
  /\ \A r \in Rules : db.rule[r].status = "DELETED" => db.rule[r].sources = {}

\* The cursor passes an item it leaves out only if an earlier one with no lesser
\* date is stored, whichever runs of the source overlap, fail half way or abort
\* (run_now, fetch_list).
OnlyLatePassed ==
  \A s \in Sources : \A n \in 1..Len(Feed[s]) :
    LET i == Feed[s][n]
    IN  ~Present(db.art[i]) /\ 0 < Stamp[i] /\ Stamp[i] <= db.src[s].cursor
          => \E m \in 1..(n - 1) :
               Present(db.art[Feed[s][m]]) /\ Stamp[Feed[s][m]] >= Stamp[i]

\* Of two articles with texts that close, not both are kept, provided the runs
\* that stored them did not overlap: recalling by equal bands misses none.
NearDuplicatesSettled ==
  Sequential =>
    \A i, j \in Items :
      /\ i # j /\ Present(db.art[i]) /\ Present(db.art[j])
      /\ ~db.art[i].deleted /\ ~db.art[j].deleted
      /\ Hamming(i, j) <= HammingThreshold
      => db.art[i].dup # None \/ db.art[j].dup # None

\* The circuit is open just while the failures in a row have reached the
\* threshold, provided nothing overlaps (run_now, set_enabled).
CircuitMatchesCount ==
  Sequential =>
    \A s \in Sources :
      /\ db.src[s].status = "CIRCUIT_OPEN" => db.src[s].fails >= CircuitThreshold
      /\ db.src[s].status = "ACTIVE" => db.src[s].fails < CircuitThreshold

\* An article is TRANSFORMED just if something was made of it, also when two
\* mappings of it overlap, as long as no rule changes under them.
ProductsMatchStatus ==
  \A i \in Items :
    db.art[i].status = "TRANSFORMED"
      <=> \E t \in Targets : Present(db.content[<<i, t>>])

Limits(t) == {f.limit : f \in {g \in RuleForms : g.target = t}}

\* Every rule for account t limits its days.
Bounded(t) == \A f \in RuleForms : f.target = t => f.limit > 0

\* Of what is made for an account on a day, no more than the largest limit a rule
\* for it may have appears on that day, whatever the day before has left for it,
\* provided mappings do not overlap (compute_suggested_publish_at).
TodayWithinLimit ==
  Sequential =>
    \A t \in Targets, day \in 1..today :
      Bounded(t) =>
        Cardinality({i \in Items : /\ Present(db.content[<<i, t>>])
                                   /\ db.content[<<i, t>>].day = day
                                   /\ db.content[<<i, t>>].made = day}) <= Max(Limits(t))

\* What is made for an account is made by the rule of highest priority of those
\* in force that match, the oldest of equals (process_collect_article).
BestRuleWins ==
  [][\A i \in Items, t \in Targets :
       Present(db'.content[<<i, t>>]) /\ ~Present(db.content[<<i, t>>])
         => LET r == db'.content[<<i, t>>].rule
            IN \A p \in Candidates(db, i) :
                 db.rule[p].target = t
                   => \/ db.rule[p].priority < db.rule[r].priority
                      \/ db.rule[p].priority = db.rule[r].priority /\ p >= r]_vars

\* A dry run of a rule on a stored article tells what mapping would decide.
DryRunAgrees ==
  \A r \in Rules, i \in Items :
    Present(db.rule[r]) /\ Present(db.art[i]) =>
      ((\A check \in Detail(Cond[r], i) : check.passed) <=> Evaluate(Cond[r], i))
=============================================================================
