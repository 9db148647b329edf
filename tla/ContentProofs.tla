---------------------------- MODULE ContentProofs ----------------------------
(***************************************************************************)
(* The invariants of ContentReview, for any articles, groups, materials,   *)
(* accounts and requests in flight.  A theorem that needs a kind of        *)
(* request to overlap no other has that as a hypothesis of its own.        *)
(***************************************************************************)
EXTENDS ContentReview, FiniteSetTheorems, FunctionTheorems, WellFoundedInduction, TLAPS

VerRow == [status: {"ABSENT", "SAVED"}, text: Text \cup {None}]
MatRow == [status: {"ABSENT", "STORED", "DELETED"}]
RefRow == [status: {"ABSENT", "UPLOADED"}]
GroupRow == [status: {"ABSENT", "EDITING"}]
AccountRow == [review: BOOLEAN]

Tables ==
  [art: [Articles -> ArtRow], ver: [VersionKeys -> VerRow],
   mat: [Materials -> MatRow], ref: [Materials \X Accounts -> RefRow],
   group: [Groups -> GroupRow], mp: [Accounts -> AccountRow]]

Version(d, a, n) == d.ver[<<a, n>>]

\* An article has a text, and one that mapping-engine has not produced has a
\* version; versions are numbered from 1 and have a text.
Sound(d) ==
  /\ d \in Tables
  /\ \A a \in Articles :
       /\ IF Present(d.art[a])
          THEN d.art[a].text \in Text /\ (a \in Mapped \/ SavedVersions(d, a) # {})
          ELSE d.art[a] = NoArticle /\ a \notin Mapped /\ SavedVersions(d, a) = {}
       /\ \E k \in 0..Versions[a] : SavedVersions(d, a) = 1..k
       /\ \A n \in 1..Versions[a] :
            Version(d, a, n).status = "SAVED" <=> Version(d, a, n).text \in Text

\* No article and no version has gone.
Grown(old, cur) ==
  \A a \in Articles :
    /\ Present(old.art[a]) => Present(cur.art[a])
    /\ \A n \in SavedVersions(old, a) :
         n \in SavedVersions(cur, a) /\ Version(cur, a, n) = Version(old, a, n)

\* What a request that has read old may do to article a: leave its versions and
\* the body of its text, if it has one,
SameVersions(old, new, a) ==
  /\ \A n \in 1..Versions[a] : Version(new, a, n) = Version(old, a, n)
  /\ Present(new.art[a]) <=> Present(old.art[a])
  /\ new.art[a].text # old.art[a].text =>
       /\ Present(old.art[a]) /\ new.art[a].text \in Text
       /\ new.art[a].text.body = old.art[a].text.body

\* or add the next version, that of the text it leaves.
NewVersion(old, new, a) ==
  \E k \in 1..Versions[a] :
    /\ SavedVersions(old, a) = 1..k-1
    /\ \A n \in (1..Versions[a]) \ {k} : Version(new, a, n) = Version(old, a, n)
    /\ Version(new, a, k).status = "SAVED" /\ Version(new, a, k).text \in Text
    /\ Present(new.art[a]) /\ new.art[a].text \in Text
    /\ Version(new, a, k).text.body = new.art[a].text.body

\* A new article stands in no group.
Change(old, new) ==
  /\ Sound(old) /\ new \in Tables
  /\ \A a \in Articles :
       /\ SameVersions(old, new, a) \/ NewVersion(old, new, a)
       /\ ~Present(new.art[a]) => new.art[a] = old.art[a]
       /\ Present(new.art[a]) /\ ~Present(old.art[a]) =>
            new.art[a].group = None /\ new.art[a].pos = 0

\* All but submissions change a text only with a version of it;
TextKept(old, new) ==
  \A a \in Articles :
    SameVersions(old, new, a) => new.art[a].text = old.art[a].text

\* all but the requests of groups leave groups and positions;
GroupsKept(old, new) ==
  \A a \in Articles : /\ new.art[a].group = old.art[a].group
                      /\ new.art[a].pos = old.art[a].pos

\* all but those of materials leave the materials, and take covers from them.
CoversKept(old, new) ==
  /\ new.mat = old.mat
  /\ \A a \in Articles :
       new.art[a].cover \in {None, old.art[a].cover}
         \/ old.mat[new.art[a].cover].status = "STORED"

\* The body of a text is that of the latest version, or the one it came with.
TextIs(d) ==
  \A a \in Articles :
    /\ \A k \in 1..Versions[a] :
         SavedVersions(d, a) = 1..k =>
           Version(d, a, k).text.body = d.art[a].text.body
    /\ Present(d.art[a]) /\ SavedVersions(d, a) = {} =>
         d.art[a].text.body = FirstBody

\* Nobody outside a group has a position, and those within have different ones.
Grouped(d) ==
  /\ \A a \in Articles : d.art[a].group = None => d.art[a].pos = 0
  /\ \A g \in Groups :
       /\ IsFiniteSet(Members(d, g)) /\ Cardinality(Members(d, g)) <= MaxGroupSize
       /\ \A a, b \in Members(d, g) : a # b => d.art[a].pos # d.art[b].pos

Covered(d) ==
  \A a \in Articles :
    d.art[a].cover # None => d.mat[d.art[a].cover].status = "STORED"

Effect(kind, old, new) ==
  /\ Change(old, new)
  /\ kind # "submit" => TextKept(old, new)
  /\ kind = "submit" => \A a \in Articles : SameVersions(old, new, a)
  /\ kind # "group" => GroupsKept(old, new)
  /\ kind # "material" => CoversKept(old, new)
  /\ kind = "group" => (Grouped(old) => Grouped(new))
  /\ kind = "material" => (Covered(old) => Covered(new))

\* Every request in flight will have its effect on what its snapshot was.
RequestsOK ==
  /\ sess \in [Requests -> {NoRequest} \cup [kind: Kinds, seen: Tables, new: Tables]]
  /\ \A s \in Requests :
       ~Idle(s) => /\ sess[s].kind \notin Alone
                   /\ Effect(sess[s].kind, sess[s].seen, sess[s].new)
                   /\ Grown(sess[s].seen, db)

\* What holds whatever requests overlap, and what if one kind overlaps no other.
ContentInv ==
  /\ Sound(db) /\ RequestsOK
  /\ "submit" \in Alone =>
       TextIs(db) /\ \A s \in Requests : ~Idle(s) => TextIs(sess[s].seen)
  /\ "group" \in Alone => Grouped(db)
  /\ "material" \in Alone =>
       Covered(db) /\ \A s \in Requests : ~Idle(s) => sess[s].seen.mat = db.mat

-----------------------------------------------------------------------------
(* The tables *)

LEMMA Keys ==
  /\ \A a \in Articles : \A n \in 1..Versions[a] : <<a, n>> \in VersionKeys
  /\ \A x \in VersionKeys :
       /\ x[1] \in Articles /\ x[2] \in 1..Versions[x[1]] /\ x = <<x[1], x[2]>>
  /\ \A a \in Articles : Versions[a] \in Nat
<1>1. \A a \in Articles : Versions[a] \in Nat
  BY ContentAssumption
<1>2. ASSUME NEW a \in Articles, NEW n \in 1..Versions[a]
      PROVE  <<a, n>> \in VersionKeys
  BY <1>1 DEF VersionKeys
<1>3. ASSUME NEW x \in VersionKeys
      PROVE  x[1] \in Articles /\ x[2] \in 1..Versions[x[1]] /\ x = <<x[1], x[2]>>
  <2>1. /\ x \in Articles \X UNION {1..Versions[a] : a \in Articles}
        /\ x[2] <= Versions[x[1]]
    BY DEF VersionKeys
  <2>2. x[1] \in Articles /\ x = <<x[1], x[2]>> /\ \E a \in Articles : x[2] \in 1..Versions[a]
    BY <2>1
  <2> QED
    BY <1>1, <2>1, <2>2
<1> QED
  BY <1>1, <1>2, <1>3

LEMMA Parts ==
  ASSUME NEW d \in Tables
  PROVE  /\ d.art \in [Articles -> ArtRow] /\ d.ver \in [VersionKeys -> VerRow]
         /\ d.mat \in [Materials -> MatRow] /\ d.ref \in [Materials \X Accounts -> RefRow]
         /\ d.group \in [Groups -> GroupRow] /\ d.mp \in [Accounts -> AccountRow]
         /\ d = [art |-> d.art, ver |-> d.ver, mat |-> d.mat, ref |-> d.ref,
                 group |-> d.group, mp |-> d.mp]
  BY DEF Tables

\* A number is that of a version that is saved, or else not.
LEMMA SavedIs ==
  ASSUME NEW d, NEW a \in Articles
  PROVE  /\ SavedVersions(d, a) \subseteq 1..Versions[a]
         /\ \A n \in 1..Versions[a] :
              n \in SavedVersions(d, a) <=> Version(d, a, n).status = "SAVED"
  BY DEF SavedVersions, Version

\* Tables with equal rows of a version have it saved or not alike.
LEMMA SameSaved ==
  ASSUME NEW d, NEW e, NEW a \in Articles,
         \A n \in 1..Versions[a] : Version(d, a, n) = Version(e, a, n)
  PROVE  SavedVersions(d, a) = SavedVersions(e, a)
  BY DEF SavedVersions, Version

-----------------------------------------------------------------------------
(* Merging a change into the tables *)

\* A row takes the columns of new that differ from those of old.
LEMMA ArtRowMerge ==
  ASSUME NEW cur \in ArtRow, NEW old \in ArtRow, NEW new \in ArtRow
  PROVE  LET row == MergeRow(cur, old, new)
         IN  /\ row \in ArtRow
             /\ row.status = IF new.status = old.status THEN cur.status ELSE new.status
             /\ row.text = IF new.text = old.text THEN cur.text ELSE new.text
             /\ row.group = IF new.group = old.group THEN cur.group ELSE new.group
             /\ row.pos = IF new.pos = old.pos THEN cur.pos ELSE new.pos
             /\ row.cover = IF new.cover = old.cover THEN cur.cover ELSE new.cover
  BY DEF MergeRow, ArtRow

LEMMA VerRowMerge ==
  ASSUME NEW cur \in VerRow, NEW old \in VerRow, NEW new \in VerRow
  PROVE  LET row == MergeRow(cur, old, new)
         IN  /\ row \in VerRow
             /\ row.status = IF new.status = old.status THEN cur.status ELSE new.status
             /\ row.text = IF new.text = old.text THEN cur.text ELSE new.text
  BY DEF MergeRow, VerRow

LEMMA MatRowMerge ==
  ASSUME NEW cur \in MatRow, NEW old \in MatRow, NEW new \in MatRow
  PROVE  /\ MergeRow(cur, old, new) \in MatRow
         /\ new = old => MergeRow(cur, old, new) = cur
  BY DEF MergeRow, MatRow

\* d is cur with what new changes of old, column by column.
MergedAs(d, cur, old, new) ==
  /\ d \in Tables
  /\ \A a \in Articles :
       LET row == d.art[a]
           was == cur.art[a]
           from == old.art[a]
           to == new.art[a]
       IN  /\ row.status = IF to.status = from.status THEN was.status ELSE to.status
           /\ row.text = IF to.text = from.text THEN was.text ELSE to.text
           /\ row.group = IF to.group = from.group THEN was.group ELSE to.group
           /\ row.pos = IF to.pos = from.pos THEN was.pos ELSE to.pos
           /\ row.cover = IF to.cover = from.cover THEN was.cover ELSE to.cover
  /\ \A a \in Articles : \A n \in 1..Versions[a] :
       LET row == Version(d, a, n)
           was == Version(cur, a, n)
           from == Version(old, a, n)
           to == Version(new, a, n)
       IN  /\ row.status = IF to.status = from.status THEN was.status ELSE to.status
           /\ row.text = IF to.text = from.text THEN was.text ELSE to.text
  /\ new.mat = old.mat => d.mat = cur.mat

LEMMA Merged ==
  ASSUME NEW cur \in Tables, NEW old \in Tables, NEW new \in Tables
  PROVE  MergedAs(Merge(cur, old, new), cur, old, new)
<1> DEFINE d == Merge(cur, old, new)
<1>1. /\ d.art = MergeTable(cur.art, old.art, new.art)
      /\ d.ver = MergeTable(cur.ver, old.ver, new.ver)
      /\ d.mat = MergeTable(cur.mat, old.mat, new.mat)
      /\ d.ref = MergeTable(cur.ref, old.ref, new.ref)
      /\ d.group = MergeTable(cur.group, old.group, new.group)
      /\ d.mp = MergeTable(cur.mp, old.mp, new.mp)
      /\ d = [art |-> d.art, ver |-> d.ver, mat |-> d.mat, ref |-> d.ref,
              group |-> d.group, mp |-> d.mp]
  BY DEF Tables, Merge
<1>2. /\ cur.art \in [Articles -> ArtRow] /\ cur.ver \in [VersionKeys -> VerRow]
      /\ old.art \in [Articles -> ArtRow] /\ old.ver \in [VersionKeys -> VerRow]
      /\ new.art \in [Articles -> ArtRow] /\ new.ver \in [VersionKeys -> VerRow]
  BY Parts
<1>3. /\ cur.mat \in [Materials -> MatRow] /\ cur.ref \in [Materials \X Accounts -> RefRow]
      /\ old.mat \in [Materials -> MatRow] /\ old.ref \in [Materials \X Accounts -> RefRow]
      /\ new.mat \in [Materials -> MatRow] /\ new.ref \in [Materials \X Accounts -> RefRow]
  BY Parts
<1>4. /\ cur.group \in [Groups -> GroupRow] /\ cur.mp \in [Accounts -> AccountRow]
      /\ old.group \in [Groups -> GroupRow] /\ old.mp \in [Accounts -> AccountRow]
      /\ new.group \in [Groups -> GroupRow] /\ new.mp \in [Accounts -> AccountRow]
  BY Parts
<1> HIDE DEF d
<1>5. \A a \in Articles : d.art[a] = MergeRow(cur.art[a], old.art[a], new.art[a])
  BY <1>1, <1>2 DEF MergeTable
<1>6. \A x \in VersionKeys : d.ver[x] = MergeRow(cur.ver[x], old.ver[x], new.ver[x])
  BY <1>1, <1>2 DEF MergeTable
<1>7. \A m \in Materials : d.mat[m] = MergeRow(cur.mat[m], old.mat[m], new.mat[m])
  BY <1>1, <1>3 DEF MergeTable
<1>8. d.art \in [Articles -> ArtRow]
  BY <1>1, <1>2, <1>5, ArtRowMerge DEF MergeTable
<1>9. d.ver \in [VersionKeys -> VerRow]
  BY <1>1, <1>2, <1>6, VerRowMerge DEF MergeTable
<1>10. d.mat \in [Materials -> MatRow] /\ (new.mat = old.mat => d.mat = cur.mat)
  BY <1>1, <1>3, <1>7, MatRowMerge DEF MergeTable
<1>11. d.ref \in [Materials \X Accounts -> RefRow]
  <2>1. \A x, y, z \in RefRow : MergeRow(x, y, z) \in RefRow
    BY DEF MergeRow, RefRow
  <2> QED
    BY <1>1, <1>3, <2>1 DEF MergeTable
<1>12. d.group \in [Groups -> GroupRow]
  <2>1. \A x, y, z \in GroupRow : MergeRow(x, y, z) \in GroupRow
    BY DEF MergeRow, GroupRow
  <2> QED
    BY <1>1, <1>4, <2>1 DEF MergeTable
<1>13. d.mp \in [Accounts -> AccountRow]
  <2>1. \A x, y, z \in AccountRow : MergeRow(x, y, z) \in AccountRow
    BY DEF MergeRow, AccountRow
  <2> QED
    BY <1>1, <1>4, <2>1 DEF MergeTable
<1>14. d \in Tables
  BY <1>1, <1>8, <1>9, <1>10, <1>11, <1>12, <1>13 DEF Tables
<1>15. \A a \in Articles : cur.art[a] \in ArtRow /\ old.art[a] \in ArtRow /\ new.art[a] \in ArtRow
  BY <1>2
<1>16. ASSUME NEW a \in Articles, NEW n \in 1..Versions[a]
       PROVE  LET row == Version(d, a, n)
                  was == Version(cur, a, n)
                  from == Version(old, a, n)
                  to == Version(new, a, n)
              IN  /\ row.status = IF to.status = from.status THEN was.status ELSE to.status
                  /\ row.text = IF to.text = from.text THEN was.text ELSE to.text
  <2>1. <<a, n>> \in VersionKeys
    BY Keys
  <2> QED
    BY <1>2, <1>6, <2>1, VerRowMerge DEF Version
<1>17. ASSUME NEW a \in Articles
       PROVE  LET row == d.art[a]
                  was == cur.art[a]
                  from == old.art[a]
                  to == new.art[a]
              IN  /\ row.status = IF to.status = from.status THEN was.status ELSE to.status
                  /\ row.text = IF to.text = from.text THEN was.text ELSE to.text
                  /\ row.group = IF to.group = from.group THEN was.group ELSE to.group
                  /\ row.pos = IF to.pos = from.pos THEN was.pos ELSE to.pos
                  /\ row.cover = IF to.cover = from.cover THEN was.cover ELSE to.cover
  <2>1. /\ d.art[a] = MergeRow(cur.art[a], old.art[a], new.art[a])
        /\ cur.art[a] \in ArtRow /\ old.art[a] \in ArtRow /\ new.art[a] \in ArtRow
    BY <1>5, <1>15
  <2> QED
    BY <2>1, ArtRowMerge
<1> QED
  BY <1>10, <1>14, <1>16, <1>17 DEF d, MergedAs

\* uk_art_ver and the key of a new article, on a commit of new by a request that
\* has read old.
Clashes(cur, old, new) ==
  Collides(cur.art, old.art, new.art) \/ Collides(cur.ver, old.ver, new.ver)

\* Where nobody has committed since, tables replaced are tables merged.
LEMMA OwnChange ==
  ASSUME NEW d, NEW new, Change(d, new)
  PROVE  MergedAs(new, d, d, new) /\ ~Clashes(d, d, new) /\ Grown(d, d)
<1>1. MergedAs(new, d, d, new)
  BY DEF MergedAs, Change
<1>2. ~Clashes(d, d, new)
  BY DEF Clashes, Collides, Added
<1> QED
  BY <1>1, <1>2 DEF Grown

\* A commit of a new version that no key refuses was computed from the last one.
LEMMA NextIsFree ==
  ASSUME NEW cur, NEW old, NEW new, NEW a \in Articles, NEW k \in 1..Versions[a],
         Sound(cur), Sound(old), new \in Tables, Grown(old, cur), ~Clashes(cur, old, new),
         SavedVersions(old, a) = 1..k-1, Version(new, a, k).status = "SAVED"
  PROVE  SavedVersions(cur, a) = 1..k-1
<1>1. Versions[a] \in Nat
  BY Keys
<1>2. PICK i \in 0..Versions[a] : SavedVersions(cur, a) = 1..i
  BY DEF Sound
<1>3. 1..k-1 \subseteq 1..i
  BY <1>2 DEF Grown
<1>4. k \notin 1..i
  <2>1. <<a, k>> \in VersionKeys
    BY Keys
  <2>2. DOMAIN old.ver = VersionKeys
    BY DEF Sound, Tables
  <2>3. Present(new.ver[<<a, k>>])
    BY DEF Version, Present
  <2>4. ~Present(old.ver[<<a, k>>])
    <3>1. k \notin SavedVersions(old, a)
      BY <1>1
    <3>2. old.ver[<<a, k>>].status # "SAVED"
      BY <3>1 DEF SavedVersions
    <3>3. old.ver[<<a, k>>] \in VerRow
      BY <2>1 DEF Sound, Tables
    <3> QED
      BY <3>2, <3>3 DEF Present, VerRow
  <2>5. <<a, k>> \in Added(old.ver, new.ver)
    BY <2>1, <2>2, <2>3, <2>4 DEF Added
  <2>6. ~Present(cur.ver[<<a, k>>])
    BY <2>5 DEF Clashes, Collides
  <2>7. k \notin SavedVersions(cur, a)
    BY <2>6 DEF SavedVersions, Present
  <2> QED
    BY <1>2, <2>7
<1> QED
  BY <1>1, <1>2, <1>3, <1>4

\* What the commit d of a change makes of the versions of an article in cur: it
\* leaves them,
VersionsLeft(d, cur, old, new, a) ==
  /\ SameVersions(old, new, a)
  /\ \A n \in 1..Versions[a] : Version(d, a, n) = Version(cur, a, n)
  /\ SavedVersions(d, a) = SavedVersions(cur, a)

\* or adds version k.
VersionAdded(d, cur, old, new, a, k) ==
  /\ SavedVersions(old, a) = 1..k-1 /\ SavedVersions(cur, a) = 1..k-1
  /\ SavedVersions(d, a) = 1..k
  /\ \A n \in (1..Versions[a]) \ {k} : Version(d, a, n) = Version(cur, a, n)
  /\ Version(d, a, k) = Version(new, a, k)
  /\ Version(d, a, k).status = "SAVED" /\ Version(d, a, k).text \in Text
  /\ Present(new.art[a]) /\ new.art[a].text \in Text
  /\ Version(d, a, k).text.body = new.art[a].text.body

LEMMA CommitVersions ==
  ASSUME NEW cur, NEW old, NEW new, NEW d, NEW a \in Articles,
         Sound(cur), Change(old, new), Grown(old, cur), ~Clashes(cur, old, new),
         MergedAs(d, cur, old, new)
  PROVE  \/ VersionsLeft(d, cur, old, new, a)
         \/ \E k \in 1..Versions[a] : VersionAdded(d, cur, old, new, a, k)
<1>1. /\ Sound(old) /\ new \in Tables /\ cur \in Tables /\ old \in Tables /\ d \in Tables
      /\ Versions[a] \in Nat
  BY Keys DEF Change, Sound, MergedAs
<1>2. ASSUME NEW n \in 1..Versions[a]
      PROVE  /\ Version(d, a, n) \in VerRow /\ Version(cur, a, n) \in VerRow
             /\ Version(old, a, n) \in VerRow /\ Version(new, a, n) \in VerRow
  BY <1>1, Parts, Keys DEF Version
<1>3. ASSUME NEW x \in VerRow, NEW y \in VerRow, x.status = y.status, x.text = y.text
      PROVE  x = y
  BY <1>3 DEF VerRow
<1>4. ASSUME NEW n \in 1..Versions[a], Version(new, a, n) = Version(old, a, n)
      PROVE  Version(d, a, n) = Version(cur, a, n)
  <2>1. /\ Version(d, a, n).status = Version(cur, a, n).status
        /\ Version(d, a, n).text = Version(cur, a, n).text
    BY <1>4 DEF MergedAs
  <2> QED
    BY <1>2, <1>3, <2>1
<1>5. CASE SameVersions(old, new, a)
  <2>1. \A n \in 1..Versions[a] : Version(d, a, n) = Version(cur, a, n)
    BY <1>4, <1>5 DEF SameVersions
  <2> QED
    BY <1>5, <2>1, SameSaved DEF VersionsLeft
<1>6. CASE NewVersion(old, new, a)
  <2>1. PICK k \in 1..Versions[a] :
          /\ SavedVersions(old, a) = 1..k-1
          /\ \A n \in (1..Versions[a]) \ {k} : Version(new, a, n) = Version(old, a, n)
          /\ Version(new, a, k).status = "SAVED" /\ Version(new, a, k).text \in Text
          /\ Present(new.art[a]) /\ new.art[a].text \in Text
          /\ Version(new, a, k).text.body = new.art[a].text.body
    BY <1>6 DEF NewVersion
  <2>2. SavedVersions(cur, a) = 1..k-1
    BY <1>1, <2>1, NextIsFree
  <2>3. \A n \in (1..Versions[a]) \ {k} : Version(d, a, n) = Version(cur, a, n)
    BY <1>4, <2>1
  <2>4. /\ Version(old, a, k) = [status |-> "ABSENT", text |-> Version(old, a, k).text]
        /\ Version(old, a, k).text = None
        /\ Version(cur, a, k).status = "ABSENT"
    <3>1. k \notin 1..k-1
      BY <1>1
    <3>2. Version(old, a, k).status # "SAVED" /\ Version(cur, a, k).status # "SAVED"
      BY <2>1, <2>2, <3>1, SavedIs
    <3>3. Version(old, a, k).text \notin Text
      BY <1>1, <3>2 DEF Sound
    <3>4. Version(old, a, k) \in VerRow /\ Version(cur, a, k) \in VerRow
      BY <1>2
    <3> QED
      BY <3>2, <3>3, <3>4 DEF VerRow
  <2>5. Version(new, a, k).text # None
    BY <2>1, ContentAssumption
  <2>6. /\ Version(d, a, k).status = Version(new, a, k).status
        /\ Version(d, a, k).text = Version(new, a, k).text
    <3>1. Version(old, a, k).status = "ABSENT"
      BY <2>4
    <3>2. /\ Version(d, a, k).status = IF Version(new, a, k).status = Version(old, a, k).status
                                       THEN Version(cur, a, k).status
                                       ELSE Version(new, a, k).status
          /\ Version(d, a, k).text = IF Version(new, a, k).text = Version(old, a, k).text
                                     THEN Version(cur, a, k).text
                                     ELSE Version(new, a, k).text
      BY DEF MergedAs
    <3> QED
      BY <2>1, <2>4, <2>5, <3>1, <3>2
  <2>7. Version(d, a, k) = Version(new, a, k)
    BY <1>2, <1>3, <2>6
  <2>8. SavedVersions(d, a) = 1..k
    <3>1. \A n \in 1..Versions[a] : n \in SavedVersions(d, a) <=> n \in 1..k-1 \/ n = k
      BY <2>1, <2>2, <2>3, <2>7, SavedIs
    <3>2. SavedVersions(d, a) \subseteq 1..Versions[a]
      BY SavedIs
    <3>3. \A n \in 1..k : n \in 1..Versions[a] /\ (n \in 1..k-1 \/ n = k)
      BY <1>1
    <3>4. \A n \in 1..Versions[a] : n \in 1..k-1 \/ n = k => n \in 1..k
      BY <1>1
    <3> QED
      BY <3>1, <3>2, <3>3, <3>4
  <2> QED
    BY <2>1, <2>2, <2>3, <2>7, <2>8 DEF VersionAdded
<1>7. SameVersions(old, new, a) \/ NewVersion(old, new, a)
  BY DEF Change
<1> QED
  BY <1>5, <1>6, <1>7

\* A commit that no unique key refuses keeps the tables sound, and takes no
\* article and no version away.
LEMMA CommitKeeps ==
  ASSUME NEW cur, NEW old, NEW new, NEW d,
         Sound(cur), Change(old, new), Grown(old, cur), ~Clashes(cur, old, new),
         MergedAs(d, cur, old, new)
  PROVE  Sound(d) /\ Grown(cur, d)
<1>1. /\ Sound(old) /\ new \in Tables /\ cur \in Tables /\ old \in Tables /\ d \in Tables
  BY DEF Change, Sound, MergedAs
<1>2. ASSUME NEW a \in Articles
      PROVE  /\ d.art[a] \in ArtRow /\ cur.art[a] \in ArtRow
             /\ old.art[a] \in ArtRow /\ new.art[a] \in ArtRow
             /\ d.art[a].status = IF new.art[a].status = old.art[a].status
                                  THEN cur.art[a].status ELSE new.art[a].status
             /\ d.art[a].text = IF new.art[a].text = old.art[a].text
                                THEN cur.art[a].text ELSE new.art[a].text
  BY <1>1, Parts DEF MergedAs
<1>3. \A a \in Articles : Present(old.art[a]) => Present(cur.art[a])
  BY DEF Grown
<1>4. ASSUME NEW a \in Articles
      PROVE  /\ IF Present(d.art[a])
                THEN d.art[a].text \in Text /\ (a \in Mapped \/ SavedVersions(d, a) # {})
                ELSE d.art[a] = NoArticle /\ a \notin Mapped /\ SavedVersions(d, a) = {}
             /\ \E k \in 0..Versions[a] : SavedVersions(d, a) = 1..k
             /\ \A n \in 1..Versions[a] :
                  Version(d, a, n).status = "SAVED" <=> Version(d, a, n).text \in Text
             /\ Present(cur.art[a]) => Present(d.art[a])
             /\ \A n \in SavedVersions(cur, a) :
                  n \in SavedVersions(d, a) /\ Version(d, a, n) = Version(cur, a, n)
  <2>1. /\ IF Present(cur.art[a])
           THEN cur.art[a].text \in Text /\ (a \in Mapped \/ SavedVersions(cur, a) # {})
           ELSE cur.art[a] = NoArticle /\ a \notin Mapped /\ SavedVersions(cur, a) = {}
        /\ \E k \in 0..Versions[a] : SavedVersions(cur, a) = 1..k
        /\ \A n \in 1..Versions[a] :
             Version(cur, a, n).status = "SAVED" <=> Version(cur, a, n).text \in Text
        /\ SavedVersions(cur, a) \subseteq 1..Versions[a] /\ Versions[a] \in Nat
    BY SavedIs, Keys DEF Sound
  <2>2. CASE VersionsLeft(d, cur, old, new, a)
    <3>1. /\ Present(new.art[a]) <=> Present(old.art[a])
          /\ new.art[a].text # old.art[a].text => new.art[a].text \in Text
      BY <2>2 DEF VersionsLeft, SameVersions
    <3>2. Present(d.art[a]) <=> Present(cur.art[a])
      BY <1>2, <1>3, <3>1 DEF Present
    <3>3. ASSUME ~Present(d.art[a])
          PROVE  d.art[a] = cur.art[a]
      <4>1. ~Present(new.art[a])
        BY <1>3, <3>1, <3>2, <3>3
      <4>2. new.art[a] = old.art[a]
        BY <4>1 DEF Change
      <4>3. /\ d.art[a].status = cur.art[a].status /\ d.art[a].text = cur.art[a].text
            /\ d.art[a].group = cur.art[a].group /\ d.art[a].pos = cur.art[a].pos
            /\ d.art[a].cover = cur.art[a].cover
        BY <4>2 DEF MergedAs
      <4> QED
        BY <1>2, <4>3 DEF ArtRow
    <3> QED
      BY <1>2, <2>1, <2>2, <3>1, <3>2, <3>3 DEF VersionsLeft
  <2>3. CASE \E k \in 1..Versions[a] : VersionAdded(d, cur, old, new, a, k)
    <3>1. PICK k \in 1..Versions[a] : VersionAdded(d, cur, old, new, a, k)
      BY <2>3
    <3>2. /\ SavedVersions(cur, a) = 1..k-1 /\ SavedVersions(d, a) = 1..k
          /\ \A n \in (1..Versions[a]) \ {k} : Version(d, a, n) = Version(cur, a, n)
          /\ Version(d, a, k).status = "SAVED" /\ Version(d, a, k).text \in Text
          /\ Present(new.art[a]) /\ new.art[a].text \in Text
      BY <3>1 DEF VersionAdded
    <3>3. Present(old.art[a]) <=> old.art[a].text \in Text
      <4>1. IF Present(old.art[a]) THEN old.art[a].text \in Text ELSE old.art[a] = NoArticle
        BY <1>1 DEF Sound
      <4>2. NoArticle.text = None
        BY DEF NoArticle, NewArticle
      <4> QED
        BY <4>1, <4>2, ContentAssumption
    <3>4. Present(d.art[a])
      BY <1>2, <1>3, <3>2 DEF Present
    <3>5. d.art[a].text \in Text
      BY <1>2, <1>3, <2>1, <3>2, <3>3
    <3>6. k \in 1..k /\ k \in 0..Versions[a]
      BY <2>1
    <3>7. \A n \in 1..Versions[a] :
            Version(d, a, n).status = "SAVED" <=> Version(d, a, n).text \in Text
      BY <2>1, <3>2
    <3>8. ASSUME NEW n \in SavedVersions(cur, a)
          PROVE  n \in SavedVersions(d, a) /\ Version(d, a, n) = Version(cur, a, n)
      <4>1. n \in 1..k /\ n \in (1..Versions[a]) \ {k}
        BY <2>1, <3>2
      <4> QED
        BY <3>2, <4>1
    <3> QED
      BY <3>2, <3>4, <3>5, <3>6, <3>7, <3>8
  <2> QED
    BY <2>2, <2>3, CommitVersions
<1>5. Sound(d)
  BY <1>1, <1>4 DEF Sound
<1>6. Grown(cur, d)
  BY <1>4 DEF Grown
<1> QED
  BY <1>5, <1>6

\* The body of the text stays that of the latest version, if no submission
\* overlaps another request.
LEMMA CommitText ==
  ASSUME NEW cur, NEW old, NEW new, NEW d,
         Sound(cur), Change(old, new), Grown(old, cur), ~Clashes(cur, old, new),
         MergedAs(d, cur, old, new),
         TextKept(old, new), TextIs(old), TextIs(cur)
  PROVE  TextIs(d)
<1>1. Sound(old) /\ Sound(d) /\ Grown(cur, d)
  BY CommitKeeps DEF Change
<1>2. ASSUME NEW a \in Articles
      PROVE  /\ d.art[a].text = IF new.art[a].text = old.art[a].text
                                THEN cur.art[a].text ELSE new.art[a].text
             /\ Present(old.art[a]) => Present(cur.art[a])
  BY DEF MergedAs, Grown
<1>3. ASSUME NEW a \in Articles, VersionsLeft(d, cur, old, new, a)
      PROVE  /\ \A k \in 1..Versions[a] :
                  SavedVersions(d, a) = 1..k =>
                    Version(d, a, k).text.body = d.art[a].text.body
             /\ Present(d.art[a]) /\ SavedVersions(d, a) = {} =>
                  d.art[a].text.body = FirstBody
  <2>1. /\ SameVersions(old, new, a)
        /\ \A n \in 1..Versions[a] : Version(d, a, n) = Version(cur, a, n)
        /\ SavedVersions(d, a) = SavedVersions(cur, a)
    BY <1>3 DEF VersionsLeft
  <2>2. d.art[a].text = cur.art[a].text
    BY <1>2, <2>1 DEF TextKept
  <2>3. \A k \in 1..Versions[a] :
          SavedVersions(cur, a) = 1..k => Version(cur, a, k).text.body = cur.art[a].text.body
    BY DEF TextIs
  <2>4. Present(d.art[a]) /\ SavedVersions(d, a) = {} => Present(cur.art[a])
    <3>1. ASSUME ~Present(cur.art[a]), Present(d.art[a])
          PROVE  SavedVersions(d, a) # {}
      <4>1. a \notin Mapped
        BY <3>1 DEF Sound
      <4> QED
        BY <1>1, <3>1, <4>1 DEF Sound
    <3> QED
      BY <3>1
  <2>5. Present(cur.art[a]) /\ SavedVersions(cur, a) = {} => cur.art[a].text.body = FirstBody
    BY DEF TextIs
  <2> QED
    BY <2>1, <2>2, <2>3, <2>4, <2>5
<1>4. ASSUME NEW a \in Articles, NEW k \in 1..Versions[a], VersionAdded(d, cur, old, new, a, k)
      PROVE  /\ \A i \in 1..Versions[a] :
                  SavedVersions(d, a) = 1..i =>
                    Version(d, a, i).text.body = d.art[a].text.body
             /\ SavedVersions(d, a) # {}
  <2>1. /\ SavedVersions(old, a) = 1..k-1 /\ SavedVersions(cur, a) = 1..k-1
        /\ SavedVersions(d, a) = 1..k
        /\ Present(new.art[a]) /\ new.art[a].text \in Text
        /\ Version(d, a, k).text.body = new.art[a].text.body
    BY <1>4 DEF VersionAdded
  <2>2. Versions[a] \in Nat /\ k \in 1..k
    BY Keys
  <2>3. ASSUME NEW i \in 1..Versions[a], 1..k = 1..i
        PROVE  i = k
    <3>1. i \in 1..i /\ k \in 1..k
      BY <2>2
    <3> QED
      BY <2>2, <2>3, <3>1
  <2>4. new.art[a].text = old.art[a].text => cur.art[a].text.body = old.art[a].text.body
    <3>1. ASSUME old.art[a].text \in Text
          PROVE  Present(old.art[a]) /\ Present(cur.art[a])
      <4>1. NoArticle.text = None /\ None \notin Text
        BY ContentAssumption DEF NoArticle, NewArticle
      <4>2. ~Present(old.art[a]) => old.art[a] = NoArticle
        BY <1>1 DEF Sound
      <4> QED
        BY <1>2, <3>1, <4>1, <4>2
    <3>2. CASE k = 1
      <4>1. SavedVersions(old, a) = {} /\ SavedVersions(cur, a) = {}
        BY <2>1, <3>2
      <4> QED
        BY <2>1, <3>1, <4>1 DEF TextIs
    <3>3. CASE k # 1
      <4>1. k-1 \in 1..Versions[a] /\ k-1 \in 1..k-1
        BY <2>2, <3>3
      <4>2. /\ Version(old, a, k-1).text.body = old.art[a].text.body
            /\ Version(cur, a, k-1).text.body = cur.art[a].text.body
        BY <2>1, <4>1 DEF TextIs
      <4>3. Version(cur, a, k-1) = Version(old, a, k-1)
        BY <2>1, <4>1 DEF Grown
      <4> QED
        BY <4>2, <4>3
    <3> QED
      BY <3>2, <3>3
  <2>5. d.art[a].text.body = new.art[a].text.body
    BY <1>2, <2>4
  <2> QED
    BY <2>1, <2>2, <2>3, <2>5
<1>5. ASSUME NEW a \in Articles
      PROVE  /\ \A k \in 1..Versions[a] :
                  SavedVersions(d, a) = 1..k =>
                    Version(d, a, k).text.body = d.art[a].text.body
             /\ Present(d.art[a]) /\ SavedVersions(d, a) = {} =>
                  d.art[a].text.body = FirstBody
  BY <1>3, <1>4, CommitVersions
<1> QED
  BY <1>5 DEF TextIs

\* A text that only a submission changes keeps its body, and so its version.
LEMMA SubmittedText ==
  ASSUME NEW old, NEW new, Change(old, new), TextIs(old),
         \A a \in Articles : SameVersions(old, new, a)
  PROVE  TextIs(new)
<1>1. ASSUME NEW a \in Articles
      PROVE  /\ \A k \in 1..Versions[a] :
                  SavedVersions(new, a) = 1..k =>
                    Version(new, a, k).text.body = new.art[a].text.body
             /\ Present(new.art[a]) /\ SavedVersions(new, a) = {} =>
                  new.art[a].text.body = FirstBody
  <2>1. /\ \A n \in 1..Versions[a] : Version(new, a, n) = Version(old, a, n)
        /\ Present(new.art[a]) <=> Present(old.art[a])
        /\ new.art[a].text.body = old.art[a].text.body
    BY DEF SameVersions
  <2>2. SavedVersions(new, a) = SavedVersions(old, a)
    BY <2>1, SameSaved
  <2> QED
    BY <2>1, <2>2 DEF TextIs
<1> QED
  BY <1>1 DEF TextIs

\* Groups stay as they are under a commit of another kind of request.
LEMMA CommitGroups ==
  ASSUME NEW cur, NEW old, NEW new, NEW d,
         Sound(cur), Grown(cur, d), MergedAs(d, cur, old, new),
         GroupsKept(old, new), Grouped(cur)
  PROVE  Grouped(d)
<1>1. \A a \in Articles : d.art[a].group = cur.art[a].group /\ d.art[a].pos = cur.art[a].pos
  BY DEF MergedAs, GroupsKept
<1>2. ASSUME NEW g \in Groups
      PROVE  Members(d, g) = Members(cur, g)
  <2>1. ASSUME NEW a \in Articles, cur.art[a].group = g
        PROVE  Present(d.art[a]) <=> Present(cur.art[a])
    <3>1. NoArticle.group = None /\ g # None
      BY ContentAssumption DEF NoArticle, NewArticle
    <3>2. Present(cur.art[a])
      BY <2>1, <3>1 DEF Sound
    <3> QED
      BY <3>2 DEF Grown
  <2> QED
    BY <1>1, <2>1 DEF Members
<1>3. \A g \in Groups : \A a \in Members(d, g) : a \in Articles
  BY DEF Members
<1> QED
  BY <1>1, <1>2, <1>3 DEF Grouped

\* So do covers, if the materials are those the request has read.
LEMMA CommitCovers ==
  ASSUME NEW cur, NEW old, NEW new, NEW d,
         MergedAs(d, cur, old, new), CoversKept(old, new), old.mat = cur.mat, Covered(cur)
  PROVE  Covered(d) /\ d.mat = cur.mat
<1>1. d.mat = cur.mat
  BY DEF MergedAs, CoversKept
<1>2. ASSUME NEW a \in Articles, d.art[a].cover # None
      PROVE  d.mat[d.art[a].cover].status = "STORED"
  <2>1. d.art[a].cover = IF new.art[a].cover = old.art[a].cover
                         THEN cur.art[a].cover ELSE new.art[a].cover
    BY DEF MergedAs
  <2>2. \/ new.art[a].cover \in {None, old.art[a].cover}
        \/ old.mat[new.art[a].cover].status = "STORED"
    BY DEF CoversKept
  <2>3. cur.art[a].cover # None => cur.mat[cur.art[a].cover].status = "STORED"
    BY DEF Covered
  <2> QED
    BY <1>1, <1>2, <2>1, <2>2, <2>3
<1> QED
  BY <1>1, <1>2 DEF Covered

-----------------------------------------------------------------------------
(* What the steps of a request keep *)

\* The tables d that a request makes of db, which has read old and makes it new:
\* a request of a kind that overlaps no other has read db and makes it d.
LEMMA Moves ==
  ASSUME ContentInv, NEW kind, NEW old, NEW new, NEW d,
         Effect(kind, old, new), Grown(old, db), ~Clashes(db, old, new),
         MergedAs(d, db, old, new),
         kind \in Alone => old = db /\ d = new,
         "submit" \in Alone => TextIs(old),
         "material" \in Alone => old.mat = db.mat
  PROVE  /\ Sound(d) /\ Grown(db, d)
         /\ "submit" \in Alone => TextIs(d)
         /\ "group" \in Alone => Grouped(d)
         /\ "material" \in Alone => Covered(d) /\ (kind # "material" => d.mat = db.mat)
<1>1. Sound(db) /\ Change(old, new)
  BY DEF ContentInv, Effect
<1>2. Sound(d) /\ Grown(db, d)
  BY <1>1, CommitKeeps
<1>3. ASSUME "submit" \in Alone
      PROVE  TextIs(d)
  <2>1. TextIs(db)
    BY <1>3 DEF ContentInv
  <2>2. CASE kind = "submit"
    <3>1. \A a \in Articles : SameVersions(old, new, a)
      BY <2>2 DEF Effect
    <3> QED
      BY <1>1, <1>3, <2>1, <2>2, <3>1, SubmittedText
  <2>3. CASE kind # "submit"
    <3>1. TextKept(old, new)
      BY <2>3 DEF Effect
    <3> QED
      BY <1>1, <1>3, <2>1, <3>1, CommitText
  <2> QED
    BY <2>2, <2>3
<1>4. ASSUME "group" \in Alone
      PROVE  Grouped(d)
  <2>1. Grouped(db)
    BY <1>4 DEF ContentInv
  <2>2. CASE kind = "group"
    BY <1>4, <2>1, <2>2 DEF Effect
  <2>3. CASE kind # "group"
    <3>1. GroupsKept(old, new)
      BY <2>3 DEF Effect
    <3> QED
      BY <1>1, <1>2, <2>1, <3>1, CommitGroups
  <2> QED
    BY <2>2, <2>3
<1>5. ASSUME "material" \in Alone
      PROVE  Covered(d) /\ (kind # "material" => d.mat = db.mat)
  <2>1. Covered(db)
    BY <1>5 DEF ContentInv
  <2>2. CASE kind = "material"
    BY <1>5, <2>1, <2>2 DEF Effect
  <2>3. CASE kind # "material"
    <3>1. CoversKept(old, new)
      BY <2>3 DEF Effect
    <3> QED
      BY <1>5, <2>1, <3>1, CommitCovers
  <2> QED
    BY <2>2, <2>3
<1> QED
  BY <1>2, <1>3, <1>4, <1>5

LEMMA GrownOn ==
  ASSUME NEW old, NEW cur, NEW d, Grown(old, cur), Grown(cur, d)
  PROVE  Grown(old, d)
<1>1. ASSUME NEW a \in Articles
      PROVE  /\ Present(old.art[a]) => Present(d.art[a])
             /\ \A n \in SavedVersions(old, a) :
                  n \in SavedVersions(d, a) /\ Version(d, a, n) = Version(old, a, n)
  BY DEF Grown
<1> QED
  BY <1>1 DEF Grown

\* A step of db that leaves the requests as they are, or ends one of them.
LEMMA Stays ==
  ASSUME ContentInv, Sound(db'), Grown(db, db'),
         "submit" \in Alone => TextIs(db'),
         "group" \in Alone => Grouped(db'),
         "material" \in Alone => Covered(db'),
         sess' \in [Requests -> {NoRequest} \cup [kind: Kinds, seen: Tables, new: Tables]],
         \A s \in Requests : sess'[s] = sess[s] \/ sess'[s] = NoRequest,
         "material" \in Alone =>
           db'.mat = db.mat \/ \A s \in Requests : sess'[s] = NoRequest
  PROVE  ContentInv' /\ Grown(db, db')
<1>1. ASSUME NEW s \in Requests, ~Idle(s)'
      PROVE  sess'[s] = sess[s] /\ ~Idle(s) /\ sess'[s] # NoRequest
  BY <1>1 DEF Idle, NoRequest
<1>2. ASSUME NEW s \in Requests, ~Idle(s)'
      PROVE  /\ sess'[s].kind \notin Alone
             /\ Effect(sess'[s].kind, sess'[s].seen, sess'[s].new)
             /\ Grown(sess'[s].seen, db')
  <2>1. /\ sess[s].kind \notin Alone
        /\ Effect(sess[s].kind, sess[s].seen, sess[s].new)
        /\ Grown(sess[s].seen, db)
    BY <1>1, <1>2 DEF ContentInv, RequestsOK
  <2> QED
    BY <1>1, <1>2, <2>1, GrownOn
<1>3. RequestsOK'
  BY <1>2 DEF RequestsOK
<1>4. ASSUME "submit" \in Alone, NEW s \in Requests, ~Idle(s)'
      PROVE  TextIs(sess'[s].seen)
  BY <1>1, <1>4 DEF ContentInv
<1>5. ASSUME "material" \in Alone, NEW s \in Requests, ~Idle(s)'
      PROVE  sess'[s].seen.mat = db'.mat
  BY <1>1, <1>5 DEF ContentInv
<1> QED
  BY <1>3, <1>4, <1>5 DEF ContentInv

LEMMA CommitStep ==
  ASSUME ContentInv, NEW s \in Requests, Commit(s)
  PROVE  ContentInv' /\ Grown(db, db')
<1> DEFINE old == sess[s].seen
           new == sess[s].new
<1>1. /\ ~Idle(s) /\ ~Duplicate(s)
      /\ db' = Merge(db, old, new) /\ sess' = [sess EXCEPT ![s] = NoRequest]
  BY DEF Commit, CommitUnless
<1>2. /\ sess[s].kind \notin Alone
      /\ Effect(sess[s].kind, old, new) /\ Grown(old, db)
      /\ sess \in [Requests -> {NoRequest} \cup [kind: Kinds, seen: Tables, new: Tables]]
      /\ "submit" \in Alone => TextIs(old)
      /\ "material" \in Alone => old.mat = db.mat
  BY <1>1 DEF ContentInv, RequestsOK
<1>3. ~Clashes(db, old, new)
  BY <1>1 DEF Duplicate, Clashes
<1>4. MergedAs(db', db, old, new)
  <2>1. db \in Tables /\ old \in Tables /\ new \in Tables
    BY <1>2 DEF ContentInv, Sound, Effect, Change
  <2> QED
    BY <1>1, <2>1, Merged
<1> HIDE DEF old, new
<1>5. /\ Sound(db') /\ Grown(db, db')
      /\ "submit" \in Alone => TextIs(db')
      /\ "group" \in Alone => Grouped(db')
      /\ "material" \in Alone => Covered(db') /\ (sess[s].kind # "material" => db'.mat = db.mat)
  BY <1>2, <1>3, <1>4, Moves
<1>6. /\ sess' \in [Requests -> {NoRequest} \cup [kind: Kinds, seen: Tables, new: Tables]]
      /\ \A r \in Requests : sess'[r] = sess[r] \/ sess'[r] = NoRequest
  BY <1>1, <1>2
<1> QED
  BY <1>2, <1>5, <1>6, Stays

LEMMA AbortStep ==
  ASSUME ContentInv, NEW s \in Requests, Abort(s)
  PROVE  ContentInv' /\ Grown(db, db')
<1>1. /\ sess' = [sess EXCEPT ![s] = NoRequest] /\ db' = db
      /\ sess \in [Requests -> {NoRequest} \cup [kind: Kinds, seen: Tables, new: Tables]]
  BY DEF Abort, ContentInv, RequestsOK
<1>2. /\ sess' \in [Requests -> {NoRequest} \cup [kind: Kinds, seen: Tables, new: Tables]]
      /\ \A r \in Requests : sess'[r] = sess[r] \/ sess'[r] = NoRequest
  BY <1>1
<1>3. Grown(db, db)
  BY DEF Grown
<1> QED
  BY <1>1, <1>2, <1>3, Stays DEF ContentInv

\* A step that replaces the tables at once.
LEMMA ReplaceStep ==
  ASSUME ContentInv, NEW kind, NEW new, Effect(kind, db, new),
         db' = new, sess' = sess,
         kind = "material" => \A s \in Requests : Idle(s)
  PROVE  ContentInv' /\ Grown(db, db')
<1>1. MergedAs(new, db, db, new) /\ ~Clashes(db, db, new) /\ Grown(db, db)
  BY OwnChange DEF Effect
<1>2. "submit" \in Alone => TextIs(db)
  BY DEF ContentInv
<1>3. /\ Sound(db') /\ Grown(db, db')
      /\ "submit" \in Alone => TextIs(db')
      /\ "group" \in Alone => Grouped(db')
      /\ "material" \in Alone => Covered(db') /\ (kind # "material" => db'.mat = db.mat)
  BY <1>1, <1>2, Moves
<1>4. sess \in [Requests -> {NoRequest} \cup [kind: Kinds, seen: Tables, new: Tables]]
  BY DEF ContentInv, RequestsOK
<1>5. ASSUME kind = "material", NEW s \in Requests
      PROVE  sess'[s] = NoRequest
  <2>1. Idle(s) /\ sess[s] \in {NoRequest} \cup [kind: Kinds, seen: Tables, new: Tables]
    BY <1>4, <1>5
  <2> QED
    BY <2>1 DEF Idle, Kinds
<1> QED
  BY <1>3, <1>4, <1>5, Stays

\* A request whose checks have passed.
LEMMA RequestKeeps ==
  ASSUME ContentInv, NEW s \in Requests, NEW kind \in Kinds, NEW new,
         Effect(kind, db, new), Request(s, kind, new)
  PROVE  ContentInv' /\ Grown(db, db')
<1>1. CASE RunAlone(new)
  BY <1>1, ReplaceStep DEF RunAlone
<1>2. CASE kind \notin Alone /\ Open(s, kind, new)
  <2> DEFINE k == [kind |-> kind, seen |-> db, new |-> new]
  <2>1. /\ sess' = [sess EXCEPT ![s] = k] /\ db' = db
        /\ sess \in [Requests -> {NoRequest} \cup [kind: Kinds, seen: Tables, new: Tables]]
    BY <1>2 DEF Open, ContentInv, RequestsOK
  <2>2. /\ k \in [kind: Kinds, seen: Tables, new: Tables]
        /\ k.kind = kind /\ k.seen = db /\ k.new = new
    BY DEF Effect, Change, Sound
  <2> HIDE DEF k
  <2>3. /\ sess' \in [Requests -> {NoRequest} \cup [kind: Kinds, seen: Tables, new: Tables]]
        /\ sess'[s] = k /\ \A o \in Requests \ {s} : sess'[o] = sess[o]
    BY <2>1, <2>2
  <2>4. ASSUME NEW o \in Requests, ~Idle(o)'
        PROVE  /\ sess'[o].kind \notin Alone
               /\ Effect(sess'[o].kind, sess'[o].seen, sess'[o].new)
               /\ Grown(sess'[o].seen, db')
               /\ "submit" \in Alone => TextIs(sess'[o].seen)
               /\ "material" \in Alone => sess'[o].seen.mat = db'.mat
    <3>1. CASE o = s
      <4>1. Grown(db, db)
        BY DEF Grown
      <4> QED
        BY <1>2, <2>1, <2>2, <2>3, <3>1, <4>1 DEF ContentInv
    <3>2. CASE o # s
      <4>1. ~Idle(o) /\ sess'[o] = sess[o]
        BY <2>3, <2>4, <3>2 DEF Idle
      <4> QED
        BY <2>1, <4>1 DEF ContentInv, RequestsOK
    <3> QED
      BY <3>1, <3>2
  <2>5. RequestsOK'
    BY <2>3, <2>4 DEF RequestsOK
  <2>6. Grown(db, db')
    BY <2>1 DEF Grown
  <2> QED
    BY <2>1, <2>4, <2>5, <2>6 DEF ContentInv
<1> QED
  BY <1>1, <1>2 DEF Request

-----------------------------------------------------------------------------
(* What the requests of articles change *)

LEMMA NextNo ==
  ASSUME NEW d, Sound(d), NEW a \in Articles
  PROVE  /\ NextVersionNo(d, a) \in Nat \ {0}
         /\ SavedVersions(d, a) = 1..NextVersionNo(d, a) - 1
<1>1. PICK k \in 0..Versions[a] : SavedVersions(d, a) = 1..k
  BY DEF Sound
<1>2. k \in Nat
  BY Keys
<1>3. Max({0} \cup 1..k) = k
  <2>1. k \in {0} \cup 1..k /\ \A i \in {0} \cup 1..k : i <= k
    BY <1>2
  <2>2. \A i \in {0} \cup 1..k : i \in Int /\ (k <= i => i = k)
    BY <1>2
  <2> QED
    BY <2>1, <2>2 DEF Max
<1> QED
  BY <1>1, <1>2, <1>3 DEF NextVersionNo

\* The rows of a table of versions after one was saved.
LEMMA SavedRow ==
  ASSUME NEW d \in Tables, NEW new \in Tables, NEW a \in Articles, NEW k \in 1..Versions[a],
         NEW t, new.ver = [d.ver EXCEPT ![<<a, k>>] = [status |-> "SAVED", text |-> t]]
  PROVE  /\ Version(new, a, k) = [status |-> "SAVED", text |-> t]
         /\ \A n \in (1..Versions[a]) \ {k} : Version(new, a, n) = Version(d, a, n)
         /\ \A b \in Articles \ {a} : \A n \in 1..Versions[b] :
              Version(new, b, n) = Version(d, b, n)
<1>1. d.ver \in [VersionKeys -> VerRow]
  BY Parts
<1>2. <<a, k>> \in VersionKeys
  BY Keys
<1>3. ASSUME NEW b \in Articles, NEW n \in 1..Versions[b], <<b, n>> # <<a, k>>
      PROVE  Version(new, b, n) = Version(d, b, n)
  <2>1. <<b, n>> \in VersionKeys
    BY Keys
  <2> QED
    BY <1>1, <1>3, <2>1 DEF Version
<1> QED
  BY <1>1, <1>2, <1>3 DEF Version

\* A save of article a takes the next version, that of the text it leaves.
LEMMA VersionTaken ==
  ASSUME NEW d, Sound(d), NEW new \in Tables, NEW a \in Articles,
         NEW k \in 1..Versions[a], k = NextVersionNo(d, a), NEW t \in Text,
         new.ver = [d.ver EXCEPT ![<<a, k>>] = [status |-> "SAVED", text |-> t]],
         new.art[a].text = t, Present(new.art[a]),
         ~Present(d.art[a]) => new.art[a].group = None /\ new.art[a].pos = 0,
         \A b \in Articles \ {a} : new.art[b] = d.art[b]
  PROVE  Change(d, new) /\ TextKept(d, new)
<1>1. d \in Tables /\ SavedVersions(d, a) = 1..k-1 /\ Versions[a] \in Nat
  BY NextNo, Keys DEF Sound
<1>2. /\ Version(new, a, k) = [status |-> "SAVED", text |-> t]
      /\ \A n \in (1..Versions[a]) \ {k} : Version(new, a, n) = Version(d, a, n)
      /\ \A b \in Articles \ {a} : \A n \in 1..Versions[b] :
           Version(new, b, n) = Version(d, b, n)
  BY <1>1, SavedRow
<1>3. NewVersion(d, new, a)
  BY <1>1, <1>2 DEF NewVersion
<1>4. ~SameVersions(d, new, a)
  <2>1. k \notin 1..k-1
    BY <1>1
  <2>2. Version(d, a, k).status # "SAVED"
    BY <1>1, <2>1, SavedIs
  <2> QED
    BY <1>2, <2>2 DEF SameVersions
<1>5. \A b \in Articles \ {a} : SameVersions(d, new, b)
  BY <1>2 DEF SameVersions
<1>6. Change(d, new)
  BY <1>3, <1>5 DEF Change
<1> QED
  BY <1>4, <1>6 DEF TextKept

\* A request that saves no version and leaves the bodies of the texts.
LEMMA NoVersionTaken ==
  ASSUME NEW d, Sound(d), NEW new \in Tables, new.ver = d.ver,
         \A a \in Articles :
           /\ Present(new.art[a]) <=> Present(d.art[a])
           /\ ~Present(new.art[a]) => new.art[a] = d.art[a]
           /\ new.art[a].text # d.art[a].text =>
                /\ Present(d.art[a]) /\ new.art[a].text \in Text
                /\ new.art[a].text.body = d.art[a].text.body
  PROVE  Change(d, new) /\ \A a \in Articles : SameVersions(d, new, a)
<1>1. \A a \in Articles : SameVersions(d, new, a)
  BY DEF SameVersions, Version
<1> QED
  BY <1>1 DEF Change

\* The tables after Saved.
LEMMA SavedTables ==
  ASSUME NEW d \in Tables, NEW a \in Articles, NEW t \in Text,
         NEW k \in 1..Versions[a], k = NextVersionNo(d, a)
  PROVE  LET new == Saved(d, a, t)
         IN  /\ new \in Tables
             /\ new.art = [d.art EXCEPT ![a].text = t]
             /\ new.ver = [d.ver EXCEPT ![<<a, k>>] = [status |-> "SAVED", text |-> t]]
             /\ new.mat = d.mat
<1> DEFINE e == [d EXCEPT !.art[a].text = t]
           new == Saved(d, a, t)
<1>1. /\ d.art \in [Articles -> ArtRow] /\ d.ver \in [VersionKeys -> VerRow]
      /\ d.mat \in [Materials -> MatRow] /\ d.ref \in [Materials \X Accounts -> RefRow]
      /\ d.group \in [Groups -> GroupRow] /\ d.mp \in [Accounts -> AccountRow]
      /\ d \in [art: {d.art}, ver: {d.ver}, mat: {d.mat}, ref: {d.ref},
                group: {d.group}, mp: {d.mp}]
  BY DEF Tables
<1>2. /\ e.art = [d.art EXCEPT ![a].text = t] /\ e.ver = d.ver /\ e.mat = d.mat
      /\ e.ref = d.ref /\ e.group = d.group /\ e.mp = d.mp
      /\ e = [art |-> e.art, ver |-> e.ver, mat |-> e.mat, ref |-> e.ref,
              group |-> e.group, mp |-> e.mp]
  BY <1>1
<1>3. e.art[a].text = t
  BY <1>1, <1>2 DEF ArtRow
<1>4. NextVersionNo(e, a) = k
  BY <1>2 DEF NextVersionNo, SavedVersions
<1>5. new = [e EXCEPT !.ver[<<a, k>>] = [status |-> "SAVED", text |-> t]]
  BY <1>3, <1>4 DEF Saved, Snapshot
<1> HIDE DEF e, new
<1>6. /\ new.art = e.art /\ new.mat = e.mat
      /\ new.ref = e.ref /\ new.group = e.group /\ new.mp = e.mp
      /\ new.ver = [e.ver EXCEPT ![<<a, k>>] = [status |-> "SAVED", text |-> t]]
      /\ new = [art |-> new.art, ver |-> new.ver, mat |-> new.mat, ref |-> new.ref,
                group |-> new.group, mp |-> new.mp]
  BY <1>2, <1>5
<1>7. new.art \in [Articles -> ArtRow]
  <2>1. [d.art[a] EXCEPT !.text = t] \in ArtRow
    BY <1>1 DEF ArtRow
  <2>2. new.art = [d.art EXCEPT ![a] = [d.art[a] EXCEPT !.text = t]]
    BY <1>2, <1>6
  <2> QED
    BY <1>1, <2>1, <2>2
<1>8. new.ver \in [VersionKeys -> VerRow]
  <2>1. [status |-> "SAVED", text |-> t] \in VerRow
    BY DEF VerRow
  <2>2. new.ver = [d.ver EXCEPT ![<<a, k>>] = [status |-> "SAVED", text |-> t]]
    BY <1>2, <1>6
  <2> QED
    BY <1>1, <2>1, <2>2
<1>9. new \in Tables
  BY <1>1, <1>2, <1>6, <1>7, <1>8 DEF Tables
<1> QED
  BY <1>2, <1>6, <1>9 DEF new

\* A save of article a over the tables e, which differ from db in its row only.
LEMMA SaveEffect ==
  ASSUME Sound(db), NEW a \in Articles, MayVersion(a), NEW t \in Text,
         NEW e \in Tables, e.ver = db.ver, e.mat = db.mat,
         \A b \in Articles \ {a} : e.art[b] = db.art[b],
         Present(e.art[a]),
         e.art[a].group = db.art[a].group, e.art[a].pos = db.art[a].pos,
         \/ e.art[a].cover \in {None, db.art[a].cover}
         \/ db.mat[e.art[a].cover].status = "STORED",
         NEW kind, kind \notin {"submit", "group", "material"}
  PROVE  Effect(kind, db, Saved(e, a, t))
<1> DEFINE k == NextVersionNo(db, a)
           new == Saved(e, a, t)
<1>1. k \in 1..Versions[a] /\ k = NextVersionNo(e, a)
  <2>1. k \in Nat \ {0} /\ k <= Versions[a] /\ Versions[a] \in Nat
    BY NextNo, Keys DEF MayVersion
  <2>2. k = NextVersionNo(e, a)
    BY DEF NextVersionNo, SavedVersions
  <2> QED
    BY <2>1, <2>2
<1> HIDE DEF k
<1>2. /\ new \in Tables
      /\ new.art = [e.art EXCEPT ![a].text = t]
      /\ new.ver = [db.ver EXCEPT ![<<a, k>>] = [status |-> "SAVED", text |-> t]]
      /\ new.mat = db.mat
  BY <1>1, SavedTables
<1> HIDE DEF new
<1>3. e.art \in [Articles -> ArtRow]
  BY Parts
<1>4. /\ new.art[a].text = t /\ new.art[a].status = e.art[a].status
      /\ new.art[a].group = e.art[a].group /\ new.art[a].pos = e.art[a].pos
      /\ new.art[a].cover = e.art[a].cover
      /\ \A b \in Articles \ {a} : new.art[b] = db.art[b]
  BY <1>2, <1>3 DEF ArtRow
<1>5. Present(new.art[a])
  BY <1>4 DEF Present
<1>6. ~Present(db.art[a]) => new.art[a].group = None /\ new.art[a].pos = 0
  BY <1>4 DEF Sound, NoArticle, NewArticle
<1>7. Change(db, new) /\ TextKept(db, new)
  <2>1. k = NextVersionNo(db, a)
    BY DEF k
  <2>2. /\ k \in 1..Versions[a] /\ new \in Tables /\ new.art[a].text = t
        /\ new.ver = [db.ver EXCEPT ![<<a, k>>] = [status |-> "SAVED", text |-> t]]
    BY <1>1, <1>2, <1>4
  <2>3. \A b \in Articles \ {a} : new.art[b] = db.art[b]
    BY <1>4
  <2> QED
    BY <1>5, <1>6, <2>1, <2>2, <2>3, VersionTaken
<1>8. GroupsKept(db, new)
  BY <1>4 DEF GroupsKept
<1>9. CoversKept(db, new)
  <2>1. ASSUME NEW b \in Articles
        PROVE  \/ new.art[b].cover \in {None, db.art[b].cover}
               \/ db.mat[new.art[b].cover].status = "STORED"
    BY <1>4
  <2> QED
    BY <1>2, <2>1 DEF CoversKept
<1> QED
  BY <1>7, <1>8, <1>9 DEF Effect, new

\* The tables after an article has been given a cover.
LEMMA CoverSet ==
  ASSUME Sound(db), NEW a \in Articles, NEW c \in CoverChoices
  PROVE  LET e == [db EXCEPT !.art[a].cover = c]
         IN  /\ e \in Tables
             /\ e.art = [db.art EXCEPT ![a].cover = c]
             /\ e.ver = db.ver /\ e.mat = db.mat
             /\ e.art[a] = [db.art[a] EXCEPT !.cover = c]
             /\ \A b \in Articles \ {a} : e.art[b] = db.art[b]
             /\ c = None \/ db.mat[c].status = "STORED"
<1> DEFINE e == [db EXCEPT !.art[a].cover = c]
<1>1. /\ db.art \in [Articles -> ArtRow] /\ db.ver \in [VersionKeys -> VerRow]
      /\ db.mat \in [Materials -> MatRow] /\ db.ref \in [Materials \X Accounts -> RefRow]
      /\ db.group \in [Groups -> GroupRow] /\ db.mp \in [Accounts -> AccountRow]
      /\ db \in [art: {db.art}, ver: {db.ver}, mat: {db.mat}, ref: {db.ref},
                 group: {db.group}, mp: {db.mp}]
  BY DEF Sound, Tables
<1>2. /\ e.art = [db.art EXCEPT ![a] = [db.art[a] EXCEPT !.cover = c]]
      /\ e.art = [db.art EXCEPT ![a].cover = c]
      /\ e.ver = db.ver /\ e.mat = db.mat
      /\ e.ref = db.ref /\ e.group = db.group /\ e.mp = db.mp
      /\ e = [art |-> e.art, ver |-> e.ver, mat |-> e.mat, ref |-> e.ref,
              group |-> e.group, mp |-> e.mp]
  BY <1>1
<1>3. c \in Materials \cup {None} /\ (c = None \/ db.mat[c].status = "STORED")
  BY DEF CoverChoices, Stored
<1> HIDE DEF e
<1>4. e.art \in [Articles -> ArtRow]
  <2>1. [db.art[a] EXCEPT !.cover = c] \in ArtRow
    BY <1>1, <1>3 DEF ArtRow
  <2> QED
    BY <1>1, <1>2, <2>1
<1>5. e \in Tables
  BY <1>1, <1>2, <1>4 DEF Tables
<1>6. /\ e.art[a] = [db.art[a] EXCEPT !.cover = c]
      /\ \A b \in Articles \ {a} : e.art[b] = db.art[b]
  BY <1>1, <1>2
<1> QED
  BY <1>2, <1>3, <1>5, <1>6 DEF e

LEMMA CreateArticleStep ==
  ASSUME ContentInv, NEW s \in Requests, NEW a \in Articles, CreateArticle(s, a)
  PROVE  ContentInv' /\ Grown(db, db')
<1>1. PICK b \in Bodies, c \in CoverChoices :
        Request(s, "create",
                Saved([db EXCEPT !.art[a] = [NewArticle(None) EXCEPT !.cover = c]],
                      a, [body |-> b, wx |-> FALSE]))
  BY DEF CreateArticle
<1> DEFINE row == [NewArticle(None) EXCEPT !.cover = c]
           e == [db EXCEPT !.art[a] = row]
           t == [body |-> b, wx |-> FALSE]
<1>2. /\ Sound(db) /\ MayVersion(a) /\ ~Present(db.art[a])
  BY DEF CreateArticle, ContentInv
<1>3. /\ db.art \in [Articles -> ArtRow] /\ db.ver \in [VersionKeys -> VerRow]
      /\ db.mat \in [Materials -> MatRow] /\ db.ref \in [Materials \X Accounts -> RefRow]
      /\ db.group \in [Groups -> GroupRow] /\ db.mp \in [Accounts -> AccountRow]
      /\ db \in [art: {db.art}, ver: {db.ver}, mat: {db.mat}, ref: {db.ref},
                 group: {db.group}, mp: {db.mp}]
  BY <1>2 DEF Sound, Tables
<1>4. /\ c \in Materials \cup {None} /\ (c = None \/ db.mat[c].status = "STORED")
      /\ t \in Text
  BY DEF CoverChoices, Stored, Text
<1>5. /\ row.status = "TRANSFORMED" /\ row.group = None /\ row.pos = 0 /\ row.cover = c
      /\ row \in ArtRow
  BY <1>4 DEF NewArticle, ArtRow, ArticleStatus
<1> HIDE DEF row, t
<1>6. /\ e.art = [db.art EXCEPT ![a] = row]
      /\ e.ver = db.ver /\ e.mat = db.mat
      /\ e.ref = db.ref /\ e.group = db.group /\ e.mp = db.mp
      /\ e = [art |-> e.art, ver |-> e.ver, mat |-> e.mat, ref |-> e.ref,
              group |-> e.group, mp |-> e.mp]
  BY <1>3
<1>7. Request(s, "create", Saved(e, a, t))
  BY <1>1 DEF row, t
<1> HIDE DEF e
<1>8. e \in Tables
  BY <1>3, <1>5, <1>6 DEF Tables
<1>9. e.art[a] = row /\ \A i \in Articles \ {a} : e.art[i] = db.art[i]
  BY <1>3, <1>6
<1>10. db.art[a].group = None /\ db.art[a].pos = 0
  BY <1>2 DEF Sound, NoArticle, NewArticle
<1>11. Effect("create", db, Saved(e, a, t))
  <2>1. Present(e.art[a])
    BY <1>5, <1>9 DEF Present
  <2> QED
    BY <1>2, <1>4, <1>5, <1>6, <1>8, <1>9, <1>10, <2>1, SaveEffect
<1> QED
  BY <1>7, <1>11, RequestKeeps DEF Kinds

LEMMA UpdateArticleStep ==
  ASSUME ContentInv, NEW s \in Requests, NEW a \in Articles, UpdateArticle(s, a)
  PROVE  ContentInv' /\ Grown(db, db')
<1> DEFINE Covering(c) == IF c = None THEN db ELSE [db EXCEPT !.art[a].cover = c]
           Kind(c) == IF c = None THEN "edit" ELSE "cover"
<1>1. PICK c \in CoverChoices :
        \/ c # None /\ Request(s, Kind(c), Covering(c))
        \/ /\ MayVersion(a)
           /\ \E b \in Bodies, wx \in {FALSE, db.art[a].text.wx} :
                Request(s, Kind(c), Saved(Covering(c), a, [body |-> b, wx |-> wx]))
  BY DEF UpdateArticle
<1> DEFINE e == Covering(c)
           kind == Kind(c)
<1>2. /\ Sound(db) /\ db \in Tables /\ Present(db.art[a]) /\ db.art \in [Articles -> ArtRow]
      /\ db.art[a].text \in Text
  BY DEF ContentInv, Sound, Tables, UpdateArticle, Editable, EditableStatuses, Present
<1>3. kind \in Kinds /\ kind \notin {"submit", "group", "material"}
  BY DEF Kinds
<1>4. /\ e \in Tables /\ e.ver = db.ver /\ e.mat = db.mat
      /\ \A b \in Articles \ {a} : e.art[b] = db.art[b]
      /\ Present(e.art[a]) /\ e.art[a].text = db.art[a].text
      /\ e.art[a].group = db.art[a].group /\ e.art[a].pos = db.art[a].pos
      /\ \/ e.art[a].cover \in {None, db.art[a].cover}
         \/ db.mat[e.art[a].cover].status = "STORED"
  <2>1. CASE c = None
    BY <1>2, <2>1
  <2>2. CASE c # None
    <3> DEFINE f == [db EXCEPT !.art[a].cover = c]
    <3>1. e = f
      BY <2>2
    <3>2. /\ f \in Tables /\ f.ver = db.ver /\ f.mat = db.mat
          /\ f.art[a] = [db.art[a] EXCEPT !.cover = c]
          /\ \A b \in Articles \ {a} : f.art[b] = db.art[b]
          /\ c = None \/ db.mat[c].status = "STORED"
      BY <1>2, CoverSet
    <3> HIDE DEF e, f
    <3>3. /\ f.art[a].status = db.art[a].status /\ f.art[a].text = db.art[a].text
          /\ f.art[a].group = db.art[a].group /\ f.art[a].pos = db.art[a].pos
          /\ f.art[a].cover = c
      BY <1>2, <3>2 DEF ArtRow
    <3> QED
      BY <1>2, <2>2, <3>1, <3>2, <3>3 DEF Present
  <2> QED
    BY <2>1, <2>2
<1> HIDE DEF e, kind, Covering, Kind
<1>5. CASE Request(s, kind, e)
  <2>1. /\ Change(db, e) /\ \A b \in Articles : SameVersions(db, e, b)
    BY <1>2, <1>4, NoVersionTaken
  <2>2. TextKept(db, e) /\ GroupsKept(db, e)
    BY <1>4 DEF TextKept, GroupsKept
  <2>3. CoversKept(db, e)
    <3>1. ASSUME NEW b \in Articles
          PROVE  \/ e.art[b].cover \in {None, db.art[b].cover}
                 \/ db.mat[e.art[b].cover].status = "STORED"
      BY <1>4
    <3> QED
      BY <1>4, <3>1 DEF CoversKept
  <2>4. Effect(kind, db, e)
    BY <1>3, <2>1, <2>2, <2>3 DEF Effect
  <2> QED
    BY <1>3, <1>5, <2>4, RequestKeeps
<1>6. CASE /\ MayVersion(a)
           /\ \E b \in Bodies, wx \in {FALSE, db.art[a].text.wx} :
                Request(s, kind, Saved(e, a, [body |-> b, wx |-> wx]))
  <2>1. PICK t \in Text : Request(s, kind, Saved(e, a, t))
    <3>1. PICK b \in Bodies, wx \in {FALSE, db.art[a].text.wx} :
            Request(s, kind, Saved(e, a, [body |-> b, wx |-> wx]))
      BY <1>6
    <3>2. [body |-> b, wx |-> wx] \in Text
      BY <1>2 DEF Text
    <3> QED
      BY <3>1, <3>2
  <2>2. Effect(kind, db, Saved(e, a, t))
    BY <1>2, <1>3, <1>4, <1>6, SaveEffect
  <2> QED
    BY <1>3, <2>1, <2>2, RequestKeeps
<1> QED
  BY <1>1, <1>5, <1>6 DEF e, kind

\* Snapshot of a text is a save of it.
LEMMA SnapshotIs ==
  ASSUME Sound(db), NEW a \in Articles
  PROVE  Snapshot(db, a) = Saved(db, a, db.art[a].text)
<1>1. [db EXCEPT !.art[a].text = db.art[a].text] = db
  <2>1. /\ db.art \in [Articles -> ArtRow]
        /\ db \in [art: {db.art}, ver: {db.ver}, mat: {db.mat}, ref: {db.ref},
                   group: {db.group}, mp: {db.mp}]
    BY DEF Sound, Tables
  <2>2. [db.art[a] EXCEPT !.text = db.art[a].text] = db.art[a]
    BY <2>1 DEF ArtRow
  <2>3. [db.art EXCEPT ![a] = [db.art[a] EXCEPT !.text = db.art[a].text]] = db.art
    BY <2>1, <2>2
  <2> QED
    BY <2>1, <2>3
<1> QED
  BY <1>1 DEF Saved

LEMMA SaveAgainStep ==
  ASSUME ContentInv, NEW s \in Requests, NEW a \in Articles,
         CreateVersion(s, a) \/ Rollback(s, a)
  PROVE  ContentInv' /\ Grown(db, db')
<1>1. PICK kind \in {"version", "rollback"}, t \in Text :
        /\ Request(s, kind, Saved(db, a, t)) /\ MayVersion(a) /\ Present(db.art[a])
  <2>1. CASE CreateVersion(s, a)
    <3>1. /\ Present(db.art[a]) /\ MayVersion(a) /\ db.art[a].text \in Text
          /\ Request(s, "version", Saved(db, a, db.art[a].text))
      BY <2>1, SnapshotIs DEF CreateVersion, ContentInv, Sound
    <3> QED
      BY <3>1
  <2>2. CASE Rollback(s, a)
    <3>1. PICK n \in SavedVersions(db, a) : Request(s, "rollback", RolledBack(db, a, n))
      BY <2>2 DEF Rollback
    <3>2. n \in 1..Versions[a] /\ Version(db, a, n).status = "SAVED"
      BY SavedIs
    <3>3. db.ver[<<a, n>>].text \in Text
      BY <3>2 DEF ContentInv, Sound, Version
    <3>4. MayVersion(a) /\ Present(db.art[a])
      BY <2>2 DEF Rollback, Editable, EditableStatuses, Present
    <3> QED
      BY <3>1, <3>3, <3>4 DEF RolledBack
  <2> QED
    BY <2>1, <2>2
<1>2. Sound(db) /\ db \in Tables
  BY DEF ContentInv, Sound
<1>3. Effect(kind, db, Saved(db, a, t))
  BY <1>1, <1>2, SaveEffect
<1> QED
  BY <1>1, <1>3, RequestKeeps DEF Kinds

-----------------------------------------------------------------------------
(* What submissions, reviews and the accounts change *)

\* Article a of the tables e, which differ from db in the text of it and in
\* references, gets a status.
LEMMA MoveEffect ==
  ASSUME Sound(db), NEW a \in Articles, Present(db.art[a]),
         NEW e \in Tables, e.ver = db.ver, e.mat = db.mat,
         \A b \in Articles \ {a} : e.art[b] = db.art[b],
         e.art[a].text \in Text, e.art[a].text.body = db.art[a].text.body,
         e.art[a].group = db.art[a].group, e.art[a].pos = db.art[a].pos,
         e.art[a].cover = db.art[a].cover,
         NEW to \in ArticleStatus,
         NEW kind, kind \notin {"group", "material"},
         kind # "submit" => e.art[a].text = db.art[a].text
  PROVE  Effect(kind, db, [e EXCEPT !.art[a].status = to])
<1> DEFINE new == [e EXCEPT !.art[a].status = to]
<1>1. /\ e.art \in [Articles -> ArtRow] /\ e.ver \in [VersionKeys -> VerRow]
      /\ e.mat \in [Materials -> MatRow] /\ e.ref \in [Materials \X Accounts -> RefRow]
      /\ e.group \in [Groups -> GroupRow] /\ e.mp \in [Accounts -> AccountRow]
      /\ e \in [art: {e.art}, ver: {e.ver}, mat: {e.mat}, ref: {e.ref},
                group: {e.group}, mp: {e.mp}]
  BY DEF Tables
<1>2. /\ new.art = [e.art EXCEPT ![a] = [e.art[a] EXCEPT !.status = to]]
      /\ new.ver = e.ver /\ new.mat = e.mat
      /\ new.ref = e.ref /\ new.group = e.group /\ new.mp = e.mp
      /\ new = [art |-> new.art, ver |-> new.ver, mat |-> new.mat, ref |-> new.ref,
                group |-> new.group, mp |-> new.mp]
  BY <1>1
<1> HIDE DEF new
<1>3. new.art \in [Articles -> ArtRow]
  <2>1. [e.art[a] EXCEPT !.status = to] \in ArtRow
    BY <1>1 DEF ArtRow
  <2> QED
    BY <1>1, <1>2, <2>1
<1>4. new \in Tables /\ new.ver = db.ver /\ new.mat = db.mat
  BY <1>1, <1>2, <1>3 DEF Tables
<1>5. /\ new.art[a].status = to /\ new.art[a].text = e.art[a].text
      /\ new.art[a].group = db.art[a].group /\ new.art[a].pos = db.art[a].pos
      /\ new.art[a].cover = db.art[a].cover
      /\ \A b \in Articles \ {a} : new.art[b] = db.art[b]
  BY <1>1, <1>2 DEF ArtRow
<1>6. Present(new.art[a])
  BY <1>5 DEF Present, ArticleStatus
<1>7. /\ Change(db, new) /\ \A b \in Articles : SameVersions(db, new, b)
  <2>1. ASSUME NEW b \in Articles
        PROVE  /\ Present(new.art[b]) <=> Present(db.art[b])
               /\ ~Present(new.art[b]) => new.art[b] = db.art[b]
               /\ new.art[b].text # db.art[b].text =>
                    /\ Present(db.art[b]) /\ new.art[b].text \in Text
                    /\ new.art[b].text.body = db.art[b].text.body
    BY <1>5, <1>6
  <2> QED
    BY <1>4, <2>1, NoVersionTaken
<1>8. kind # "submit" => TextKept(db, new)
  BY <1>5 DEF TextKept
<1>9. GroupsKept(db, new)
  BY <1>5 DEF GroupsKept
<1>10. CoversKept(db, new)
  <2>1. \A b \in Articles : new.art[b].cover = db.art[b].cover
    BY <1>5
  <2> QED
    BY <1>4, <2>1 DEF CoversKept
<1> QED
  BY <1>7, <1>8, <1>9, <1>10 DEF Effect, new

LEMMA ToStatus ==
  ASSUME NEW from, NEW to, <<from, to>> \in ArticleTransitions
  PROVE  to \in ArticleStatus
  BY DEF ArticleTransitions, ArticleStatus

\* The tables after the image of a text was moved to WeChat.
LEMMA TransferredTables ==
  ASSUME Sound(db), NEW a \in Articles, Present(db.art[a])
  PROVE  LET e == Transferred(db, a)
         IN  /\ e \in Tables /\ e.ver = db.ver /\ e.mat = db.mat
             /\ \A b \in Articles \ {a} : e.art[b] = db.art[b]
             /\ e.art[a].text \in Text /\ e.art[a].text.body = db.art[a].text.body
             /\ e.art[a].group = db.art[a].group /\ e.art[a].pos = db.art[a].pos
             /\ e.art[a].cover = db.art[a].cover
<1> DEFINE m == Image[db.art[a].text.body]
           x == <<m, Account[a]>>
           e == [db EXCEPT !.ref[x].status = "UPLOADED", !.art[a].text.wx = TRUE]
<1>1. /\ db.art \in [Articles -> ArtRow] /\ db.ver \in [VersionKeys -> VerRow]
      /\ db.mat \in [Materials -> MatRow] /\ db.ref \in [Materials \X Accounts -> RefRow]
      /\ db.group \in [Groups -> GroupRow] /\ db.mp \in [Accounts -> AccountRow]
      /\ db \in [art: {db.art}, ver: {db.ver}, mat: {db.mat}, ref: {db.ref},
                 group: {db.group}, mp: {db.mp}]
      /\ db.art[a].text \in Text /\ db \in Tables
  BY DEF Sound, Tables
<1>2. CASE Transferred(db, a) = db
  BY <1>1, <1>2
<1>3. CASE Transferred(db, a) = e
  <2>1. /\ e.art = [db.art EXCEPT ![a] = [db.art[a] EXCEPT !.text =
                                            [db.art[a].text EXCEPT !.wx = TRUE]]]
        /\ e.ref = [db.ref EXCEPT ![x] = [db.ref[x] EXCEPT !.status = "UPLOADED"]]
        /\ e.ver = db.ver /\ e.mat = db.mat /\ e.group = db.group /\ e.mp = db.mp
        /\ e = [art |-> e.art, ver |-> e.ver, mat |-> e.mat, ref |-> e.ref,
                group |-> e.group, mp |-> e.mp]
    <3>1. e.art = [db.art EXCEPT ![a] = [db.art[a] EXCEPT !.text =
                                            [db.art[a].text EXCEPT !.wx = TRUE]]]
      BY <1>1
    <3>2. e.ref = [db.ref EXCEPT ![x] = [db.ref[x] EXCEPT !.status = "UPLOADED"]]
      BY <1>1
    <3>3. e.ver = db.ver /\ e.mat = db.mat /\ e.group = db.group /\ e.mp = db.mp
      BY <1>1
    <3>4. e \in [art: {e.art}, ver: {e.ver}, mat: {e.mat}, ref: {e.ref},
                 group: {e.group}, mp: {e.mp}]
      BY <1>1
    <3> HIDE DEF e, x
    <3>5. e = [art |-> e.art, ver |-> e.ver, mat |-> e.mat, ref |-> e.ref,
               group |-> e.group, mp |-> e.mp]
      BY <3>4
    <3> QED
      BY <3>1, <3>2, <3>3, <3>5
  <2> HIDE DEF e, x
  <2>2. /\ [db.art[a].text EXCEPT !.wx = TRUE] \in Text
        /\ [db.art[a].text EXCEPT !.wx = TRUE].body = db.art[a].text.body
    BY <1>1 DEF Text
  <2> DEFINE t == [db.art[a].text EXCEPT !.wx = TRUE]
  <2> HIDE DEF t
  <2>3. /\ [db.art[a] EXCEPT !.text = t] \in ArtRow
        /\ [db.art[a] EXCEPT !.text = t].text = t
        /\ [db.art[a] EXCEPT !.text = t].group = db.art[a].group
        /\ [db.art[a] EXCEPT !.text = t].pos = db.art[a].pos
        /\ [db.art[a] EXCEPT !.text = t].cover = db.art[a].cover
    BY <1>1, <2>2 DEF ArtRow, t
  <2>4. e.art = [db.art EXCEPT ![a] = [db.art[a] EXCEPT !.text = t]]
    BY <2>1 DEF t
  <2>5. e.art \in [Articles -> ArtRow]
    BY <1>1, <2>3, <2>4
  <2>6. e.ref \in [Materials \X Accounts -> RefRow]
    <3>1. ASSUME x \in Materials \X Accounts
          PROVE  [db.ref[x] EXCEPT !.status = "UPLOADED"] \in RefRow
      BY <1>1, <3>1 DEF RefRow
    <3> QED
      BY <1>1, <2>1, <3>1
  <2>7. e \in Tables
    BY <1>1, <2>1, <2>5, <2>6 DEF Tables
  <2>8. e.art[a] = [db.art[a] EXCEPT !.text = t] /\ \A b \in Articles \ {a} : e.art[b] = db.art[b]
    BY <1>1, <2>4
  <2> QED
    BY <1>3, <2>1, <2>2, <2>3, <2>7, <2>8 DEF t
<1> QED
  BY <1>2, <1>3 DEF Transferred

LEMMA SubmitStep ==
  ASSUME ContentInv, NEW s \in Requests, NEW a \in Articles, SubmitArticle(s, a)
  PROVE  ContentInv' /\ Grown(db, db')
<1> DEFINE e == Transferred(db, a)
<1>1. PICK to : /\ <<e.art[a].status, to>> \in ArticleTransitions
                /\ Request(s, "submit", [e EXCEPT !.art[a].status = to])
  BY DEF SubmitArticle, Moving
<1>2. Sound(db) /\ Present(db.art[a])
  BY DEF ContentInv, SubmitArticle, Editable, EditableStatuses, Present
<1>3. to \in ArticleStatus
  BY <1>1, ToStatus
<1>4. Effect("submit", db, [e EXCEPT !.art[a].status = to])
  BY <1>2, <1>3, TransferredTables, MoveEffect
<1> QED
  BY <1>1, <1>4, RequestKeeps DEF Kinds

LEMMA AuditStep ==
  ASSUME ContentInv, NEW s \in Requests, NEW a \in Articles, Audit(s, a)
  PROVE  ContentInv' /\ Grown(db, db')
<1>1. PICK to : /\ <<db.art[a].status, to>> \in ArticleTransitions
                /\ Request(s, "audit", [db EXCEPT !.art[a].status = to])
  BY DEF Audit, Moving
<1>2. Sound(db) /\ db \in Tables /\ Present(db.art[a]) /\ db.art[a].text \in Text
  BY DEF ContentInv, Sound, Audit, Present
<1>3. to \in ArticleStatus
  BY <1>1, ToStatus
<1>4. Effect("audit", db, [db EXCEPT !.art[a].status = to])
  BY <1>2, <1>3, MoveEffect
<1> QED
  BY <1>1, <1>4, RequestKeeps DEF Kinds

LEMMA PublishedStep ==
  ASSUME ContentInv, NEW a \in Articles, Published(a)
  PROVE  ContentInv' /\ Grown(db, db')
<1>1. /\ db' = [db EXCEPT !.art[a].status = "DRAFT_CREATED"] /\ sess' = sess
      /\ Sound(db) /\ db \in Tables /\ Present(db.art[a]) /\ db.art[a].text \in Text
      /\ "DRAFT_CREATED" \in ArticleStatus
  BY DEF ContentInv, Sound, Published, Present, ArticleStatus
<1>2. Effect("publish", db, db')
  BY <1>1, MoveEffect
<1> QED
  BY <1>1, <1>2, ReplaceStep

LEMMA SetReviewStep ==
  ASSUME ContentInv, NEW p \in Accounts, SetReview(p)
  PROVE  ContentInv' /\ Grown(db, db')
<1>1. /\ db' = [db EXCEPT !.mp[p].review = ~@] /\ sess' = sess /\ Sound(db) /\ db \in Tables
  BY DEF ContentInv, Sound, SetReview
<1>2. /\ db.art \in [Articles -> ArtRow] /\ db.ver \in [VersionKeys -> VerRow]
      /\ db.mat \in [Materials -> MatRow] /\ db.ref \in [Materials \X Accounts -> RefRow]
      /\ db.group \in [Groups -> GroupRow] /\ db.mp \in [Accounts -> AccountRow]
      /\ db \in [art: {db.art}, ver: {db.ver}, mat: {db.mat}, ref: {db.ref},
                 group: {db.group}, mp: {db.mp}]
  BY <1>1 DEF Tables
<1>3. /\ db'.art = db.art /\ db'.ver = db.ver /\ db'.mat = db.mat
      /\ db'.ref = db.ref /\ db'.group = db.group
      /\ db'.mp = [db.mp EXCEPT ![p] = [db.mp[p] EXCEPT !.review = ~db.mp[p].review]]
      /\ db' = [art |-> db'.art, ver |-> db'.ver, mat |-> db'.mat, ref |-> db'.ref,
                group |-> db'.group, mp |-> db'.mp]
  BY <1>1, <1>2
<1>4. db' \in Tables
  <2>1. [db.mp[p] EXCEPT !.review = ~db.mp[p].review] \in AccountRow
    BY <1>2 DEF AccountRow
  <2>2. db'.mp \in [Accounts -> AccountRow]
    BY <1>2, <1>3, <2>1
  <2> QED
    BY <1>2, <1>3, <2>2 DEF Tables
<1>5. Change(db, db')
  BY <1>1, <1>3, <1>4, NoVersionTaken
<1>6. TextKept(db, db') /\ GroupsKept(db, db')
  BY <1>3 DEF TextKept, GroupsKept
<1>7. CoversKept(db, db')
  BY <1>3 DEF CoversKept
<1>8. Effect("review", db, db')
  BY <1>5, <1>6, <1>7 DEF Effect
<1> QED
  BY <1>1, <1>8, ReplaceStep

-----------------------------------------------------------------------------
(* Numbers *)

LEMMA LeastIn ==
  ASSUME NEW S \in SUBSET Nat, S # {}
  PROVE  \E n \in S : \A m \in S : n <= m
<1> DEFINE R == {p \in Nat \X Nat : p[1] < p[2]}
<1>1. IsWellFoundedOn(R, Nat)
  BY NatLessThanWellFounded DEF OpToRel
<1>2. PICK x \in S : \A y \in S : ~(<<y, x>> \in R)
  BY <1>1, WFMin
<1>3. ASSUME NEW y \in S
      PROVE  x <= y
  <2>1. ~(<<y, x>> \in R)
    BY <1>2
  <2>2. <<y, x>> \in Nat \X Nat /\ <<y, x>>[1] = y /\ <<y, x>>[2] = x
    OBVIOUS
  <2> QED
    BY <2>1, <2>2
<1> QED
  BY <1>3

\* A finite nonempty set of numbers has a largest one: the one with the fewest
\* above it.
LEMMA MaxIn ==
  ASSUME NEW S \in SUBSET Nat, S # {}, IsFiniteSet(S)
  PROVE  Max(S) \in S /\ \A y \in S : y <= Max(S)
<1> DEFINE Above(x) == {y \in S : y > x}
           Counts == {Cardinality(Above(x)) : x \in S}
<1>1. \A x \in S : IsFiniteSet(Above(x)) /\ Cardinality(Above(x)) \in Nat
  BY FS_Subset, FS_CardinalityType
<1>2. PICK x \in S : \A y \in S : Cardinality(Above(x)) <= Cardinality(Above(y))
  <2>1. Counts \in SUBSET Nat /\ Counts # {}
    BY <1>1
  <2>2. PICK n \in Counts : \A m \in Counts : n <= m
    BY <2>1, LeastIn
  <2> QED
    BY <2>2
<1>3. ASSUME NEW y \in S, y > x
      PROVE  FALSE
  <2>1. S \subseteq Nat /\ x \in Nat /\ y \in Nat
    OBVIOUS
  <2>2. Above(y) \in SUBSET Above(x)
    <3>1. ASSUME NEW z \in S, z > y
          PROVE  z > x
      BY <1>3, <2>1, <3>1
    <3> QED
      BY <3>1
  <2>3. y \in Above(x) /\ y \notin Above(y)
    BY <1>3
  <2>4. Cardinality(Above(y)) <= Cardinality(Above(x))
        /\ (Cardinality(Above(x)) = Cardinality(Above(y)) => Above(x) = Above(y))
    BY <1>1, <2>2, FS_Subset
  <2>5. Cardinality(Above(x)) = Cardinality(Above(y))
    BY <1>1, <1>2, <2>4
  <2> QED
    BY <2>3, <2>4, <2>5
<1>4. x \in S /\ \A y \in S : x >= y
  BY <1>3
<1>5. Max(S) \in S /\ \A y \in S : Max(S) >= y
  BY <1>4 DEF Max
<1> QED
  BY <1>5

\* The members of a finite set can be numbered.
LEMMA Numbering ==
  ASSUME NEW M, IsFiniteSet(M)
  PROVE  \E f \in [M -> Nat] : \A x, y \in M : f[x] = f[y] => x = y
<1>1. PICK g \in Bijection(1..Cardinality(M), M) : TRUE
  BY FS_CardinalityType, Fun_ExistsBij
<1>2. /\ Cardinality(M) \in Nat /\ g \in [1..Cardinality(M) -> M]
      /\ \A x \in M : \E i \in 1..Cardinality(M) : g[i] = x
  BY <1>1, FS_CardinalityType, Fun_BijectionProperties
<1> DEFINE f == [x \in M |-> CHOOSE i \in 1..Cardinality(M) : g[i] = x]
<1>3. \A x \in M : f[x] \in 1..Cardinality(M) /\ g[f[x]] = x
  BY <1>2
<1>4. f \in [M -> Nat]
  BY <1>2, <1>3
<1> QED
  BY <1>3, <1>4

\* There is a numbering in the order of pos, those with equal pos in any order.
LEMMA RankExists ==
  ASSUME NEW M, IsFiniteSet(M), NEW pos \in [M -> Nat]
  PROVE  \E r \in [M -> 0..Cardinality(M)] :
           \A m \in M :
             LET before == {x \in M : pos[x] < pos[m]}
                 ties == {x \in M : pos[x] = pos[m]}
             IN  /\ r[m] >= Cardinality(before)
                 /\ r[m] < Cardinality(before) + Cardinality(ties)
                 /\ \A x \in M \ {m} : r[x] # r[m]
<1>1. PICK f \in [M -> Nat] : \A x, y \in M : f[x] = f[y] => x = y
  BY Numbering
<1> DEFINE Below(x, m) == pos[x] < pos[m] \/ (pos[x] = pos[m] /\ f[x] < f[m])
           Low(m) == {x \in M : Below(x, m)}
           Before(m) == {x \in M : pos[x] < pos[m]}
           Ties(m) == {x \in M : pos[x] = pos[m]}
           r == [m \in M |-> Cardinality(Low(m))]
<1>2. Cardinality(M) \in Nat
  BY FS_CardinalityType
<1>3. \A S \in SUBSET M : IsFiniteSet(S) /\ Cardinality(S) \in Nat /\ Cardinality(S) <= Cardinality(M)
  BY FS_Subset, FS_CardinalityType
<1>4. \A x \in M : pos[x] \in Nat /\ f[x] \in Nat
  OBVIOUS
<1>5. r \in [M -> 0..Cardinality(M)]
  BY <1>2, <1>3
<1>6. ASSUME NEW m \in M
      PROVE  /\ r[m] >= Cardinality(Before(m))
             /\ r[m] < Cardinality(Before(m)) + Cardinality(Ties(m))
  <2>1. Low(m) \in SUBSET M /\ Before(m) \in SUBSET M /\ Ties(m) \in SUBSET M
    OBVIOUS
  <2>2. Before(m) \in SUBSET Low(m)
    OBVIOUS
  <2>3. Cardinality(Before(m)) <= Cardinality(Low(m))
    BY <1>3, <2>1, <2>2, FS_Subset
  <2>4. Before(m) \cap Ties(m) = {}
    BY <1>4
  <2>5. /\ IsFiniteSet(Before(m) \cup Ties(m))
        /\ Cardinality(Before(m) \cup Ties(m)) = Cardinality(Before(m)) + Cardinality(Ties(m))
    <3>1. IsFiniteSet(Before(m)) /\ IsFiniteSet(Ties(m))
          /\ Cardinality(Before(m)) \in Nat /\ Cardinality(Ties(m)) \in Nat
      BY <1>3, <2>1
    <3>2. Cardinality(Before(m) \cap Ties(m)) = 0
      BY <2>4, FS_EmptySet
    <3>3. /\ IsFiniteSet(Before(m) \cup Ties(m))
          /\ Cardinality(Before(m) \cup Ties(m))
               = Cardinality(Before(m)) + Cardinality(Ties(m)) - Cardinality(Before(m) \cap Ties(m))
      BY <3>1, FS_Union
    <3> HIDE DEF Before, Ties
    <3> QED
      BY <3>1, <3>2, <3>3
  <2>6. Low(m) \in SUBSET (Before(m) \cup Ties(m))
    OBVIOUS
  <2>7. m \in Ties(m) /\ m \notin Low(m)
    BY <1>4
  <2>8. /\ Cardinality(Low(m)) <= Cardinality(Before(m) \cup Ties(m))
        /\ Cardinality(Low(m)) # Cardinality(Before(m) \cup Ties(m))
    BY <2>5, <2>6, <2>7, FS_Subset
  <2>9. r[m] = Cardinality(Low(m))
    OBVIOUS
  <2> HIDE DEF r, Low, Before, Ties
  <2> QED
    BY <1>3, <2>1, <2>3, <2>5, <2>8, <2>9
<1>7. ASSUME NEW x \in M, NEW m \in M, Below(x, m)
      PROVE  Cardinality(Low(x)) # Cardinality(Low(m))
  <2>1. Low(x) \in SUBSET Low(m)
    BY <1>4, <1>7
  <2>2. x \in Low(m) /\ x \notin Low(x)
    BY <1>4, <1>7
  <2>3. IsFiniteSet(Low(m))
    BY <1>3
  <2> QED
    BY <2>1, <2>2, <2>3, FS_Subset
<1>8. ASSUME NEW m \in M, NEW x \in M \ {m}
      PROVE  r[x] # r[m]
  <2>1. f[x] # f[m]
    BY <1>1
  <2>2. Below(x, m) \/ Below(m, x)
    BY <1>4, <2>1
  <2>3. r[x] = Cardinality(Low(x)) /\ r[m] = Cardinality(Low(m))
    OBVIOUS
  <2> HIDE DEF r, Low, Below
  <2> QED
    BY <1>7, <2>2, <2>3
<1> HIDE DEF r
<1> QED
  BY <1>5, <1>6, <1>8

-----------------------------------------------------------------------------
(* What the requests of groups change *)

LEMMA MembersAre ==
  ASSUME NEW d, NEW g
  PROVE  /\ Members(d, g) \subseteq Articles
         /\ IsFiniteSet(Members(d, g)) /\ Cardinality(Members(d, g)) \in Nat
         /\ \A a \in Articles : a \in Members(d, g) <=> Present(d.art[a]) /\ d.art[a].group = g
<1>1. Members(d, g) \in SUBSET Articles
  BY DEF Members
<1>2. IsFiniteSet(Members(d, g))
  BY <1>1, FS_Subset, ContentAssumption
<1> QED
  BY <1>1, <1>2, FS_CardinalityType DEF Members

\* A request that changes groups and positions of articles, and nothing else.
LEMMA RowsEffect ==
  ASSUME Sound(db), NEW new \in Tables, new.ver = db.ver, new.mat = db.mat,
         \A a \in Articles :
           /\ new.art[a].status = db.art[a].status /\ new.art[a].text = db.art[a].text
           /\ new.art[a].cover = db.art[a].cover
           /\ ~Present(db.art[a]) => new.art[a] = db.art[a],
         Grouped(db) => Grouped(new)
  PROVE  Effect("group", db, new)
<1>1. Change(db, new)
  <2>1. ASSUME NEW a \in Articles
        PROVE  Present(new.art[a]) <=> Present(db.art[a])
    BY DEF Present
  <2> QED
    BY <2>1, NoVersionTaken
<1>2. TextKept(db, new)
  BY DEF TextKept
<1>3. CoversKept(db, new)
  BY DEF CoversKept
<1> QED
  BY <1>1, <1>2, <1>3 DEF Effect

\* The tables after a change of articles.
LEMMA NewArticles ==
  ASSUME Sound(db), NEW f \in [Articles -> ArtRow]
  PROVE  LET new == [db EXCEPT !.art = f]
         IN  new \in Tables /\ new.art = f /\ new.ver = db.ver /\ new.mat = db.mat
<1> DEFINE new == [db EXCEPT !.art = f]
<1>1. /\ db.art \in [Articles -> ArtRow] /\ db.ver \in [VersionKeys -> VerRow]
      /\ db.mat \in [Materials -> MatRow] /\ db.ref \in [Materials \X Accounts -> RefRow]
      /\ db.group \in [Groups -> GroupRow] /\ db.mp \in [Accounts -> AccountRow]
      /\ db \in [art: {db.art}, ver: {db.ver}, mat: {db.mat}, ref: {db.ref},
                 group: {db.group}, mp: {db.mp}]
  BY DEF Sound, Tables
<1>2. /\ new.art = f /\ new.ver = db.ver /\ new.mat = db.mat
      /\ new.ref = db.ref /\ new.group = db.group /\ new.mp = db.mp
      /\ new = [art |-> new.art, ver |-> new.ver, mat |-> new.mat, ref |-> new.ref,
                group |-> new.group, mp |-> new.mp]
  BY <1>1
<1> HIDE DEF new
<1>3. new \in Tables
  BY <1>1, <1>2 DEF Tables
<1> QED
  BY <1>2, <1>3 DEF new

LEMMA CreateGroupStep ==
  ASSUME ContentInv, NEW s \in Requests, NEW g \in Groups, CreateGroup(s, g)
  PROVE  ContentInv' /\ Grown(db, db')
<1> DEFINE new == [db EXCEPT !.group[g].status = "EDITING"]
<1>1. Request(s, "group", new) /\ Sound(db)
  BY DEF CreateGroup, ContentInv
<1>2. /\ db.art \in [Articles -> ArtRow] /\ db.ver \in [VersionKeys -> VerRow]
      /\ db.mat \in [Materials -> MatRow] /\ db.ref \in [Materials \X Accounts -> RefRow]
      /\ db.group \in [Groups -> GroupRow] /\ db.mp \in [Accounts -> AccountRow]
      /\ db \in [art: {db.art}, ver: {db.ver}, mat: {db.mat}, ref: {db.ref},
                 group: {db.group}, mp: {db.mp}]
  BY <1>1 DEF Sound, Tables
<1>3. /\ new.art = db.art /\ new.ver = db.ver /\ new.mat = db.mat
      /\ new.group = [db.group EXCEPT ![g] = [db.group[g] EXCEPT !.status = "EDITING"]]
      /\ new.ref = db.ref /\ new.mp = db.mp
      /\ new = [art |-> new.art, ver |-> new.ver, mat |-> new.mat, ref |-> new.ref,
                group |-> new.group, mp |-> new.mp]
  BY <1>2
<1> HIDE DEF new
<1>4. new \in Tables
  <2>1. [db.group[g] EXCEPT !.status = "EDITING"] \in GroupRow
    BY <1>2 DEF GroupRow
  <2>2. new.group \in [Groups -> GroupRow]
    BY <1>2, <1>3, <2>1
  <2> QED
    BY <1>2, <1>3, <2>2 DEF Tables
<1>5. Grouped(db) => Grouped(new)
  <2>1. \A h \in Groups : Members(new, h) = Members(db, h)
    BY <1>3 DEF Members
  <2> QED
    BY <1>3, <2>1 DEF Grouped
<1>6. Effect("group", db, new)
  BY <1>1, <1>3, <1>4, <1>5, RowsEffect
<1> QED
  BY <1>1, <1>6, RequestKeeps DEF Kinds

\* The values of a function on a finite set are finitely many.
LEMMA FiniteImage ==
  ASSUME NEW S, IsFiniteSet(S), NEW f, f = [x \in S |-> f[x]]
  PROVE  IsFiniteSet({f[x] : x \in S})
<1>1. f \in Surjection(S, {f[x] : x \in S})
  BY DEF Surjection
<1> QED
  BY <1>1, FS_Surjection

LEMMA NextPositionIs ==
  ASSUME Sound(db), NEW g \in Groups
  PROVE  /\ NextPosition(g) \in Nat
         /\ \A m \in Members(db, g) : db.art[m].pos < NextPosition(g)
         /\ \/ NextPosition(g) = 0
            \/ \E m \in Members(db, g) : NextPosition(g) = db.art[m].pos + 1
<1> DEFINE M == Members(db, g)
           f == [m \in M |-> db.art[m].pos + 1]
           S == {0} \cup {db.art[m].pos + 1 : m \in M}
<1>1. IsFiniteSet(M) /\ M \subseteq Articles
  BY MembersAre
<1>2. \A m \in M : db.art[m].pos \in Nat
  BY <1>1 DEF Sound, Tables, ArtRow
<1>3. IsFiniteSet(S) /\ S \in SUBSET Nat /\ S # {}
  <2>1. IsFiniteSet({f[m] : m \in M})
    BY <1>1, FiniteImage
  <2>2. S = {f[m] : m \in M} \cup {0}
    OBVIOUS
  <2>3. IsFiniteSet(S)
    BY <2>1, <2>2, FS_AddElement
  <2> QED
    BY <1>2, <2>3
<1>4. Max(S) \in S /\ \A y \in S : y <= Max(S)
  BY <1>3, MaxIn
<1>5. NextPosition(g) = Max(S)
  BY DEF NextPosition
<1>6. \A m \in M : db.art[m].pos < Max(S)
  BY <1>2, <1>3, <1>4
<1> QED
  BY <1>3, <1>4, <1>5, <1>6

LEMMA AddToGroupStep ==
  ASSUME ContentInv, NEW s \in Requests, NEW g \in Groups, NEW a \in Articles,
         AddToGroup(s, g, a)
  PROVE  ContentInv' /\ Grown(db, db')
<1> DEFINE p == NextPosition(g)
           row == [db.art[a] EXCEPT !.group = g, !.pos = p]
           f == [db.art EXCEPT ![a] = row]
           new == [db EXCEPT !.art = f]
<1>1. /\ Sound(db) /\ db \in Tables /\ db.art \in [Articles -> ArtRow]
      /\ Present(db.art[a]) /\ db.art[a].group = None
      /\ Cardinality(Members(db, g)) < MaxGroupSize
  BY DEF AddToGroup, ContentInv, Sound, Tables
<1>2. Request(s, "group", new)
  <2>1. [db EXCEPT !.art[a].group = g, !.art[a].pos = p] = new
    BY <1>1 DEF Tables, ArtRow
  <2> QED
    BY <2>1 DEF AddToGroup
<1>3. /\ p \in Nat
      /\ \A m \in Members(db, g) : db.art[m].pos < p
      /\ p = 0 \/ \E m \in Members(db, g) : p = db.art[m].pos + 1
  BY <1>1, NextPositionIs
<1> HIDE DEF p
<1>4. /\ row \in ArtRow /\ row.group = g /\ row.pos = p
      /\ row.status = db.art[a].status /\ row.text = db.art[a].text
      /\ row.cover = db.art[a].cover
  BY <1>1, <1>3 DEF ArtRow
<1> HIDE DEF row
<1>5. /\ f \in [Articles -> ArtRow] /\ f[a] = row
      /\ \A b \in Articles \ {a} : f[b] = db.art[b]
  BY <1>1, <1>4
<1> HIDE DEF f
<1>6. new \in Tables /\ new.art = f /\ new.ver = db.ver /\ new.mat = db.mat
  BY <1>1, <1>5, NewArticles
<1> HIDE DEF new
<1>7. g # None
  BY ContentAssumption
<1>8. ASSUME Grouped(db)
      PROVE  Grouped(new)
  <2>1. ASSUME NEW h \in Groups, h # g
        PROVE  Members(new, h) = Members(db, h)
    BY <1>1, <1>4, <1>5, <1>6, <2>1, ContentAssumption DEF Members
  <2>2. Members(new, g) = Members(db, g) \cup {a} /\ a \notin Members(db, g)
    BY <1>1, <1>4, <1>5, <1>6, <1>7 DEF Members, Present
  <2>3. /\ IsFiniteSet(Members(new, g))
        /\ Cardinality(Members(new, g)) = Cardinality(Members(db, g)) + 1
        /\ Cardinality(Members(db, g)) \in Nat
    BY <2>2, MembersAre, FS_AddElement
  <2>4. \A b \in Articles : new.art[b].group = None => new.art[b].pos = 0
    BY <1>4, <1>5, <1>6, <1>7, <1>8 DEF Grouped
  <2>6. ASSUME NEW b \in Members(new, g), NEW c \in Members(new, g), b # c
        PROVE  new.art[b].pos # new.art[c].pos
    <3>1. ASSUME NEW m \in Members(db, g)
          PROVE  new.art[m].pos = db.art[m].pos /\ db.art[m].pos < p /\ db.art[m].pos \in Nat
      <4>1. m \in Articles \ {a}
        BY <2>2, MembersAre
      <4> QED
        BY <1>1, <1>3, <1>5, <1>6, <4>1 DEF ArtRow
    <3>2. new.art[a].pos = p
      BY <1>4, <1>5, <1>6
    <3>3. CASE b = a
      <4>1. c \in Members(db, g)
        BY <2>2, <2>6, <3>3
      <4> QED
        BY <1>3, <3>1, <3>2, <3>3, <4>1
    <3>4. CASE c = a
      <4>1. b \in Members(db, g)
        BY <2>2, <2>6, <3>4
      <4> QED
        BY <1>3, <3>1, <3>2, <3>4, <4>1
    <3>5. CASE b # a /\ c # a
      <4>1. b \in Members(db, g) /\ c \in Members(db, g)
        BY <2>2, <3>5
      <4>2. db.art[b].pos # db.art[c].pos
        BY <1>8, <2>6, <4>1 DEF Grouped
      <4> QED
        BY <3>1, <4>1, <4>2
    <3> QED
      BY <3>3, <3>4, <3>5
  <2>7. ASSUME NEW h \in Groups, h # g
        PROVE  /\ IsFiniteSet(Members(new, h)) /\ Cardinality(Members(new, h)) <= MaxGroupSize
               /\ \A b, c \in Members(new, h) : b # c => new.art[b].pos # new.art[c].pos
    <3>1. Members(new, h) = Members(db, h)
      BY <2>1, <2>7
    <3>2. \A b \in Members(db, h) : new.art[b] = db.art[b]
      BY <1>1, <1>5, <1>6, ContentAssumption DEF Members
    <3> QED
      BY <1>8, <3>1, <3>2 DEF Grouped
  <2>8. Cardinality(Members(new, g)) <= MaxGroupSize
    BY <1>1, <2>3, ContentAssumption
  <2> QED
    BY <2>3, <2>4, <2>6, <2>7, <2>8 DEF Grouped
<1>9. Effect("group", db, new)
  <2>1. ASSUME NEW b \in Articles
        PROVE  /\ new.art[b].status = db.art[b].status /\ new.art[b].text = db.art[b].text
               /\ new.art[b].cover = db.art[b].cover
               /\ ~Present(db.art[b]) => new.art[b] = db.art[b]
    BY <1>1, <1>4, <1>5, <1>6
  <2> QED
    BY <1>1, <1>6, <1>8, <2>1, RowsEffect
<1> QED
  BY <1>2, <1>9, RequestKeeps DEF Kinds

\* Groups are as they should be, the positions in g aside.
GroupedBut(d, g) ==
  /\ \A a \in Articles : d.art[a].group = None => d.art[a].pos = 0
  /\ Cardinality(Members(d, g)) <= MaxGroupSize
  /\ \A h \in Groups \ {g} :
       /\ Cardinality(Members(d, h)) <= MaxGroupSize
       /\ \A a, b \in Members(d, h) : a # b => d.art[a].pos # d.art[b].pos

\* The rows after the members of one group were given other positions.
LEMMA Repositioned ==
  ASSUME NEW d \in Tables, NEW g \in Groups, NEW pos \in [Members(d, g) -> Nat],
         NEW new \in Tables,
         new.art = [b \in Articles |->
                      IF b \in Members(d, g) THEN [d.art[b] EXCEPT !.pos = pos[b]]
                      ELSE d.art[b]],
         \A b, c \in Members(d, g) : b # c => pos[b] # pos[c]
  PROVE  /\ \A b \in Articles :
              /\ new.art[b].status = d.art[b].status /\ new.art[b].text = d.art[b].text
              /\ new.art[b].cover = d.art[b].cover
              /\ ~Present(d.art[b]) => new.art[b] = d.art[b]
         /\ GroupedBut(d, g) => Grouped(new)
<1> DEFINE M == Members(d, g)
<1>1. d.art \in [Articles -> ArtRow] /\ M \subseteq Articles /\ g # None
  BY MembersAre, ContentAssumption DEF Tables
<1>2. ASSUME NEW b \in M
      PROVE  /\ new.art[b].pos = pos[b] /\ new.art[b].status = d.art[b].status
             /\ new.art[b].text = d.art[b].text /\ new.art[b].group = d.art[b].group
             /\ new.art[b].cover = d.art[b].cover
             /\ Present(d.art[b]) /\ d.art[b].group = g
  <2>1. b \in Articles /\ new.art[b] = [d.art[b] EXCEPT !.pos = pos[b]]
    BY <1>1
  <2> QED
    BY <1>1, <2>1, MembersAre DEF ArtRow
<1>3. \A b \in Articles : b \notin M => new.art[b] = d.art[b]
  OBVIOUS
<1>4. ASSUME NEW b \in Articles
      PROVE  /\ new.art[b].status = d.art[b].status /\ new.art[b].text = d.art[b].text
             /\ new.art[b].cover = d.art[b].cover /\ new.art[b].group = d.art[b].group
             /\ ~Present(d.art[b]) => new.art[b] = d.art[b]
  BY <1>2, <1>3
<1>5. \A h \in Groups : Members(new, h) = Members(d, h)
  BY <1>4 DEF Members, Present
<1>6. ASSUME GroupedBut(d, g)
      PROVE  Grouped(new)
  <2>1. ASSUME NEW b \in Articles, new.art[b].group = None
        PROVE  new.art[b].pos = 0
    <3>1. b \notin M
      BY <1>1, <1>2, <2>1
    <3> QED
      BY <1>3, <1>6, <2>1, <3>1 DEF GroupedBut
  <2>2. /\ IsFiniteSet(Members(new, g)) /\ Cardinality(Members(new, g)) <= MaxGroupSize
        /\ \A b, c \in Members(new, g) : b # c => new.art[b].pos # new.art[c].pos
    BY <1>2, <1>5, <1>6, MembersAre DEF GroupedBut
  <2>3. ASSUME NEW h \in Groups, h # g
        PROVE  /\ IsFiniteSet(Members(new, h)) /\ Cardinality(Members(new, h)) <= MaxGroupSize
               /\ \A b, c \in Members(new, h) : b # c => new.art[b].pos # new.art[c].pos
    <3>1. \A b \in Members(d, h) : new.art[b] = d.art[b]
      BY <1>2, <1>3, <2>3, MembersAre
    <3> QED
      BY <1>5, <1>6, <2>3, <3>1, MembersAre DEF GroupedBut
  <2> QED
    BY <2>1, <2>2, <2>3 DEF Grouped
<1> QED
  BY <1>4, <1>6

LEMMA ReorderStep ==
  ASSUME ContentInv, NEW s \in Requests, NEW g \in Groups, Reorder(s, g)
  PROVE  ContentInv' /\ Grown(db, db')
<1> DEFINE M == Members(db, g)
           Rows(pos) == [a \in Articles |->
                           IF a \in M THEN [db.art[a] EXCEPT !.pos = pos[a]] ELSE db.art[a]]
           New(pos) == [db EXCEPT !.art = Rows(pos)]
<1>1. PICK pos \in Reorderings(g) : Request(s, "group", New(pos))
  BY DEF Reorder
<1>2. /\ Sound(db) /\ db.art \in [Articles -> ArtRow] /\ M \subseteq Articles
      /\ IsFiniteSet(M) /\ Cardinality(M) \in Nat
  BY MembersAre DEF ContentInv, Sound, Tables
<1>5. /\ pos \in [M -> Nat]
      /\ \A b, c \in M : b # c => pos[b] # pos[c]
  <2>1. pos \in [M -> 0..LastPosition] /\ IsInjective(pos)
    BY <1>1 DEF Reorderings
  <2> QED
    BY <2>1, ContentAssumption DEF IsInjective
<1>6. Rows(pos) \in [Articles -> ArtRow]
  <2>1. ASSUME NEW a \in M
        PROVE  [db.art[a] EXCEPT !.pos = pos[a]] \in ArtRow
    <3>1. a \in Articles /\ db.art[a] \in ArtRow /\ pos[a] \in Nat
      BY <1>2, <1>5
    <3> QED
      BY <3>1 DEF ArtRow
  <2> QED
    BY <1>2, <2>1
<1>7. /\ New(pos) \in Tables /\ New(pos).art = Rows(pos)
      /\ New(pos).ver = db.ver /\ New(pos).mat = db.mat
  BY <1>2, <1>6, NewArticles
<1> HIDE DEF New
<1>8. Effect("group", db, New(pos))
  <2>1. Grouped(db) => GroupedBut(db, g)
    BY DEF Grouped, GroupedBut
  <2>2. db \in Tables
    BY <1>2 DEF Sound
  <2>3. /\ \A b \in Articles :
             /\ New(pos).art[b].status = db.art[b].status
             /\ New(pos).art[b].text = db.art[b].text
             /\ New(pos).art[b].cover = db.art[b].cover
             /\ ~Present(db.art[b]) => New(pos).art[b] = db.art[b]
        /\ GroupedBut(db, g) => Grouped(New(pos))
    <3> DEFINE new == New(pos)
    <3>1. /\ new \in Tables /\ pos \in [Members(db, g) -> Nat]
          /\ new.art = [b \in Articles |->
                          IF b \in Members(db, g) THEN [db.art[b] EXCEPT !.pos = pos[b]]
                          ELSE db.art[b]]
          /\ \A b, c \in Members(db, g) : b # c => pos[b] # pos[c]
      BY <1>5, <1>7
    <3> HIDE DEF new
    <3>2. /\ \A b \in Articles :
               /\ new.art[b].status = db.art[b].status /\ new.art[b].text = db.art[b].text
               /\ new.art[b].cover = db.art[b].cover
               /\ ~Present(db.art[b]) => new.art[b] = db.art[b]
          /\ GroupedBut(db, g) => Grouped(new)
      BY <2>2, <3>1, Repositioned
    <3> QED
      BY <3>2 DEF new
  <2> QED
    BY <1>2, <1>7, <2>1, <2>3, RowsEffect
<1> QED
  BY <1>1, <1>8, RequestKeeps DEF Kinds

\* The members left in a group are numbered anew.
LEMMA RenumberedIs ==
  ASSUME NEW d \in Tables, NEW g \in Groups
  PROVE  \E rank \in [Members(d, g) -> Nat] :
           /\ \A b, c \in Members(d, g) : b # c => rank[b] # rank[c]
           /\ Renumbered(d, g) = [d EXCEPT !.art = [b \in Articles |->
                 IF b \in Members(d, g) THEN [d.art[b] EXCEPT !.pos = rank[b]]
                 ELSE d.art[b]]]
<1> DEFINE M == Members(d, g)
           pos == [m \in M |-> d.art[m].pos]
           Before(m) == {x \in M : d.art[x].pos < d.art[m].pos}
           Ties(m) == {x \in M : d.art[x].pos = d.art[m].pos}
           Ranks(r) == \A m \in M : /\ r[m] >= Cardinality(Before(m))
                                    /\ r[m] < Cardinality(Before(m)) + Cardinality(Ties(m))
                                    /\ \A x \in M \ {m} : r[x] # r[m]
           rank == CHOOSE r \in [M -> 0..Cardinality(M)] : Ranks(r)
<1>1. IsFiniteSet(M) /\ Cardinality(M) \in Nat /\ pos \in [M -> Nat]
  BY MembersAre DEF Tables, ArtRow
<1>2. \E r \in [M -> 0..Cardinality(M)] : Ranks(r)
  <2>1. PICK r \in [M -> 0..Cardinality(M)] :
          \A m \in M :
            LET before == {x \in M : pos[x] < pos[m]}
                ties == {x \in M : pos[x] = pos[m]}
            IN  /\ r[m] >= Cardinality(before)
                /\ r[m] < Cardinality(before) + Cardinality(ties)
                /\ \A x \in M \ {m} : r[x] # r[m]
    BY <1>1, RankExists
  <2>2. ASSUME NEW m \in M
        PROVE  /\ Before(m) = {x \in M : pos[x] < pos[m]}
               /\ Ties(m) = {x \in M : pos[x] = pos[m]}
    OBVIOUS
  <2> HIDE DEF pos, Before, Ties
  <2>3. Ranks(r)
    BY <2>1, <2>2
  <2> QED
    BY <2>3
<1>3. rank \in [M -> 0..Cardinality(M)] /\ Ranks(rank)
  BY <1>2
<1>4. Renumbered(d, g) = [d EXCEPT !.art = [b \in Articles |->
         IF b \in M THEN [d.art[b] EXCEPT !.pos = rank[b]] ELSE d.art[b]]]
  BY DEF Renumbered
<1>5. /\ rank \in [M -> Nat]
      /\ \A b, c \in M : b # c => rank[b] # rank[c]
  <2> HIDE DEF rank, Before, Ties, M
  <2> QED
    BY <1>1, <1>3
<1> HIDE DEF rank
<1> QED
  BY <1>4, <1>5

LEMMA RemoveFromGroupStep ==
  ASSUME ContentInv, NEW s \in Requests, NEW g \in Groups, NEW a \in Articles,
         RemoveFromGroup(s, g, a)
  PROVE  ContentInv' /\ Grown(db, db')
<1> DEFINE row == [db.art[a] EXCEPT !.group = None, !.pos = 0]
           f == [db.art EXCEPT ![a] = row]
           e == [db EXCEPT !.art = f]
<1>1. /\ Sound(db) /\ db \in Tables /\ db.art \in [Articles -> ArtRow]
      /\ a \in Members(db, g) /\ Present(db.art[a]) /\ db.art[a].group = g /\ g # None
  BY MembersAre, ContentAssumption DEF RemoveFromGroup, ContentInv, Sound, Tables
<1>2. Request(s, "group", Renumbered(e, g))
  <2>1. [db EXCEPT !.art[a].group = None, !.art[a].pos = 0] = e
    BY <1>1 DEF Tables, ArtRow
  <2> QED
    BY <2>1 DEF RemoveFromGroup
<1>3. /\ row \in ArtRow /\ row.group = None /\ row.pos = 0
      /\ row.status = db.art[a].status /\ row.text = db.art[a].text
      /\ row.cover = db.art[a].cover
  BY <1>1 DEF ArtRow
<1> HIDE DEF row
<1>4. /\ f \in [Articles -> ArtRow] /\ f[a] = row
      /\ \A b \in Articles \ {a} : f[b] = db.art[b]
  BY <1>1, <1>3
<1> HIDE DEF f
<1>5. e \in Tables /\ e.art = f /\ e.ver = db.ver /\ e.mat = db.mat
  BY <1>1, <1>4, NewArticles
<1>6. PICK rank \in [Members(e, g) -> Nat] :
        /\ \A b, c \in Members(e, g) : b # c => rank[b] # rank[c]
        /\ Renumbered(e, g) = [e EXCEPT !.art = [b \in Articles |->
              IF b \in Members(e, g) THEN [e.art[b] EXCEPT !.pos = rank[b]]
              ELSE e.art[b]]]
  BY <1>5, RenumberedIs
<1> DEFINE h == [b \in Articles |->
                   IF b \in Members(e, g) THEN [e.art[b] EXCEPT !.pos = rank[b]] ELSE e.art[b]]
           new == [db EXCEPT !.art = h]
<1>7. Renumbered(e, g) = new
  <2>1. [e EXCEPT !.art = h] = new
    BY <1>1 DEF Tables
  <2> QED
    BY <1>6, <2>1
<1> HIDE DEF e
<1>8. h \in [Articles -> ArtRow]
  <2>1. ASSUME NEW b \in Members(e, g)
        PROVE  [e.art[b] EXCEPT !.pos = rank[b]] \in ArtRow
    <3>1. b \in Articles /\ e.art[b] \in ArtRow /\ rank[b] \in Nat
      BY <1>4, <1>5, MembersAre
    <3> QED
      BY <3>1 DEF ArtRow
  <2> QED
    BY <1>4, <1>5, <2>1
<1>9. new \in Tables /\ new.art = h /\ new.ver = db.ver /\ new.mat = db.mat
  BY <1>1, <1>8, NewArticles
<1> HIDE DEF new
<1>10. ASSUME Grouped(db)
       PROVE  GroupedBut(e, g)
  <2>1. ASSUME NEW b \in Articles, e.art[b].group = None
        PROVE  e.art[b].pos = 0
    BY <1>3, <1>4, <1>5, <1>10, <2>1 DEF Grouped
  <2>2. Members(e, g) \in SUBSET Members(db, g)
    BY <1>1, <1>3, <1>4, <1>5 DEF Members
  <2>3. Cardinality(Members(e, g)) <= MaxGroupSize
    <3>1. /\ Cardinality(Members(e, g)) <= Cardinality(Members(db, g))
          /\ Cardinality(Members(e, g)) \in Nat /\ Cardinality(Members(db, g)) \in Nat
      BY <2>2, MembersAre, FS_Subset
    <3> QED
      BY <1>10, <3>1, ContentAssumption DEF Grouped
  <2>4. ASSUME NEW i \in Groups \ {g}
        PROVE  /\ Cardinality(Members(e, i)) <= MaxGroupSize
               /\ \A b, c \in Members(e, i) : b # c => e.art[b].pos # e.art[c].pos
    <3>1. i # None
      BY ContentAssumption
    <3>2. Members(e, i) = Members(db, i)
      BY <1>1, <1>3, <1>4, <1>5, <3>1 DEF Members
    <3>3. \A b \in Members(db, i) : e.art[b] = db.art[b]
      BY <1>1, <1>4, <1>5, MembersAre
    <3> QED
      BY <1>10, <3>2, <3>3 DEF Grouped
  <2> QED
    BY <2>1, <2>3, <2>4 DEF GroupedBut
<1>11. /\ \A b \in Articles :
            /\ new.art[b].status = e.art[b].status /\ new.art[b].text = e.art[b].text
            /\ new.art[b].cover = e.art[b].cover
            /\ ~Present(e.art[b]) => new.art[b] = e.art[b]
       /\ GroupedBut(e, g) => Grouped(new)
  BY <1>5, <1>6, <1>9, Repositioned
<1>12. Effect("group", db, new)
  <2>1. ASSUME NEW b \in Articles
        PROVE  /\ new.art[b].status = db.art[b].status /\ new.art[b].text = db.art[b].text
               /\ new.art[b].cover = db.art[b].cover
               /\ ~Present(db.art[b]) => new.art[b] = db.art[b]
    <3>1. CASE b = a
      BY <1>1, <1>3, <1>4, <1>5, <1>11, <3>1
    <3>2. CASE b # a
      BY <1>4, <1>5, <1>11, <3>2
    <3> QED
      BY <3>1, <3>2
  <2> QED
    BY <1>1, <1>9, <1>10, <1>11, <2>1, RowsEffect
<1> QED
  BY <1>2, <1>7, <1>12, RequestKeeps DEF Kinds

-----------------------------------------------------------------------------
(* What the requests of materials change *)

LEMMA MaterialEffect ==
  ASSUME Sound(db), NEW m \in Materials, NEW st \in {"STORED", "DELETED"},
         st = "STORED" \/ \A a \in Articles : db.art[a].cover # m
  PROVE  Effect("material", db, [db EXCEPT !.mat[m].status = st])
<1> DEFINE new == [db EXCEPT !.mat[m].status = st]
<1>1. /\ db.art \in [Articles -> ArtRow] /\ db.ver \in [VersionKeys -> VerRow]
      /\ db.mat \in [Materials -> MatRow] /\ db.ref \in [Materials \X Accounts -> RefRow]
      /\ db.group \in [Groups -> GroupRow] /\ db.mp \in [Accounts -> AccountRow]
      /\ db \in [art: {db.art}, ver: {db.ver}, mat: {db.mat}, ref: {db.ref},
                 group: {db.group}, mp: {db.mp}]
  BY DEF Sound, Tables
<1>2. /\ new.art = db.art /\ new.ver = db.ver
      /\ new.mat = [db.mat EXCEPT ![m] = [db.mat[m] EXCEPT !.status = st]]
      /\ new.ref = db.ref /\ new.group = db.group /\ new.mp = db.mp
      /\ new = [art |-> new.art, ver |-> new.ver, mat |-> new.mat, ref |-> new.ref,
                group |-> new.group, mp |-> new.mp]
  BY <1>1
<1> HIDE DEF new
<1>3. /\ [db.mat[m] EXCEPT !.status = st] \in MatRow
      /\ [db.mat[m] EXCEPT !.status = st].status = st
  BY <1>1 DEF MatRow
<1>4. /\ new.mat \in [Materials -> MatRow] /\ new.mat[m].status = st
      /\ \A n \in Materials \ {m} : new.mat[n] = db.mat[n]
  BY <1>1, <1>2, <1>3
<1>5. new \in Tables
  BY <1>1, <1>2, <1>4 DEF Tables
<1>6. Change(db, new)
  BY <1>2, <1>5, NoVersionTaken
<1>7. TextKept(db, new) /\ GroupsKept(db, new)
  BY <1>2 DEF TextKept, GroupsKept
<1>8. ASSUME Covered(db)
      PROVE  Covered(new)
  <2>1. ASSUME NEW a \in Articles, db.art[a].cover # None
        PROVE  new.mat[db.art[a].cover].status = "STORED"
    <3>1. db.art[a].cover \in Materials
      BY <1>1, <2>1 DEF ArtRow
    <3>2. db.mat[db.art[a].cover].status = "STORED"
      BY <1>8, <2>1 DEF Covered
    <3> QED
      BY <1>4, <3>1, <3>2
  <2> QED
    BY <1>2, <2>1 DEF Covered
<1> QED
  BY <1>6, <1>7, <1>8 DEF Effect, new

LEMMA MaterialStep ==
  ASSUME ContentInv, NEW s \in Requests, NEW m \in Materials, OnMaterial(s, m)
  PROVE  ContentInv' /\ Grown(db, db')
<1>1. Sound(db)
  BY DEF ContentInv
<1>2. CASE UploadMaterial(s, m)
  <2>1. Effect("material", db, [db EXCEPT !.mat[m].status = "STORED"])
    BY <1>1, MaterialEffect
  <2> QED
    BY <1>2, <2>1, RequestKeeps DEF UploadMaterial, Kinds
<1>3. CASE DeleteMaterial(s, m)
  <2>1. ASSUME NEW a \in Articles
        PROVE  db.art[a].cover # m
    <3>1. CASE Present(db.art[a])
      BY <1>3, <3>1 DEF DeleteMaterial, Free
    <3>2. CASE ~Present(db.art[a])
      BY <1>1, <3>2, ContentAssumption DEF Sound, NoArticle, NewArticle
    <3> QED
      BY <3>1, <3>2
  <2>2. Effect("material", db, [db EXCEPT !.mat[m].status = "DELETED"])
    BY <1>1, <2>1, MaterialEffect
  <2> QED
    BY <1>3, <2>2, RequestKeeps DEF DeleteMaterial, Kinds
<1> QED
  BY <1>2, <1>3 DEF OnMaterial

-----------------------------------------------------------------------------
(* The theorems *)

LEMMA InitHolds ==
  ASSUME Init
  PROVE  ContentInv
<1> DEFINE t == [body |-> FirstBody, wx |-> FALSE]
           d == InitDb(t)
<1>1. db = d /\ sess = [s \in Requests |-> NoRequest]
  BY DEF Init, InitRequests
<1>2. t \in Text /\ t.body = FirstBody /\ None \notin Text
  BY ContentAssumption DEF Text
<1> HIDE DEF t
<1>3. /\ d.art = [a \in Articles |-> IF a \in Mapped THEN NewArticle(t) ELSE NoArticle]
      /\ d.ver = [x \in VersionKeys |-> [status |-> "ABSENT", text |-> None]]
      /\ d.mat = [m \in Materials |-> [status |-> "ABSENT"]]
      /\ d.ref = [x \in Materials \X Accounts |-> [status |-> "ABSENT"]]
      /\ d.group = [g \in Groups |-> [status |-> "ABSENT"]]
      /\ d.mp = [p \in Accounts |-> [review |-> TRUE]]
      /\ d = [art |-> d.art, ver |-> d.ver, mat |-> d.mat, ref |-> d.ref,
              group |-> d.group, mp |-> d.mp]
  BY DEF InitDb
<1> HIDE DEF d
<1>4. /\ NewArticle(t) \in ArtRow /\ NoArticle \in ArtRow
      /\ Present(NewArticle(t)) /\ NewArticle(t).text = t /\ NewArticle(t).group = None
      /\ NewArticle(t).pos = 0 /\ NewArticle(t).cover = None
      /\ ~Present(NoArticle) /\ NoArticle.group = None /\ NoArticle.pos = 0
      /\ NoArticle.cover = None
  BY <1>2 DEF NewArticle, NoArticle, ArtRow, ArticleStatus, Present
<1>5. d.art \in [Articles -> ArtRow]
  BY <1>3, <1>4
<1>6. d \in Tables
  <2>1. d.ver \in [VersionKeys -> VerRow] /\ d.mat \in [Materials -> MatRow]
    BY <1>3 DEF VerRow, MatRow
  <2>2. d.ref \in [Materials \X Accounts -> RefRow] /\ d.group \in [Groups -> GroupRow]
        /\ d.mp \in [Accounts -> AccountRow]
    BY <1>3 DEF RefRow, GroupRow, AccountRow
  <2> QED
    BY <1>3, <1>5, <2>1, <2>2 DEF Tables
<1>7. ASSUME NEW a \in Articles
      PROVE  /\ d.art[a] = IF a \in Mapped THEN NewArticle(t) ELSE NoArticle
             /\ SavedVersions(d, a) = {}
             /\ \A n \in 1..Versions[a] :
                  Version(d, a, n).status = "ABSENT" /\ Version(d, a, n).text = None
  <2>1. \A n \in 1..Versions[a] :
          Version(d, a, n).status = "ABSENT" /\ Version(d, a, n).text = None
    BY <1>3, Keys DEF Version
  <2> QED
    BY <1>3, <2>1, SavedIs
<1>8. Sound(d)
  <2>1. ASSUME NEW a \in Articles
        PROVE  \E k \in 0..Versions[a] : SavedVersions(d, a) = 1..k
    <3>1. SavedVersions(d, a) = 1..0 /\ 0 \in 0..Versions[a]
      BY <1>7, Keys
    <3> QED
      BY <3>1
  <2>2. ASSUME NEW a \in Articles
        PROVE  /\ IF Present(d.art[a])
                  THEN d.art[a].text \in Text /\ (a \in Mapped \/ SavedVersions(d, a) # {})
                  ELSE d.art[a] = NoArticle /\ a \notin Mapped /\ SavedVersions(d, a) = {}
               /\ \A n \in 1..Versions[a] :
                    Version(d, a, n).status = "SAVED" <=> Version(d, a, n).text \in Text
    BY <1>2, <1>4, <1>7
  <2> QED
    BY <1>6, <2>1, <2>2 DEF Sound
<1>9. RequestsOK
  BY <1>1 DEF RequestsOK, Idle, NoRequest
<1>10. \A s \in Requests : Idle(s)
  BY <1>1 DEF Idle, NoRequest
<1>11. TextIs(d)
  <2>1. ASSUME NEW a \in Articles, NEW k \in 1..Versions[a]
        PROVE  SavedVersions(d, a) # 1..k
    <3>1. 1 \in 1..k
      BY Keys
    <3> QED
      BY <1>7, <3>1
  <2>2. ASSUME NEW a \in Articles, Present(d.art[a])
        PROVE  d.art[a].text.body = FirstBody
    BY <1>2, <1>4, <1>7, <2>2
  <2> QED
    BY <2>1, <2>2 DEF TextIs
<1>12. Grouped(d)
  <2>1. \A a \in Articles : d.art[a].group = None /\ d.art[a].pos = 0
    BY <1>4, <1>7
  <2>2. ASSUME NEW g \in Groups
        PROVE  Members(d, g) = {}
    BY <2>1, ContentAssumption DEF Members
  <2> QED
    <3>1. /\ IsFiniteSet({}) /\ Cardinality({}) <= MaxGroupSize
      BY FS_EmptySet, ContentAssumption
    <3> QED
      BY <2>1, <2>2, <3>1 DEF Grouped
<1>13. Covered(d)
  BY <1>4, <1>7 DEF Covered
<1> QED
  BY <1>1, <1>8, <1>9, <1>10, <1>11, <1>12, <1>13 DEF ContentInv

LEMMA Kept ==
  ASSUME ContentInv, [Next]_vars
  PROVE  ContentInv' /\ Grown(db, db')
<1>1. CASE UNCHANGED vars
  BY <1>1 DEF vars, ContentInv, RequestsOK, Idle, Grown
<1>2. ASSUME NEW s \in Requests, NEW a \in Articles, OnArticle(s, a)
      PROVE  ContentInv' /\ Grown(db, db')
  BY <1>2, CreateArticleStep, UpdateArticleStep, SaveAgainStep, SubmitStep, AuditStep
     DEF OnArticle, Submit, AutoSubmit
<1>3. ASSUME NEW s \in Requests, NEW g \in Groups, OnGroup(s, g)
      PROVE  ContentInv' /\ Grown(db, db')
  BY <1>3, CreateGroupStep, ReorderStep, AddToGroupStep, RemoveFromGroupStep DEF OnGroup
<1> QED
  BY <1>1, <1>2, <1>3, CommitStep, AbortStep, MaterialStep, PublishedStep, SetReviewStep DEF Next

LEMMA AlwaysInv == Spec => []ContentInv
<1>1. ContentInv /\ [Next]_vars => ContentInv'
  BY Kept
<1> QED
  BY <1>1, InitHolds, PTL DEF Spec

\* Tables and requests keep their types, and a version has a text exactly when it
\* is saved, whatever requests overlap.
THEOREM ContentTypes == Spec => []TypeOK
<1>1. ASSUME ContentInv
      PROVE  TypeOK
  <2>1. Sound(db) /\ RequestsOK /\ db \in Tables
    BY <1>1 DEF ContentInv, Sound
  <2>2. /\ db.art \in [Articles -> ArtRow]
        /\ db.mat \in [Materials -> [status: {"ABSENT", "STORED", "DELETED"}]]
    BY <2>1 DEF Tables, MatRow
  <2>3. ASSUME NEW x \in VersionKeys
        PROVE  (db.ver[x].status = "SAVED") <=> (db.ver[x].text \in Text)
    <3>1. x[1] \in Articles /\ x[2] \in 1..Versions[x[1]] /\ x = <<x[1], x[2]>>
      BY Keys
    <3>2. Version(db, x[1], x[2]).status = "SAVED" <=> Version(db, x[1], x[2]).text \in Text
      BY <2>1, <3>1 DEF Sound
    <3> QED
      BY <3>1, <3>2 DEF Version
  <2>4. ASSUME NEW s \in Requests
        PROVE  sess[s].kind \in Kinds \cup {"idle"}
    BY <2>1 DEF RequestsOK, NoRequest
  <2> QED
    BY <2>2, <2>3, <2>4 DEF TypeOK
<1>2. ContentInv => TypeOK
  BY <1>1
<1> QED
  BY <1>2, AlwaysInv, PTL

\* Whatever saves, rollbacks, submissions and manual versions run beside each
\* other, versions stay numbered without a gap and none is changed or replaced
\* (_next_version_no, uk_art_ver).
THEOREM VersionsOnlyAdded == Spec => VersionsAppendOnly
<1>1. ASSUME ContentInv, [Next]_vars, NEW a \in Articles
      PROVE  LET old == SavedVersions(db, a)
                 new == SavedVersions(db', a)
             IN  /\ new = 1..Cardinality(new)
                 /\ old \subseteq new
                 /\ \A n \in old : db'.ver[<<a, n>>] = db.ver[<<a, n>>]
  <2>1. ContentInv' /\ Grown(db, db')
    BY <1>1, Kept
  <2>2. SavedVersions(db', a) = 1..Cardinality(SavedVersions(db', a))
    <3>1. PICK k \in 0..Versions[a] : SavedVersions(db', a) = 1..k
      BY <2>1 DEF ContentInv, Sound
    <3>2. Cardinality(1..k) = k
      BY FS_Interval, Keys
    <3> QED
      BY <3>1, <3>2
  <2> QED
    BY <2>1, <2>2 DEF Grown, Version
<1>2. ContentInv /\ [Next]_vars =>
        [\A a \in Articles :
           LET old == SavedVersions(db, a)
               new == SavedVersions(db', a)
           IN  /\ new = 1..Cardinality(new)
               /\ old \subseteq new
               /\ \A n \in old : db'.ver[<<a, n>>] = db.ver[<<a, n>>]]_vars
  BY <1>1
<1> QED
  BY <1>2, AlwaysInv, PTL DEF Spec, VersionsAppendOnly

\* Where a submission overlaps no other request, no save is lost: the latest
\* version of an article has the body of its text (update_article,
\* rollback_article).
THEOREM NoSaveIsLost == "submit" \in Alone => (Spec => []LatestVersionIsText)
<1> SUFFICES ASSUME "submit" \in Alone
             PROVE  Spec => []LatestVersionIsText
  OBVIOUS
<1>1. ASSUME ContentInv, NEW a \in Articles, SavedVersions(db, a) # {}
      PROVE  LET latest == db.ver[<<a, Max(SavedVersions(db, a))>>].text
             IN  latest # None /\ latest.body = db.art[a].text.body
  <2>1. Sound(db) /\ TextIs(db)
    BY <1>1 DEF ContentInv
  <2>2. PICK k \in 0..Versions[a] : SavedVersions(db, a) = 1..k
    BY <2>1 DEF Sound
  <2>3. k \in Nat /\ k # 0
    BY <1>1, <2>2, Keys
  <2>4. Max(1..k) = k
    <3>1. k \in 1..k /\ \A i \in 1..k : i <= k
      BY <2>3
    <3>2. \A i \in 1..k : i \in Int /\ (k <= i => i = k)
      BY <2>3
    <3> QED
      BY <3>1, <3>2 DEF Max
  <2>5. k \in 1..Versions[a] /\ k \in SavedVersions(db, a)
    BY <2>2, <2>3, Keys
  <2>6. Version(db, a, k).text \in Text
    BY <2>1, <2>5, SavedIs DEF Sound
  <2>7. Version(db, a, k).text.body = db.art[a].text.body
    BY <2>1, <2>2, <2>5 DEF TextIs
  <2> QED
    BY <2>2, <2>4, <2>6, <2>7, ContentAssumption DEF Version
<1>2. ContentInv => LatestVersionIsText
  BY <1>1 DEF LatestVersionIsText
<1> QED
  BY <1>2, AlwaysInv, PTL

\* Where a request of groups overlaps no other, the members of a group stand at
\* different positions (next_pos, reorder, remove_from_group).
THEOREM PositionsDiffer == "group" \in Alone => (Spec => []PositionsDistinct)
<1> SUFFICES ASSUME "group" \in Alone
             PROVE  Spec => []PositionsDistinct
  OBVIOUS
<1>1. ContentInv => PositionsDistinct
  BY DEF ContentInv, Grouped, PositionsDistinct
<1> QED
  BY <1>1, AlwaysInv, PTL

\* Where an upload or deletion of a material overlaps no other request, whatever
\* else does, an article has no cover that was deleted (delete_material).
THEOREM CoversExist == "material" \in Alone => (Spec => []CoverExists)
<1> SUFFICES ASSUME "material" \in Alone
             PROVE  Spec => []CoverExists
  OBVIOUS
<1>1. ContentInv => CoverExists
  BY DEF ContentInv, Covered, CoverExists, Stored
<1> QED
  BY <1>1, AlwaysInv, PTL

=============================================================================
