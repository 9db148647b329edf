---------------------------- MODULE ContentReview ----------------------------
(***************************************************************************)
(* The content centre: articles with their versions, covers and groups,    *)
(* their submission (which moves images to WeChat) and their review.       *)
(* API requests and the tick's automatic submission open on a snapshot and *)
(* commit later (DbSession).                                               *)
(***************************************************************************)
EXTENDS States, DbSession, Naturals, FiniteSets, FiniteSetsExt, Functions

CONSTANTS
  Articles, Groups, Materials,
  FirstBody,    \* the body of the articles mapping-engine has produced
  Bodies,       \* what content_html can be, images aside (titles are left out)
  Mapped,       \* the articles mapping-engine has produced
  Account,      \* Account[x]: the official account of article or group x
  Image,        \* Image[b]: the material an <img> of body b refers to, or None
  Hash,         \* Hash[m]: file_hash and type of material m
  Editors,      \* requests of users with perm_level >= 2 or full access
  Submitters,   \* requests of users with perm_level >= 3 or full access
  Auditors,     \* requests with content:article:audit
  ReviewEnabled, \* PUBLISH_REVIEW_ENABLED
  MaxGroupSize, \* MAX_GROUP_SIZE
  Versions,     \* Versions[a]: bound on the versions of article a
  LastPosition, \* bound on the positions a reordering gives
  None

Kinds == {"create", "edit", "cover", "version", "rollback", "submit", "audit",
          "group", "material"}

Accounts == Range(Account)

\* A text: its body, and whether its image points into WeChat's domain.
Text == [body: Bodies, wx: BOOLEAN]

ASSUME ContentAssumption ==
  /\ IsFiniteSet(Articles) /\ Mapped \subseteq Articles /\ FirstBody \in Bodies
  /\ DOMAIN Account = Articles \cup Groups
  /\ Image \in [Bodies -> Materials \cup {None}]
  /\ None \notin Materials \cup Groups \cup Bodies \cup Text
  /\ Submitters \subseteq Editors /\ Editors \cup Auditors \subseteq Requests
  /\ ReviewEnabled \in BOOLEAN
  /\ MaxGroupSize \in Nat \ {0}
  /\ Offers \subseteq SUBSET Kinds /\ Alone \subseteq Kinds
  /\ Versions \in [Articles -> Nat]
  /\ LastPosition \in Nat

vars == <<db, sess, offer>>

ArtRow ==
  [status: ArticleStatus \cup {"ABSENT"}, text: Text \cup {None},
   group: Groups \cup {None}, pos: Nat, cover: Materials \cup {None}]

NewArticle(t) ==
  [status |-> "TRANSFORMED", text |-> t, group |-> None, pos |-> 0, cover |-> None]

NoArticle == [NewArticle(None) EXCEPT !.status = "ABSENT"]

VersionKeys == {x \in Articles \X UNION {1..Versions[a] : a \in Articles} :
                  x[2] <= Versions[x[1]]}

InitDb(t) ==
  [art |-> [a \in Articles |-> IF a \in Mapped THEN NewArticle(t) ELSE NoArticle],
   ver |-> [x \in VersionKeys |-> [status |-> "ABSENT", text |-> None]],
   mat |-> [m \in Materials |-> [status |-> "ABSENT"]],
   ref |-> [x \in Materials \X Accounts |-> [status |-> "ABSENT"]],
   group |-> [g \in Groups |-> [status |-> "ABSENT"]],
   mp |-> [p \in Accounts |-> [review |-> TRUE]]]

Init == InitRequests(InitDb([body |-> FirstBody, wx |-> FALSE]))

-----------------------------------------------------------------------------
(* Requests *)

SameFile(s) ==
  \E m \in Added(sess[s].seen.mat, sess[s].new.mat), n \in Materials :
    db.mat[n].status = "STORED" /\ Hash[n] = Hash[m]

\* Mutant: versions without their unique key.
DuplicateButVersions(s) ==
  \/ \E t \in {"art", "ref"} :
        Collides(db[t], sess[s].seen[t], sess[s].new[t])
  \/ SameFile(s)

\* uk_art_ver, uk_mat_mp and the primary key of a new article; uk_hash_type.
Duplicate(s) ==
  \/ \E t \in {"art", "ver", "ref"} :
        Collides(db[t], sess[s].seen[t], sess[s].new[t])
  \/ SameFile(s)

Commit(s) == ~Idle(s) /\ CommitUnless(s, Duplicate(s), sess[s].new)

-----------------------------------------------------------------------------
(* Articles and versions *)

\* _assert_mp_edit, level 2
MayEdit(s) == s \in Editors

\* _require_article_mp_access, level 3
MaySubmit(s) == s \in Submitters

EditableStatuses == {"TRANSFORMED", "REJECTED"}

Editable(a) == db.art[a].status \in EditableStatuses

SavedVersions(d, a) ==
  {n \in 1..Versions[a] : d.ver[<<a, n>>].status = "SAVED"}

\* _next_version_no
NextVersionNo(d, a) == Max({0} \cup SavedVersions(d, a)) + 1

\* _snapshot_version; an article at its bound of versions takes no further ones.
Snapshot(d, a) ==
  [d EXCEPT !.ver[<<a, NextVersionNo(d, a)>>] =
              [status |-> "SAVED", text |-> d.art[a].text]]

MayVersion(a) == NextVersionNo(db, a) <= Versions[a]

Stored(m) == db.mat[m].status = "STORED"

CoverChoices == {None} \cup {m \in Materials : Stored(m)}

\* Mutant: the version is taken before the text is assigned.
SavedTooEarly(d, a, t) == [Snapshot(d, a) EXCEPT !.art[a].text = t]

\* The SAVE stage leaves body and images of the text as they are.
Saved(d, a, t) == Snapshot([d EXCEPT !.art[a].text = t], a)

CreateArticle(s, a) ==
  /\ MayEdit(s) /\ a \notin Mapped /\ ~Present(db.art[a]) /\ MayVersion(a)
  /\ \E b \in Bodies, c \in CoverChoices :
       Request(s, "create",
            Saved([db EXCEPT !.art[a] = [NewArticle(None) EXCEPT !.cover = c]],
                  a, [body |-> b, wx |-> FALSE]))

\* A save carries a text, a cover or both; only a text makes a version.
UpdateArticle(s, a) ==
  /\ MayEdit(s) /\ Editable(a)
  /\ \E c \in CoverChoices :
       LET covered == IF c = None THEN db ELSE [db EXCEPT !.art[a].cover = c]
           kind == IF c = None THEN "edit" ELSE "cover"
       IN \/ c # None /\ Request(s, kind, covered)
          \/ /\ MayVersion(a)
             /\ \E b \in Bodies, wx \in {FALSE, db.art[a].text.wx} :
                  Request(s, kind, Saved(covered, a, [body |-> b, wx |-> wx]))

CreateVersion(s, a) ==
  /\ MayEdit(s) /\ Present(db.art[a]) /\ MayVersion(a)
  /\ Request(s, "version", Snapshot(db, a))

RolledBack(d, a, n) == Saved(d, a, d.ver[<<a, n>>].text)

Rollback(s, a) ==
  /\ MayEdit(s) /\ Editable(a) /\ MayVersion(a)
  /\ \E n \in SavedVersions(db, a) : Request(s, "rollback", RolledBack(db, a, n))

-----------------------------------------------------------------------------
(* Submission and review *)

\* ensure_material_on_wx: a reference found is used, else the image is
\* uploaded and a reference added; then its src is replaced in the text.
Transferred(d, a) ==
  LET m == Image[d.art[a].text.body]
  IN IF d.art[a].text.wx \/ m = None \/ d.mat[m].status # "STORED" THEN d
     ELSE [d EXCEPT !.ref[<<m, Account[a]>>].status = "UPLOADED",
                    !.art[a].text.wx = TRUE]

ReviewOn(a) == ReviewEnabled /\ db.mp[Account[a]].review

\* The status a request wants; a move outside the white list is a 422.
Moving(s, kind, a, d, to) ==
  /\ <<d.art[a].status, to>> \in ArticleTransitions
  /\ Request(s, kind, [d EXCEPT !.art[a].status = to])

SubmitArticle(s, a) ==
  /\ Editable(a)
  /\ Moving(s, "submit", a, Transferred(db, a),
            IF ReviewOn(a) THEN "PENDING_REVIEW" ELSE "APPROVED")

Submit(s, a) == MaySubmit(s) /\ SubmitArticle(s, a)

\* _auto_submit: each article of the batch is submitted and committed by itself.
AutoSubmit(s, a) ==
  /\ a \in Mapped /\ db.art[a].status = "TRANSFORMED" /\ db.art[a].group = None
  /\ SubmitArticle(s, a)

Audit(s, a) ==
  /\ s \in Auditors /\ db.art[a].status = "PENDING_REVIEW"
  /\ \E to \in {"APPROVED", "REJECTED"} : Moving(s, "audit", a, db, to)

\* execute_publish has put the article online (PublishPipeline).
Published(a) ==
  /\ db.art[a].status = "APPROVED"
  /\ db' = [db EXCEPT !.art[a].status = "DRAFT_CREATED"]
  /\ UNCHANGED <<sess, offer>>

\* update_account sets need_review.
SetReview(p) ==
  /\ db' = [db EXCEPT !.mp[p].review = ~@]
  /\ UNCHANGED <<sess, offer>>

-----------------------------------------------------------------------------
(* Groups *)

Members(d, g) == {a \in Articles : Present(d.art[a]) /\ d.art[a].group = g}

CreateGroup(s, g) ==
  /\ MayEdit(s) /\ ~Present(db.group[g])
  /\ Request(s, "group", [db EXCEPT !.group[g].status = "EDITING"])

\* Mutant: the position after the last one is the number of members.
NextPositionByCount(g) == Cardinality(Members(db, g))

NextPosition(g) == Max({0} \cup {db.art[m].pos + 1 : m \in Members(db, g)})

AddToGroup(s, g, a) ==
  /\ MayEdit(s) /\ Present(db.group[g]) /\ Present(db.art[a])
  /\ Account[a] = Account[g]
  /\ db.art[a].group = None
  /\ Cardinality(Members(db, g)) < MaxGroupSize
  /\ Request(s, "group", [db EXCEPT !.art[a].group = g, !.art[a].pos = NextPosition(g)])

\* The body lists each member at least once, however often, and the last mention
\* counts: any different positions are those of some list (up to LastPosition).
Reorderings(g) ==
  {pos \in [Members(db, g) -> 0..LastPosition] : IsInjective(pos)}

Reorder(s, g) ==
  /\ MayEdit(s) /\ Members(db, g) # {}
  /\ \E pos \in Reorderings(g) :
       Request(s, "group",
            [db EXCEPT !.art = [a \in Articles |->
               IF a \in Members(db, g) THEN [db.art[a] EXCEPT !.pos = pos[a]]
               ELSE db.art[a]]])

\* The members that stay are numbered 0, 1, ... in the order they had (by id
\* where positions are equal: the order of CHOOSE stands for it).
Renumbered(d, g) ==
  LET M == Members(d, g)
      Before(m) == {x \in M : d.art[x].pos < d.art[m].pos}
      Ties(m) == {x \in M : d.art[x].pos = d.art[m].pos}
      rank == CHOOSE r \in [M -> 0..Cardinality(M)] :
                \A m \in M : /\ r[m] >= Cardinality(Before(m))
                             /\ r[m] < Cardinality(Before(m)) + Cardinality(Ties(m))
                             /\ \A x \in M \ {m} : r[x] # r[m]
  IN [d EXCEPT !.art = [a \in Articles |->
        IF a \in M THEN [d.art[a] EXCEPT !.pos = rank[a]] ELSE d.art[a]]]

RemoveFromGroup(s, g, a) ==
  /\ MayEdit(s) /\ a \in Members(db, g)
  /\ Request(s, "group",
          Renumbered([db EXCEPT !.art[a].group = None, !.art[a].pos = 0], g))

-----------------------------------------------------------------------------
(* Materials *)

\* The same file again is answered with the row there is.
UploadMaterial(s, m) ==
  /\ db.mat[m].status = "ABSENT"
  /\ ~\E n \in Materials : Stored(n) /\ Hash[n] = Hash[m]
  /\ Request(s, "material", [db EXCEPT !.mat[m].status = "STORED"])

\* Mutant: only articles that can still be edited keep their cover.
FreeOfEditable(m) ==
  ~\E a \in Articles : Editable(a) /\ db.art[a].cover = m

Free(m) == ~\E a \in Articles : Present(db.art[a]) /\ db.art[a].cover = m

DeleteMaterial(s, m) ==
  /\ Stored(m) /\ Free(m)
  /\ Request(s, "material", [db EXCEPT !.mat[m].status = "DELETED"])

-----------------------------------------------------------------------------
OnArticle(s, a) ==
  \/ CreateArticle(s, a) \/ UpdateArticle(s, a) \/ CreateVersion(s, a)
  \/ Rollback(s, a) \/ Submit(s, a) \/ AutoSubmit(s, a) \/ Audit(s, a)

OnGroup(s, g) ==
  \/ CreateGroup(s, g) \/ Reorder(s, g)
  \/ \E a \in Articles : AddToGroup(s, g, a) \/ RemoveFromGroup(s, g, a)

OnMaterial(s, m) == UploadMaterial(s, m) \/ DeleteMaterial(s, m)

Next ==
  \/ \E s \in Requests :
       \/ Commit(s) \/ Abort(s)
       \/ \E a \in Articles : OnArticle(s, a)
       \/ \E g \in Groups : OnGroup(s, g)
       \/ \E m \in Materials : OnMaterial(s, m)
  \/ \E a \in Articles : Published(a)
  \/ \E p \in Accounts : SetReview(p)

Spec == Init /\ [][Next]_vars

-----------------------------------------------------------------------------
(* Properties *)

\* Every table keeps its columns, a version is saved with its text, and every
\* request in flight is of a kind the routes offer.
TypeOK ==
  /\ db.art \in [Articles -> ArtRow]
  /\ \A x \in VersionKeys :
       (db.ver[x].status = "SAVED") <=> (db.ver[x].text \in Text)
  /\ db.mat \in [Materials -> [status: {"ABSENT", "STORED", "DELETED"}]]
  /\ \A s \in Requests : sess[s].kind \in Kinds \cup {"idle"}

\* The versions of an article are numbered 1, 2, ... without a gap, and a
\* version once saved is never changed or taken by another save, whatever
\* saves, rollbacks and manual versions run beside each other: of two that
\* read the same last number one is refused (_next_version_no, uk_art_ver).
VersionsAppendOnly ==
  [][\A a \in Articles :
       LET old == SavedVersions(db, a)
           new == SavedVersions(db', a)
       IN /\ new = 1..Cardinality(new)
          /\ old \subseteq new
          /\ \A n \in old : db'.ver[<<a, n>>] = db.ver[<<a, n>>]]_vars

\* Images aside, the text of an article is the text of its latest version, once
\* it has one: no save is lost under another, and rollback leaves its trace
\* (update_article, rollback_article, submit_article).
LatestVersionIsText ==
  \A a \in Articles :
    SavedVersions(db, a) # {} =>
      LET latest == db.ver[<<a, Max(SavedVersions(db, a))>>].text
      IN latest # None /\ latest.body = db.art[a].text.body

\* The members of a group stand at different positions, also after a member
\* left and after a reordering that names a member twice (next_pos, enumerate).
PositionsDistinct ==
  \A g \in Groups : \A a, b \in Members(db, g) :
    a # b => db.art[a].pos # db.art[b].pos

\* The cover of an article is a material that still exists (delete_material).
CoverExists ==
  \A a \in Articles : db.art[a].cover # None => Stored(db.art[a].cover)

\* From PENDING_REVIEW on nothing changes the text: the comment at
\* EDITABLE_STATUSES.  (A submission changes text and status in one step.)
TextFrozen ==
  [][\A a \in Articles :
       db.art[a].status \in {"PENDING_REVIEW", "APPROVED", "DRAFT_CREATED"}
         => db'.art[a].text = db.art[a].text]_vars
=============================================================================
