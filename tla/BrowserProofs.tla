--------------------------- MODULE BrowserProofs ---------------------------
(***************************************************************************)
(* The invariants of BrowserSession, for any tabs with any calls, and any  *)
(* number of refresh tokens.                                               *)
(***************************************************************************)
EXTENDS BrowserSession, FiniteSetTheorems, WellFoundedInduction, TLAPS

Stages == RefreshStages \cup {"idle", "sent", "queued", "scanned"}

CallRecord ==
  [pc: Stages, good: BOOLEAN, retried: BOOLEAN, token: Tokens \cup {NoToken},
   keys: SUBSET Tokens]

AdminRecord ==
  [pc: {"idle", "disable", "password", "commit"}, keys: SUBSET Tokens]

\* Every variable has its type.
Shape ==
  /\ white \in SUBSET Tokens /\ enabled \in BOOLEAN
  /\ store \in Tokens \cup {NoToken}
  /\ tab \in [Tabs -> [access: BOOLEAN, refreshing: BOOLEAN]]
  /\ call \in [Calls -> CallRecord]
  /\ admin \in AdminRecord
  /\ out \in BOOLEAN /\ calm \in BOOLEAN

Refreshing(c) == call[c].pc \in RefreshStages

\* isRefreshing is set exactly while one call of the tab refreshes, and calls
\* wait for one only then.
RefreshKept ==
  /\ \A c, d \in Calls :
       Refreshing(c) /\ Refreshing(d) /\ TabOf(c) = TabOf(d) => c = d
  /\ \A c \in Calls :
       Refreshing(c) \/ call[c].pc = "queued" => tab[TabOf(c)].refreshing
  /\ \A t \in Tabs :
       tab[t].refreshing => \E c \in Calls : TabOf(c) = t /\ Refreshing(c)

\* The calls that may still be given a new refresh token: a call that was sent
\* again does not refresh a second time.
Needy ==
  {c \in Calls : \/ call[c].pc \in {"refresh", "rotate", "add"}
                 \/ call[c].pc = "sent" /\ ~call[c].retried}

\* For each of them there is a number not in use.
RoomKept ==
  /\ IsFiniteSet(Active)
  /\ Cardinality(Needy) <= Cardinality(Free)

\* After a revocation no refresh is between its check and its new key, and none
\* gets there, for the check finds nothing on the white list.
OutKept ==
  out => white = {} /\ \A c \in Calls : call[c].pc \notin {"rotate", "add"}

\* In a calm behaviour nobody is disabled, and nothing counts before a login.
CalmWorld == enabled /\ admin.pc = "idle" /\ (store = NoToken => white = {})

\* The calls are those of one tab; none is refused.
CalmCall(c) ==
  call[c].pc # "idle" =>
    /\ store # NoToken /\ TabOf(c) = MainTab /\ c # LogoutCall
    /\ call[c].pc \notin {"refused", "scanned"}

\* The token that counts is the one in localStorage, but while a refresh has
\* deleted it or carries the new one.
CalmToken(c) ==
  /\ call[c].pc \in {"refresh", "rotate"} => call[c].token = store /\ white = {store}
  /\ call[c].pc = "add" => white = {}
  /\ call[c].pc = "answered" => call[c].token # NoToken /\ white = {call[c].token}

NobodyRefreshes == \A c \in Calls : ~Refreshing(c)

CalmKept ==
  calm =>
    /\ CalmWorld
    /\ \A c \in Calls : CalmCall(c) /\ CalmToken(c)
    /\ store # NoToken /\ NobodyRefreshes => white = {store}

-----------------------------------------------------------------------------
(* Tabs, calls and numbers *)

\* A call belongs to one tab.
LEMMA OneTab ==
  /\ \A c \in Calls : TabOf(c) \in Tabs /\ c \in CallsOf[TabOf(c)]
  /\ \A t \in Tabs : \A c \in CallsOf[t] : c \in Calls /\ TabOf(c) = t
  /\ MainTab \in Tabs /\ LogoutCall \in Calls
<1>1. ASSUME NEW c \in Calls
      PROVE  TabOf(c) \in Tabs /\ c \in CallsOf[TabOf(c)]
  BY <1>1 DEF Calls, TabOf
<1>2. ASSUME NEW t \in Tabs, NEW c \in CallsOf[t]
      PROVE  c \in Calls /\ TabOf(c) = t
  BY <1>1, <1>2, BrowserAssumption DEF Calls
<1> QED
  BY <1>1, <1>2, BrowserAssumption

\* A nonempty set of numbers has a least element.
LEMMA MinIn ==
  ASSUME NEW S \in SUBSET Nat, S # {}
  PROVE  Min(S) \in S
<1> DEFINE R == {p \in Nat \X Nat : p[1] < p[2]}
<1>1. IsWellFoundedOn(R, Nat)
  BY NatLessThanWellFounded DEF OpToRel
<1>2. PICK x \in S : \A y \in S : ~(<<y, x>> \in R)
  BY <1>1, WFMin
<1>3. ASSUME NEW y \in S
      PROVE  x =< y
  <2>1. ~(<<y, x>> \in R)
    BY <1>2
  <2>2. <<y, x>> \in Nat \X Nat /\ <<y, x>>[1] = y /\ <<y, x>>[2] = x
    OBVIOUS
  <2> QED
    BY <2>1, <2>2
<1> QED
  BY <1>3 DEF Min

\* The numbers are finitely many, and 0 is not among them.
LEMMA FreeSet ==
  /\ Tokens \in SUBSET Nat /\ NoToken \notin Tokens
  /\ Free \in SUBSET Tokens /\ IsFiniteSet(Free) /\ Cardinality(Free) \in Nat
  /\ Free # {} => Min(Free) \in Free
<1>1. Tokens \in SUBSET Nat /\ NoToken \notin Tokens /\ IsFiniteSet(Tokens)
  BY BrowserAssumption, FS_Interval DEF Tokens, NoToken
<1>2. Free \in SUBSET Tokens
  BY DEF Free
<1>3. IsFiniteSet(Free) /\ Cardinality(Free) \in Nat
  BY <1>1, <1>2, FS_Subset, FS_CardinalityType
<1> QED
  BY <1>1, <1>2, <1>3, MinIn

\* The numbers in use, one by one.
LEMMA InFree ==
  \A k : k \in Free <=>
    /\ k \in Tokens /\ k \notin white /\ k # store /\ k \notin admin.keys
    /\ \A c \in Calls : k # call[c].token /\ k \notin call[c].keys
<1> DEFINE U == UNION ({call[c].keys : c \in Calls} \cup {admin.keys})
           T == {call[c].token : c \in Calls}
<1>1. \A k : k \in U <=> k \in admin.keys \/ \E c \in Calls : k \in call[c].keys
  OBVIOUS
<1>2. \A k : k \in T <=> \E c \in Calls : k = call[c].token
  OBVIOUS
<1>3. Free = Tokens \ (white \cup {store} \cup T \cup U)
  BY DEF Free
<1> HIDE DEF U, T
<1> QED
  BY <1>1, <1>2, <1>3

\* The records of a call.
LEMMA CallTypes ==
  /\ NoCall \in CallRecord /\ Refusal \in CallRecord
  /\ \A g, r \in BOOLEAN : Sent(g, r) \in CallRecord
  /\ \A p \in Stages : [NoCall EXCEPT !.pc = p] \in CallRecord
  /\ \A p \in Stages, k \in Tokens \cup {NoToken} :
       [NoCall EXCEPT !.pc = p, !.token = k] \in CallRecord
  /\ \A k \in CallRecord : \A p \in Stages :
       /\ [k EXCEPT !.pc = p] \in CallRecord
       /\ \A w \in SUBSET Tokens : [k EXCEPT !.pc = p, !.keys = w] \in CallRecord
       /\ \A n \in Tokens : [k EXCEPT !.pc = p, !.token = n, !.good = TRUE] \in CallRecord
  /\ NoAdmin \in AdminRecord
<1>1. \A k \in CallRecord : \A p \in Stages :
       /\ [k EXCEPT !.pc = p] \in CallRecord
       /\ \A w \in SUBSET Tokens : [k EXCEPT !.pc = p, !.keys = w] \in CallRecord
       /\ \A n \in Tokens : [k EXCEPT !.pc = p, !.token = n, !.good = TRUE] \in CallRecord
  BY DEF CallRecord
<1>2. Stages = {"refresh", "rotate", "add", "answered", "refused", "idle", "sent", "queued", "scanned"}
  BY DEF Stages, RefreshStages
<1>3. NoCall \in CallRecord /\ NoAdmin \in AdminRecord
  BY <1>2 DEF NoCall, CallRecord, NoAdmin, AdminRecord
<1>4. \A g, r \in BOOLEAN : Sent(g, r) \in CallRecord
  BY <1>2, <1>3 DEF Sent, CallRecord
<1>5. Refusal \in CallRecord
  BY <1>1, <1>2, <1>3 DEF Refusal
<1>6. \A p \in Stages, k \in Tokens \cup {NoToken} :
        [NoCall EXCEPT !.pc = p, !.token = k] \in CallRecord
  BY <1>3 DEF CallRecord
<1> QED
  BY <1>1, <1>3, <1>4, <1>5, <1>6

\* The names of the stages.
LEMMA StageNames ==
  /\ RefreshStages = {"refresh", "rotate", "add", "answered", "refused"}
  /\ Stages = {"refresh", "rotate", "add", "answered", "refused", "idle", "sent",
               "queued", "scanned"}
  BY DEF Stages, RefreshStages

\* A login, a call and a refresh find a number for the token they add.
LEMMA NewNumber ==
  ASSUME Shape, RoomKept,
         Room \/ \E c \in Calls : call[c].pc = "add"
  PROVE  Min(Free) \in Free /\ Min(Free) \in Tokens
<1>1. IsFiniteSet(Needy) /\ Cardinality(Needy) \in Nat /\ Cardinality(Active) \in Nat
  <2>1. Needy \in SUBSET Active
    BY DEF Needy, Active
  <2> QED
    BY <2>1, FS_Subset, FS_CardinalityType DEF RoomKept
<1>2. Cardinality(Free) > 0
  <2>1. CASE Room
    BY <1>1, <2>1, FreeSet DEF Room
  <2>2. CASE \E c \in Calls : call[c].pc = "add"
    <3>1. Needy # {}
      BY <2>2 DEF Needy
    <3> QED
      BY <1>1, <3>1, FreeSet, FS_EmptySet DEF RoomKept
  <2> QED
    BY <2>1, <2>2
<1>3. Free # {}
  BY <1>2, FS_EmptySet
<1> QED
  BY <1>3, FreeSet

-----------------------------------------------------------------------------
(* Types *)

LEMMA BusyType ==
  ASSUME Shape
  PROVE  \A t \in Tabs : Busy(t) \in BOOLEAN
  BY DEF Shape, Busy

LEMMA EndedShape ==
  ASSUME Shape, NEW t \in Tabs, NEW ended, NEW failed, NEW r \in BOOLEAN,
         Ended(t, ended, failed, r)
  PROVE  /\ call' \in [Calls -> CallRecord]
         /\ tab' \in [Tabs -> [access: BOOLEAN, refreshing: BOOLEAN]]
         /\ store' \in Tokens \cup {NoToken}
<1>1. call' \in [Calls -> CallRecord]
  BY CallTypes DEF Ended, Shape
<1>2. \A a \in BOOLEAN, p \in [access: BOOLEAN, refreshing: BOOLEAN] :
        /\ [access |-> a, refreshing |-> r] \in [access: BOOLEAN, refreshing: BOOLEAN]
        /\ [p EXCEPT !.refreshing = r] \in [access: BOOLEAN, refreshing: BOOLEAN]
  OBVIOUS
<1>3. store' \in Tokens \cup {NoToken}
  BY DEF Ended, Shape
<1>4. tab' \in [Tabs -> [access: BOOLEAN, refreshing: BOOLEAN]]
  <2>1. tab[t] \in [access: BOOLEAN, refreshing: BOOLEAN]
    BY DEF Shape
  <2>2. [access |-> FALSE, refreshing |-> r] \in [access: BOOLEAN, refreshing: BOOLEAN]
    BY <1>2
  <2>3. [tab[t] EXCEPT !.refreshing = r] \in [access: BOOLEAN, refreshing: BOOLEAN]
    BY <1>2, <2>1
  <2>4. CASE failed \/ LogoutCall \in ended
    BY <2>2, <2>4 DEF Ended, Shape
  <2>5. CASE ~(failed \/ LogoutCall \in ended)
    BY <2>3, <2>5 DEF Ended, Shape
  <2> QED
    BY <2>4, <2>5
<1> QED
  BY <1>1, <1>3, <1>4

LEMMA EndsShape ==
  ASSUME Shape, NEW c \in Calls, Ended(TabOf(c), {c}, FALSE, Busy(TabOf(c)))
  PROVE  /\ call' \in [Calls -> CallRecord]
         /\ tab' \in [Tabs -> [access: BOOLEAN, refreshing: BOOLEAN]]
         /\ store' \in Tokens \cup {NoToken}
<1> DEFINE t == TabOf(c)  r == Busy(TabOf(c))
<1>1. t \in Tabs /\ r \in BOOLEAN
  BY OneTab, BusyType
<1>2. Ended(t, {c}, FALSE, r)
  OBVIOUS
<1> HIDE DEF t, r
<1> QED
  BY <1>1, <1>2, EndedShape

LEMMA AccessEndsShape ==
  ASSUME Shape, NEW t \in Tabs, NEW cs \in [Calls -> CallRecord], AccessEnds(t, cs)
  PROVE  /\ call' \in [Calls -> CallRecord]
         /\ tab' \in [Tabs -> [access: BOOLEAN, refreshing: BOOLEAN]]
<1>1. \A k \in CallRecord : [k EXCEPT !.good = FALSE] \in CallRecord
  BY DEF CallRecord
<1>2. call' \in [Calls -> CallRecord]
  BY <1>1 DEF AccessEnds
<1> QED
  BY <1>2 DEF AccessEnds, Shape

LEMMA ShapeKept ==
  ASSUME Shape, RoomKept, [Next]_vars
  PROVE  Shape'
<1> USE OneTab, CallTypes
<1>1. ASSUME NEW t \in Tabs, Login(t)
      PROVE  Shape'
  BY <1>1, NewNumber DEF Login, Shape
<1>2. ASSUME NEW t \in Tabs, Reload(t)
      PROVE  Shape'
  BY <1>2 DEF Reload, Shape, server
<1>3. ASSUME NEW t \in Tabs, AccessExpires(t)
      PROVE  Shape'
  BY <1>3, AccessEndsShape DEF AccessExpires, Shape, server
<1>4. ASSUME NEW c \in Calls, Send(c)
      PROVE  Shape'
  BY <1>4 DEF Send, Shape, server
<1>5. ASSUME NEW c \in Calls, Answer(c)
      PROVE  Shape'
  <2>1. CASE c = LogoutCall
    <3>1. [call EXCEPT ![c].pc = "scanned", ![c].keys = white] \in [Calls -> CallRecord]
      <4>1. [call[c] EXCEPT !.pc = "scanned", !.keys = white] \in CallRecord
        BY <1>5, StageNames DEF Shape
      <4> QED
        BY <1>5, <4>1 DEF Shape
    <3> QED
      BY <1>5, <2>1, <3>1, AccessEndsShape DEF Answer, Shape, server
  <2>2. CASE c # LogoutCall
    <3>1. Ended(TabOf(c), {c}, FALSE, Busy(TabOf(c)))
      BY <1>5, <2>2 DEF Answer
    <3>2. /\ call' \in [Calls -> CallRecord]
          /\ tab' \in [Tabs -> [access: BOOLEAN, refreshing: BOOLEAN]]
          /\ store' \in Tokens \cup {NoToken}
      BY <1>5, <3>1, EndsShape
    <3> QED
      BY <1>5, <3>2 DEF Answer, Shape, server
  <2> QED
    BY <2>1, <2>2
<1>6. ASSUME NEW c \in Calls, Unauthorized(c)
      PROVE  Shape'
  <2>1. CASE call[c].retried
    <3>1. Ended(TabOf(c), {c}, FALSE, Busy(TabOf(c)))
      BY <1>6, <2>1 DEF Unauthorized
    <3>2. /\ call' \in [Calls -> CallRecord]
          /\ tab' \in [Tabs -> [access: BOOLEAN, refreshing: BOOLEAN]]
          /\ store' \in Tokens \cup {NoToken}
      BY <1>6, <3>1, EndsShape
    <3> QED
      BY <1>6, <3>2 DEF Unauthorized, Shape, server
  <2>2. CASE ~call[c].retried
    <3>1. CASE Busy(TabOf(c))
      <4>1. /\ call' = [call EXCEPT ![c] = [NoCall EXCEPT !.pc = "queued"]]
            /\ UNCHANGED <<white, enabled, store, tab, admin, out, calm>>
        BY <1>6, <2>2, <3>1 DEF Unauthorized, server
      <4>2. [NoCall EXCEPT !.pc = "queued"] \in CallRecord
        BY StageNames
      <4> QED
        BY <1>6, <4>1, <4>2 DEF Shape
    <3>2. CASE ~Busy(TabOf(c))
      <4>1. /\ tab' = [tab EXCEPT ![TabOf(c)].refreshing = TRUE]
            /\ \/ call' = [call EXCEPT ![c] = Refusal]
               \/ call' = [call EXCEPT ![c] = [NoCall EXCEPT !.pc = "refresh", !.token = store]]
            /\ UNCHANGED <<white, enabled, store, admin, out, calm>>
        BY <1>6, <2>2, <3>2 DEF Unauthorized, server
      <4>2. [NoCall EXCEPT !.pc = "refresh", !.token = store] \in CallRecord
        BY StageNames DEF Shape
      <4>3. call' \in [Calls -> CallRecord]
        BY <1>6, <4>1, <4>2 DEF Shape
      <4>4. tab' \in [Tabs -> [access: BOOLEAN, refreshing: BOOLEAN]]
        BY <1>6, <4>1 DEF Shape
      <4> QED
        BY <1>6, <4>1, <4>3, <4>4 DEF Shape
    <3> QED
      BY <3>1, <3>2
  <2> QED
    BY <2>1, <2>2
<1>7. ASSUME NEW c \in Calls, Refreshed(c)
      PROVE  Shape'
  <2>1. call[c] \in CallRecord /\ call[c].good \in BOOLEAN /\ call[c].token \in Tokens \cup {NoToken}
    BY <1>7 DEF Shape, CallRecord
  <2>2. call' \in [Calls -> CallRecord]
    BY <1>7, <2>1 DEF Refreshed, Shape
  <2> QED
    BY <1>7, <2>1, <2>2 DEF Refreshed, Shape, server
<1>8. ASSUME NEW c \in Calls, RefreshFails(c)
      PROVE  Shape'
  BY <1>8, EndedShape DEF RefreshFails, Shape, server, RefreshingAfter
<1>9. ASSUME NEW c \in Calls, CheckRefresh(c)
      PROVE  Shape'
  <2>1. [call[c] EXCEPT !.pc = "rotate"] \in CallRecord
    BY <1>9, StageNames DEF Shape
  <2> QED
    BY <1>9, <2>1 DEF CheckRefresh, Shape
<1>10. ASSUME NEW c \in Calls, DeleteOld(c)
      PROVE  Shape'
  BY <1>10 DEF DeleteOld, WithoutOld, Shape, Stages, RefreshStages
<1>11. ASSUME NEW c \in Calls, AddNew(c)
      PROVE  Shape'
  <2>1. Min(Free) \in Tokens
    BY <1>11, NewNumber DEF AddNew
  <2>2. [call[c] EXCEPT !.pc = "answered", !.token = Min(Free), !.good = TRUE] \in CallRecord
    BY <1>11, <2>1, StageNames DEF Shape
  <2> QED
    BY <1>11, <2>1, <2>2 DEF AddNew, Shape
<1>12. ASSUME NEW c \in Calls, LogoutRevokes(c)
      PROVE  Shape'
  <2>1. Ended(TabOf(c), {c}, FALSE, Busy(TabOf(c)))
    BY <1>12 DEF LogoutRevokes
  <2>2. /\ call' \in [Calls -> CallRecord]
        /\ tab' \in [Tabs -> [access: BOOLEAN, refreshing: BOOLEAN]]
        /\ store' \in Tokens \cup {NoToken}
    BY <1>12, <2>1, EndsShape
  <2> QED
    BY <1>12, <2>2 DEF LogoutRevokes, Revoked, Shape
<1>13. ASSUME NEW c \in Calls, Lost(c)
      PROVE  Shape'
  BY <1>13 DEF Lost, Shape, server
<1>14. ASSUME AdminScans
      PROVE  Shape'
  <2>1. \A p \in {"disable", "password"} : [pc |-> p, keys |-> white] \in AdminRecord
    BY DEF Shape, AdminRecord
  <2> QED
    BY <1>14, <2>1 DEF AdminScans, Shape, server
<1>15. ASSUME AdminRevokes
      PROVE  Shape'
  BY <1>15 DEF AdminRevokes, Revoked, Shape, AdminRecord
<1>16. ASSUME AdminCommits
      PROVE  Shape'
  BY <1>16 DEF AdminCommits, Shape
<1>17. ASSUME Enable
      PROVE  Shape'
  BY <1>17 DEF Enable, Shape
<1>18. ASSUME NEW k \in Tokens, RefreshExpires(k)
      PROVE  Shape'
  BY <1>18 DEF RefreshExpires, Shape
<1>19. CASE UNCHANGED vars
  BY <1>19 DEF vars, Shape
<1> QED
  BY <1>1, <1>2, <1>3, <1>4, <1>5, <1>6, <1>7, <1>8, <1>9, <1>10, <1>11, <1>12, <1>13, <1>14, <1>15, <1>16, <1>17, <1>18, <1>19 DEF Next, Step

-----------------------------------------------------------------------------
(* What the actions do to a call and to its tab *)

\* Every call but c is left alone.
OnlyCall(c) == \A d \in Calls : d # c => call'[d] = call[d]

SameRefreshing == \A t \in Tabs : tab'[t].refreshing = tab[t].refreshing

\* What an expired or blocked access token leaves of a call.
AlmostSame(d) ==
  /\ call'[d].pc = call[d].pc /\ call'[d].retried = call[d].retried
  /\ call'[d].token = call[d].token /\ call'[d].keys = call[d].keys

\* The fields of the calls that the actions make.
LEMMA Fields ==
  /\ NoCall.pc = "idle" /\ NoCall.token = NoToken /\ NoCall.keys = {} /\ ~NoCall.retried
  /\ Refusal.pc = "refused" /\ Refusal.token = NoToken /\ Refusal.keys = {}
  /\ \A p : LET k == [NoCall EXCEPT !.pc = p]
           IN  k.pc = p /\ k.token = NoToken /\ k.keys = {}
  /\ \A p, n : LET k == [NoCall EXCEPT !.pc = p, !.token = n]
              IN  k.pc = p /\ k.token = n /\ k.keys = {}
  /\ \A g, r : LET k == Sent(g, r)
              IN  k.pc = "sent" /\ k.retried = r /\ k.token = NoToken /\ k.keys = {}
  BY DEF NoCall, Refusal, Sent

LEMMA EndsEffect ==
  ASSUME Shape, NEW c \in Calls, Ended(TabOf(c), {c}, FALSE, Busy(TabOf(c)))
  PROVE  /\ OnlyCall(c) /\ call'[c] = NoCall
         /\ store' = IF c = LogoutCall THEN NoToken ELSE store
         /\ SameRefreshing
<1>1. OnlyCall(c) /\ call'[c] = NoCall
  BY DEF Ended, OnlyCall
<1>2. store' = IF c = LogoutCall THEN NoToken ELSE store
  BY DEF Ended
<1>3. SameRefreshing
  <2>1. CASE c = LogoutCall
    BY <2>1, OneTab DEF Ended, Shape, Busy, SameRefreshing
  <2>2. CASE c # LogoutCall
    BY <2>2, OneTab DEF Ended, Shape, Busy, SameRefreshing
  <2> QED
    BY <2>1, <2>2
<1> QED
  BY <1>1, <1>2, <1>3

LEMMA AccessEndsEffect ==
  ASSUME Shape, NEW t \in Tabs, NEW cs \in [Calls -> CallRecord], AccessEnds(t, cs)
  PROVE  /\ SameRefreshing
         /\ \A d \in Calls :
              /\ call'[d].pc = cs[d].pc /\ call'[d].retried = cs[d].retried
              /\ call'[d].token = cs[d].token /\ call'[d].keys = cs[d].keys
<1>1. SameRefreshing
  BY DEF AccessEnds, Shape, SameRefreshing
<1>2. ASSUME NEW d \in Calls
      PROVE  /\ call'[d].pc = cs[d].pc /\ call'[d].retried = cs[d].retried
             /\ call'[d].token = cs[d].token /\ call'[d].keys = cs[d].keys
  <2>1. cs[d] \in CallRecord
    OBVIOUS
  <2>2. call'[d] = cs[d] \/ call'[d] = [cs[d] EXCEPT !.good = FALSE]
    BY DEF AccessEnds
  <2> QED
    BY <2>1, <2>2 DEF CallRecord
<1> QED
  BY <1>1, <1>2

LEMMA AnswerEffect ==
  ASSUME Shape, NEW c \in Calls, Answer(c)
  PROVE  /\ UNCHANGED <<white, enabled, store, admin, out, calm>>
         /\ SameRefreshing /\ call[c].pc = "sent"
         /\ \A d \in Calls : d # c => AlmostSame(d)
         /\ \/ /\ c # LogoutCall /\ call'[c] = NoCall
            \/ /\ c = LogoutCall /\ call'[c].pc = "scanned"
               /\ call'[c].token = call[c].token /\ call'[c].keys = white
<1>1. UNCHANGED <<white, enabled, store, admin, out, calm>> /\ call[c].pc = "sent"
  BY DEF Answer, Ended, server
<1>2. CASE c # LogoutCall
  <2>1. Ended(TabOf(c), {c}, FALSE, Busy(TabOf(c)))
    BY <1>2 DEF Answer
  <2> QED
    BY <1>1, <1>2, <2>1, EndsEffect DEF OnlyCall, AlmostSame
<1>3. CASE c = LogoutCall
  <2> DEFINE cs == [call EXCEPT ![c].pc = "scanned", ![c].keys = white]
  <2>1. AccessEnds(TabOf(c), cs)
    BY <1>3 DEF Answer
  <2>2. [call[c] EXCEPT !.pc = "scanned", !.keys = white] \in CallRecord
    BY CallTypes, StageNames DEF Shape
  <2>3. cs \in [Calls -> CallRecord]
    BY <2>2 DEF Shape
  <2>4. /\ cs[c].pc = "scanned" /\ cs[c].token = call[c].token /\ cs[c].keys = white
        /\ \A d \in Calls : d # c => cs[d] = call[d]
    BY DEF Shape, CallRecord
  <2> HIDE DEF cs
  <2> QED
    BY <1>1, <1>3, <2>1, <2>3, <2>4, OneTab, AccessEndsEffect DEF AlmostSame
<1> QED
  BY <1>2, <1>3

LEMMA UnauthorizedEffect ==
  ASSUME Shape, NEW c \in Calls, Unauthorized(c)
  PROVE  /\ UNCHANGED <<white, enabled, admin, out, calm>>
         /\ OnlyCall(c) /\ call[c].pc = "sent"
         /\ \/ /\ call'[c] = NoCall /\ SameRefreshing
               /\ store' = IF c = LogoutCall THEN NoToken ELSE store
            \/ /\ ~call[c].retried /\ tab[TabOf(c)].refreshing
               /\ call'[c].pc = "queued" /\ call'[c].token = NoToken
               /\ call'[c].keys = {} /\ UNCHANGED <<store, tab>>
            \/ /\ ~call[c].retried /\ ~tab[TabOf(c)].refreshing
               /\ tab'[TabOf(c)].refreshing
               /\ \A t \in Tabs : t # TabOf(c) => tab'[t] = tab[t]
               /\ call'[c].pc = IF store = NoToken THEN "refused" ELSE "refresh"
               /\ call'[c].token = store /\ call'[c].keys = {} /\ UNCHANGED store
<1>1. UNCHANGED <<white, enabled, admin, out, calm>> /\ call[c].pc = "sent"
  BY DEF Unauthorized, server
<1>2. call \in [Calls -> CallRecord] /\ call[c].retried \in BOOLEAN
      /\ tab \in [Tabs -> [access: BOOLEAN, refreshing: BOOLEAN]]
  BY DEF Shape, CallRecord
<1>3. CASE call[c].retried
  <2>1. Ended(TabOf(c), {c}, FALSE, Busy(TabOf(c)))
    BY <1>3 DEF Unauthorized
  <2> QED
    BY <1>1, <2>1, EndsEffect
<1>4. CASE ~call[c].retried /\ tab[TabOf(c)].refreshing
  <2>1. /\ call' = [call EXCEPT ![c] = [NoCall EXCEPT !.pc = "queued"]]
        /\ UNCHANGED <<store, tab>>
    BY <1>4 DEF Unauthorized, Busy
  <2>2. OnlyCall(c) /\ call'[c] = [NoCall EXCEPT !.pc = "queued"]
    BY <1>2, <2>1 DEF OnlyCall
  <2>3. call'[c].pc = "queued" /\ call'[c].token = NoToken /\ call'[c].keys = {}
    BY <2>2, Fields
  <2> QED
    BY <1>1, <1>4, <2>1, <2>2, <2>3
<1>5. CASE ~call[c].retried /\ ~tab[TabOf(c)].refreshing
  <2>1. /\ tab' = [tab EXCEPT ![TabOf(c)].refreshing = TRUE]
        /\ call' = [call EXCEPT ![c] =
             IF store = NoToken THEN Refusal
             ELSE [NoCall EXCEPT !.pc = "refresh", !.token = store]]
        /\ UNCHANGED store
    BY <1>5 DEF Unauthorized, Busy
  <2>2. tab'[TabOf(c)].refreshing /\ \A t \in Tabs : t # TabOf(c) => tab'[t] = tab[t]
    BY <1>2, <2>1, OneTab
  <2>3. /\ OnlyCall(c)
        /\ call'[c] = IF store = NoToken THEN Refusal
                      ELSE [NoCall EXCEPT !.pc = "refresh", !.token = store]
    BY <1>2, <2>1 DEF OnlyCall
  <2>4. /\ call'[c].pc = IF store = NoToken THEN "refused" ELSE "refresh"
        /\ call'[c].token = store /\ call'[c].keys = {}
    BY <2>3, Fields
  <2> QED
    BY <1>1, <1>5, <2>1, <2>2, <2>3, <2>4
<1> QED
  BY <1>3, <1>4, <1>5

LEMMA RefreshFailsEffect ==
  ASSUME Shape, NEW c \in Calls, RefreshFails(c)
  PROVE  /\ UNCHANGED <<white, enabled, admin, out, calm>> /\ store' = NoToken
         /\ call[c].pc = "refused" /\ ~tab'[TabOf(c)].refreshing
         /\ \A t \in Tabs : t # TabOf(c) => tab'[t] = tab[t]
         /\ \A d \in Calls :
              IF d = c \/ (TabOf(d) = TabOf(c) /\ call[d].pc = "queued")
              THEN call'[d] = NoCall ELSE call'[d] = call[d]
<1>1. \A d \in Calls : d \in Flushed(c) <=> d = c \/ (TabOf(d) = TabOf(c) /\ call[d].pc = "queued")
  BY OneTab DEF Flushed, Queued
<1>2. Ended(TabOf(c), Flushed(c), TRUE, FALSE)
  BY DEF RefreshFails, RefreshingAfter
<1>3. \A d \in Calls : call'[d] = IF d \in Flushed(c) THEN NoCall ELSE call[d]
  BY <1>2 DEF Ended
<1>4. store' = NoToken /\ tab' = [tab EXCEPT ![TabOf(c)] = [access |-> FALSE, refreshing |-> FALSE]]
  BY <1>2 DEF Ended
<1> QED
  BY <1>1, <1>3, <1>4, OneTab DEF RefreshFails, Shape, server

LEMMA RefreshedEffect ==
  ASSUME Shape, NEW c \in Calls, Refreshed(c)
  PROVE  /\ UNCHANGED <<white, enabled, admin, out, calm>> /\ store' = call[c].token
         /\ call[c].pc = "answered" /\ ~tab'[TabOf(c)].refreshing
         /\ \A t \in Tabs : t # TabOf(c) => tab'[t] = tab[t]
         /\ \A d \in Calls :
              IF d = c \/ (TabOf(d) = TabOf(c) /\ call[d].pc = "queued")
              THEN /\ call'[d].pc = "sent" /\ call'[d].retried
                   /\ call'[d].token = NoToken /\ call'[d].keys = {}
              ELSE call'[d] = call[d]
<1>1. \A d \in Calls : d \in Queued(TabOf(c)) \cup {c}
        <=> d = c \/ (TabOf(d) = TabOf(c) /\ call[d].pc = "queued")
  BY OneTab DEF Queued
<1>2. \A d \in Calls : call'[d] = IF d \in Queued(TabOf(c)) \cup {c}
                                  THEN Sent(call[c].good, TRUE) ELSE call[d]
  BY DEF Refreshed
<1>3. LET r == Sent(call[c].good, TRUE)
      IN  r.pc = "sent" /\ r.retried /\ r.token = NoToken /\ r.keys = {}
  BY DEF Sent, NoCall
<1>4. tab' = [tab EXCEPT ![TabOf(c)] = [access |-> call[c].good, refreshing |-> FALSE]]
  BY DEF Refreshed
<1>5. ~tab'[TabOf(c)].refreshing /\ \A t \in Tabs : t # TabOf(c) => tab'[t] = tab[t]
  BY <1>4, OneTab DEF Shape
<1>6. ASSUME NEW d \in Calls
      PROVE  IF d = c \/ (TabOf(d) = TabOf(c) /\ call[d].pc = "queued")
             THEN /\ call'[d].pc = "sent" /\ call'[d].retried
                  /\ call'[d].token = NoToken /\ call'[d].keys = {}
             ELSE call'[d] = call[d]
  <2>1. CASE d = c \/ (TabOf(d) = TabOf(c) /\ call[d].pc = "queued")
    BY <1>1, <1>2, <1>3, <2>1
  <2>2. CASE ~(d = c \/ (TabOf(d) = TabOf(c) /\ call[d].pc = "queued"))
    BY <1>1, <1>2, <2>2
  <2> QED
    BY <2>1, <2>2
<1>7. UNCHANGED <<white, enabled, admin, out, calm>> /\ store' = call[c].token
      /\ call[c].pc = "answered"
  BY DEF Refreshed, server
<1> QED
  BY <1>5, <1>6, <1>7

LEMMA LogoutRevokesEffect ==
  ASSUME Shape, NEW c \in Calls, LogoutRevokes(c)
  PROVE  /\ UNCHANGED <<enabled, admin, calm>> /\ Revoked(call[c].keys)
         /\ OnlyCall(c) /\ call'[c] = NoCall /\ SameRefreshing /\ call[c].pc = "scanned"
         /\ store' = IF c = LogoutCall THEN NoToken ELSE store
<1>1. Ended(TabOf(c), {c}, FALSE, Busy(TabOf(c)))
  BY DEF LogoutRevokes
<1> QED
  BY <1>1, EndsEffect DEF LogoutRevokes

LEMMA AccessExpiresEffect ==
  ASSUME Shape, NEW t \in Tabs, AccessExpires(t)
  PROVE  /\ UNCHANGED <<white, enabled, store, admin, out, calm>> /\ SameRefreshing
         /\ \A d \in Calls : AlmostSame(d)
  BY AccessEndsEffect DEF AccessExpires, Shape, server, AlmostSame

-----------------------------------------------------------------------------
(* Revocation *)

LEMMA OutStep ==
  ASSUME Shape, OutKept, [Next]_vars
  PROVE  OutKept'
<1> USE OneTab
<1>1. ASSUME NEW t \in Tabs, Login(t)
      PROVE  OutKept'
  BY <1>1 DEF Login, OutKept, Shape, server
<1>2. ASSUME NEW t \in Tabs, Reload(t)
      PROVE  OutKept'
  BY <1>2 DEF Reload, OutKept, Shape, server
<1>3. ASSUME NEW t \in Tabs, AccessExpires(t)
      PROVE  OutKept'
  BY <1>3 DEF AccessExpires, OutKept, Shape, AccessEnds, server
<1>4. ASSUME NEW c \in Calls, Send(c)
      PROVE  OutKept'
  BY <1>4 DEF Send, OutKept, Shape, server, Sent, NoCall
<1>5. ASSUME NEW c \in Calls, Answer(c)
      PROVE  OutKept'
  <2>1. out' = out /\ white' = white
    BY <1>5, AnswerEffect
  <2>2. ASSUME NEW d \in Calls, call'[d].pc \in {"rotate", "add"}
        PROVE  call[d].pc \in {"rotate", "add"}
    BY <1>5, <2>2, AnswerEffect DEF AlmostSame, NoCall
  <2> QED
    BY <2>1, <2>2 DEF OutKept
<1>6. ASSUME NEW c \in Calls, Unauthorized(c)
      PROVE  OutKept'
  <2>1. out' = out /\ white' = white
    BY <1>6, UnauthorizedEffect
  <2>2. ASSUME NEW d \in Calls, call'[d].pc \in {"rotate", "add"}
        PROVE  call[d].pc \in {"rotate", "add"}
    <3>1. call'[c].pc \in {"idle", "queued", "refused", "refresh"}
      BY <1>6, UnauthorizedEffect, Fields
    <3>2. d # c
      BY <2>2, <3>1
    <3> QED
      BY <1>6, <2>2, <3>2, UnauthorizedEffect DEF OnlyCall
  <2> QED
    BY <2>1, <2>2 DEF OutKept
<1>7. ASSUME NEW c \in Calls, Refreshed(c)
      PROVE  OutKept'
  BY <1>7 DEF Refreshed, OutKept, Shape, server, Sent, NoCall
<1>8. ASSUME NEW c \in Calls, RefreshFails(c)
      PROVE  OutKept'
  BY <1>8 DEF RefreshFails, OutKept, Shape, server, Ended, NoCall
<1>9. ASSUME NEW c \in Calls, CheckRefresh(c)
      PROVE  OutKept'
  BY <1>9 DEF CheckRefresh, OutKept, Shape, Whitelisted, Refusal, NoCall
<1>10. ASSUME NEW c \in Calls, DeleteOld(c)
      PROVE  OutKept'
  BY <1>10 DEF DeleteOld, OutKept, Shape, WithoutOld, NoCall
<1>11. ASSUME NEW c \in Calls, AddNew(c)
      PROVE  OutKept'
  BY <1>11 DEF AddNew, OutKept, Shape, server
<1>12. ASSUME NEW c \in Calls, LogoutRevokes(c)
      PROVE  OutKept'
  BY <1>12 DEF LogoutRevokes, OutKept, Shape, Revoked, Ended, NoCall
<1>13. ASSUME NEW c \in Calls, Lost(c)
      PROVE  OutKept'
  BY <1>13 DEF Lost, OutKept, Shape, server, Refusal, NoCall
<1>14. ASSUME AdminScans
      PROVE  OutKept'
  BY <1>14 DEF AdminScans, OutKept, Shape, server
<1>15. ASSUME AdminRevokes
      PROVE  OutKept'
  BY <1>15 DEF AdminRevokes, OutKept, Shape, Revoked
<1>16. ASSUME AdminCommits
      PROVE  OutKept'
  BY <1>16 DEF AdminCommits, OutKept, Shape, server
<1>17. ASSUME Enable
      PROVE  OutKept'
  BY <1>17 DEF Enable, OutKept, Shape, server
<1>18. ASSUME NEW k \in Tokens, RefreshExpires(k)
      PROVE  OutKept'
  BY <1>18 DEF RefreshExpires, OutKept, Shape, server
<1>19. CASE UNCHANGED vars
  BY <1>19 DEF vars, OutKept
<1> QED
  BY <1>1, <1>2, <1>3, <1>4, <1>5, <1>6, <1>7, <1>8, <1>9, <1>10, <1>11, <1>12, <1>13, <1>14, <1>15, <1>16, <1>17, <1>18, <1>19 DEF Next, Step

-----------------------------------------------------------------------------
(* Who refreshes *)

\* No call has begun to refresh or to wait, and none has ended its refresh.
SameStages ==
  \A d \in Calls :
    /\ Refreshing(d)' <=> Refreshing(d)
    /\ call'[d].pc = "queued" => call[d].pc = "queued"

LEMMA StagesSame ==
  ASSUME RefreshKept, SameStages, SameRefreshing
  PROVE  RefreshKept'
<1>1. \A d \in Calls : TabOf(d) \in Tabs
  BY OneTab
<1> QED
  BY <1>1 DEF RefreshKept, SameStages, SameRefreshing

LEMMA RefreshStep ==
  ASSUME Shape, RefreshKept, [Next]_vars
  PROVE  RefreshKept'
<1> USE OneTab
<1>1. ASSUME NEW t \in Tabs, Login(t)
      PROVE  RefreshKept'
  <2>1. SameStages /\ SameRefreshing
    BY <1>1, StageNames, Fields DEF Login, Shape, server, SameStages, SameRefreshing, Refreshing
  <2> QED
    BY <2>1, StagesSame
<1>2. ASSUME NEW t \in Tabs, Reload(t)
      PROVE  RefreshKept'
  <2>1. SameStages /\ SameRefreshing
    BY <1>2, StageNames, Fields DEF Reload, Shape, server, SameStages, SameRefreshing, Refreshing
  <2> QED
    BY <2>1, StagesSame
<1>3. ASSUME NEW t \in Tabs, AccessExpires(t)
      PROVE  RefreshKept'
  <2>1. SameStages /\ SameRefreshing
    BY <1>3, StageNames, Fields, AccessExpiresEffect DEF SameStages, SameRefreshing, Refreshing, OnlyCall, AlmostSame
  <2> QED
    BY <2>1, StagesSame
<1>4. ASSUME NEW c \in Calls, Send(c)
      PROVE  RefreshKept'
  <2>1. SameStages /\ SameRefreshing
    BY <1>4, StageNames, Fields DEF Send, Shape, server, SameStages, SameRefreshing, Refreshing
  <2> QED
    BY <2>1, StagesSame
<1>5. ASSUME NEW c \in Calls, Answer(c)
      PROVE  RefreshKept'
  <2>1. SameStages /\ SameRefreshing
    BY <1>5, StageNames, Fields, AnswerEffect DEF SameStages, SameRefreshing, Refreshing, OnlyCall, AlmostSame
  <2> QED
    BY <2>1, StagesSame
<1>6. ASSUME NEW c \in Calls, Unauthorized(c)
      PROVE  RefreshKept'
  <2>1. CASE tab'[TabOf(c)].refreshing /\ ~tab[TabOf(c)].refreshing
    <3>1. /\ ~tab[TabOf(c)].refreshing /\ tab'[TabOf(c)].refreshing
          /\ \A t \in Tabs : t # TabOf(c) => tab'[t] = tab[t]
          /\ OnlyCall(c) /\ call'[c].pc \in {"refused", "refresh"}
      BY <1>6, <2>1, UnauthorizedEffect DEF SameRefreshing
    <3>2. \A d \in Calls : TabOf(d) = TabOf(c) => ~Refreshing(d) /\ call[d].pc # "queued"
      BY <3>1 DEF RefreshKept
    <3>3. Refreshing(c)' /\ \A d \in Calls : d # c => (Refreshing(d)' <=> Refreshing(d))
      BY <3>1, StageNames DEF Refreshing, OnlyCall
    <3>4. ASSUME NEW d \in Calls, NEW e \in Calls, Refreshing(d)', Refreshing(e)', TabOf(d) = TabOf(e)
          PROVE  d = e
      BY <3>2, <3>3, <3>4 DEF RefreshKept
    <3>5. ASSUME NEW d \in Calls, Refreshing(d)' \/ call'[d].pc = "queued"
          PROVE  tab'[TabOf(d)].refreshing
      BY <3>1, <3>3, <3>5 DEF RefreshKept, OnlyCall
    <3>6. ASSUME NEW t \in Tabs, tab'[t].refreshing
          PROVE  \E d \in Calls : TabOf(d) = t /\ Refreshing(d)'
      BY <3>1, <3>2, <3>3, <3>6 DEF RefreshKept
    <3> QED
      BY <3>4, <3>5, <3>6 DEF RefreshKept
  <2>2. CASE ~(tab'[TabOf(c)].refreshing /\ ~tab[TabOf(c)].refreshing)
    BY <1>6, <2>2, UnauthorizedEffect, StageNames, Fields DEF RefreshKept, Refreshing, OnlyCall, SameRefreshing
  <2> QED
    BY <2>1, <2>2
<1>7. ASSUME NEW c \in Calls, Refreshed(c)
      PROVE  RefreshKept'
  <2>1. \A d \in Calls : Refreshing(d) /\ TabOf(d) = TabOf(c) => d = c
    BY <1>7, RefreshedEffect, StageNames DEF RefreshKept, Refreshing
  <2> QED
    BY <1>7, <2>1, RefreshedEffect, StageNames DEF RefreshKept, Refreshing
<1>8. ASSUME NEW c \in Calls, RefreshFails(c)
      PROVE  RefreshKept'
  <2>1. \A d \in Calls : Refreshing(d) /\ TabOf(d) = TabOf(c) => d = c
    BY <1>8, RefreshFailsEffect, StageNames DEF RefreshKept, Refreshing
  <2> QED
    BY <1>8, <2>1, RefreshFailsEffect, StageNames, Fields DEF RefreshKept, Refreshing
<1>9. ASSUME NEW c \in Calls, CheckRefresh(c)
      PROVE  RefreshKept'
  <2>1. SameStages /\ SameRefreshing
    BY <1>9, StageNames, Fields DEF CheckRefresh, Shape, server, SameStages, SameRefreshing, Refreshing
  <2> QED
    BY <2>1, StagesSame
<1>10. ASSUME NEW c \in Calls, DeleteOld(c)
      PROVE  RefreshKept'
  <2>1. SameStages /\ SameRefreshing
    BY <1>10, StageNames, Fields DEF DeleteOld, Shape, server, SameStages, SameRefreshing, Refreshing
  <2> QED
    BY <2>1, StagesSame
<1>11. ASSUME NEW c \in Calls, AddNew(c)
      PROVE  RefreshKept'
  <2>1. SameStages /\ SameRefreshing
    BY <1>11, StageNames, Fields DEF AddNew, Shape, server, SameStages, SameRefreshing, Refreshing
  <2> QED
    BY <2>1, StagesSame
<1>12. ASSUME NEW c \in Calls, LogoutRevokes(c)
      PROVE  RefreshKept'
  <2>1. SameStages /\ SameRefreshing
    BY <1>12, StageNames, Fields, LogoutRevokesEffect DEF SameStages, SameRefreshing, Refreshing, OnlyCall, AlmostSame
  <2> QED
    BY <2>1, StagesSame
<1>13. ASSUME NEW c \in Calls, Lost(c)
      PROVE  RefreshKept'
  <2>1. SameStages /\ SameRefreshing
    BY <1>13, StageNames, Fields DEF Lost, Shape, server, SameStages, SameRefreshing, Refreshing
  <2> QED
    BY <2>1, StagesSame
<1>14. ASSUME AdminScans
      PROVE  RefreshKept'
  <2>1. SameStages /\ SameRefreshing
    BY <1>14, StageNames, Fields DEF AdminScans, Shape, server, SameStages, SameRefreshing, Refreshing
  <2> QED
    BY <2>1, StagesSame
<1>15. ASSUME AdminRevokes
      PROVE  RefreshKept'
  <2>1. SameStages /\ SameRefreshing
    BY <1>15, StageNames, Fields DEF AdminRevokes, Shape, server, SameStages, SameRefreshing, Refreshing
  <2> QED
    BY <2>1, StagesSame
<1>16. ASSUME AdminCommits
      PROVE  RefreshKept'
  <2>1. SameStages /\ SameRefreshing
    BY <1>16, StageNames, Fields DEF AdminCommits, Shape, server, SameStages, SameRefreshing, Refreshing
  <2> QED
    BY <2>1, StagesSame
<1>17. ASSUME Enable
      PROVE  RefreshKept'
  <2>1. SameStages /\ SameRefreshing
    BY <1>17, StageNames, Fields DEF Enable, Shape, server, SameStages, SameRefreshing, Refreshing
  <2> QED
    BY <2>1, StagesSame
<1>18. ASSUME NEW k \in Tokens, RefreshExpires(k)
      PROVE  RefreshKept'
  <2>1. SameStages /\ SameRefreshing
    BY <1>18, StageNames, Fields DEF RefreshExpires, Shape, server, SameStages, SameRefreshing, Refreshing
  <2> QED
    BY <2>1, StagesSame
<1>19. CASE UNCHANGED vars
  <2>1. SameStages /\ SameRefreshing
    BY <1>19, StageNames, Fields DEF vars, SameStages, SameRefreshing, Refreshing
  <2> QED
    BY <2>1, StagesSame
<1> QED
  BY <1>1, <1>2, <1>3, <1>4, <1>5, <1>6, <1>7, <1>8, <1>9, <1>10, <1>11, <1>12, <1>13, <1>14, <1>15, <1>16, <1>17, <1>18, <1>19 DEF Next, Step

-----------------------------------------------------------------------------
(* Numbers for those who need one *)

Needs(k) ==
  k.pc \in {"refresh", "rotate", "add"} \/ (k.pc = "sent" /\ ~k.retried)

InUse(k) ==
  \/ k \in white \/ k = store \/ k \in admin.keys
  \/ \E c \in Calls : k = call[c].token \/ k \in call[c].keys

\* A step that starts call c at most, takes no number, and after which nobody needs
\* one who did not before.
TakesNone(c) ==
  /\ \A d \in Calls : d # c /\ call[d].pc = "idle" => call'[d].pc = "idle"
  /\ \A d \in Calls : Needs(call'[d]) => Needs(call[d])
  /\ \A k \in Tokens : InUse(k)' => InUse(k)

\* The finite sets of the next state.
LEMMA NextSets ==
  ASSUME RoomKept, NEW c,
         \A d \in Calls : d # c /\ call[d].pc = "idle" => call'[d].pc = "idle"
  PROVE  /\ IsFiniteSet(Active') /\ IsFiniteSet(Needy') /\ Cardinality(Needy') \in Nat
         /\ IsFiniteSet(Free') /\ Cardinality(Free') \in Nat
<1>1. Active' \in SUBSET (Active \cup {c})
  BY DEF Active
<1>2. IsFiniteSet(Active \cup {c})
  BY FS_AddElement DEF RoomKept
<1>3. IsFiniteSet(Active')
  BY <1>1, <1>2, FS_Subset
<1>4. Needy' \in SUBSET Active'
  BY DEF Needy, Active
<1>5. IsFiniteSet(Needy')
  BY <1>3, <1>4, FS_Subset
<1>6. Free' \in SUBSET Tokens /\ IsFiniteSet(Tokens)
  BY BrowserAssumption, FS_Interval DEF Free, Tokens
<1>7. IsFiniteSet(Free')
  BY <1>6, FS_Subset
<1> QED
  BY <1>3, <1>5, <1>7, FS_CardinalityType

LEMMA Sets ==
  ASSUME RoomKept
  PROVE  /\ IsFiniteSet(Active) /\ IsFiniteSet(Needy) /\ Cardinality(Needy) \in Nat
         /\ IsFiniteSet(Free) /\ Cardinality(Free) \in Nat
         /\ Cardinality(Needy) <= Cardinality(Active) /\ Cardinality(Active) \in Nat
         /\ Cardinality(Needy) <= Cardinality(Free)
<1>1. Needy \in SUBSET Active
  BY DEF Needy, Active
<1> QED
  BY <1>1, FreeSet, FS_Subset, FS_CardinalityType DEF RoomKept

\* Who needs a number, and which are free, one by one.
LEMMA ByElement ==
  /\ \A d : d \in Needy <=> d \in Calls /\ Needs(call[d])
  /\ \A k : k \in Free <=> k \in Tokens /\ ~InUse(k)
  BY InFree DEF Needy, Needs, InUse

LEMMA ByElementNext ==
  /\ \A d : d \in Needy' <=> d \in Calls /\ Needs(call'[d])
  /\ \A k : k \in Free' <=> k \in Tokens /\ ~InUse(k)'
<1>1. (/\ \A d : d \in Needy <=> d \in Calls /\ Needs(call[d])
       /\ \A k : k \in Free <=> k \in Tokens /\ ~InUse(k))'
  BY ByElement, PTL
<1> QED
  BY <1>1 DEF Needs

\* A call that begins no work but c, gets no number, and has no new need.
Quiet(c, d) ==
  /\ d # c /\ call[d].pc = "idle" => call'[d].pc = "idle"
  /\ Needs(call'[d]) => Needs(call[d])
  /\ \A k \in Tokens : k = call'[d].token \/ k \in call'[d].keys => InUse(k)

LEMMA AllQuiet ==
  ASSUME NEW c, \A d \in Calls : Quiet(c, d),
         \A k \in Tokens : k \in white' \/ k = store' \/ k \in admin'.keys => InUse(k)
  PROVE  TakesNone(c)
<1>1. \A d \in Calls : /\ d # c /\ call[d].pc = "idle" => call'[d].pc = "idle"
                       /\ Needs(call'[d]) => Needs(call[d])
  BY DEF Quiet
<1>2. ASSUME NEW k \in Tokens, InUse(k)'
      PROVE  InUse(k)
  <2>1. CASE k \in white' \/ k = store' \/ k \in admin'.keys
    BY <2>1
  <2>2. CASE \E d \in Calls : k = call'[d].token \/ k \in call'[d].keys
    BY <2>2 DEF Quiet
  <2> QED
    BY <1>2, <2>1, <2>2 DEF InUse
<1> QED
  BY <1>1, <1>2 DEF TakesNone

\* What a call holds is in use, and so is what counts or is stored.
LEMMA Held ==
  /\ \A d \in Calls : \A k : k = call[d].token \/ k \in call[d].keys => InUse(k)
  /\ \A k : k \in white \/ k = store \/ k \in admin.keys => InUse(k)
  BY DEF InUse

LEMMA SameIsQuiet ==
  ASSUME NEW c, NEW d \in Calls, AlmostSame(d)
  PROVE  Quiet(c, d)
  BY Held DEF AlmostSame, Quiet, Needs

LEMMA RoomSame ==
  ASSUME RoomKept, NEW c, TakesNone(c)
  PROVE  RoomKept'
<1>1. Needy' \in SUBSET Needy /\ Free \in SUBSET Free'
  BY ByElement, ByElementNext DEF TakesNone
<1>2. Cardinality(Needy') <= Cardinality(Needy) /\ Cardinality(Free) <= Cardinality(Free')
  BY <1>1, Sets, NextSets, FS_Subset DEF TakesNone
<1> QED
  BY <1>2, Sets, NextSets DEF TakesNone, RoomKept

LEMMA RoomStep ==
  ASSUME Shape, RoomKept, [Next]_vars
  PROVE  RoomKept'
<1> USE OneTab
<1>1. ASSUME NEW t \in Tabs, Login(t)
      PROVE  RoomKept'
  <2> DEFINE k == Min(Free)
  <2>1. Needy' = Needy /\ IsFiniteSet(Active')
    BY <1>1, Sets DEF Login, Needy, Active
  <2>2. k \in Free
    BY <1>1, NewNumber DEF Login
  <2>3. \A n \in Tokens : InUse(n)' => InUse(n) \/ n = k
    BY <1>1 DEF Login, InUse
  <2>4. Free \ {k} \in SUBSET Free'
    BY <2>3, ByElement, ByElementNext
  <2>5. IsFiniteSet(Free') /\ Cardinality(Free') \in Nat
    BY <1>1, NextSets DEF Login
  <2>6. Cardinality(Free \ {k}) = Cardinality(Free) - 1
    BY <2>2, Sets, FS_RemoveElement
  <2>7. Cardinality(Free \ {k}) <= Cardinality(Free')
    BY <2>4, <2>5, FS_Subset
  <2> HIDE DEF k
  <2> QED
    BY <1>1, <2>1, <2>5, <2>6, <2>7, Sets DEF Login, Room, RoomKept
<1>2. ASSUME NEW t \in Tabs, Reload(t)
      PROVE  RoomKept'
  <2>1. \A d \in Calls : AlmostSame(d)
    BY <1>2 DEF Reload, Shape, server, AlmostSame
  <2>2. \A k \in Tokens : k \in white' \/ k = store' \/ k \in admin'.keys => InUse(k)
    BY <1>2, Held, FreeSet DEF Reload, Shape, server, AlmostSame
  <2> QED
    BY <2>1, <2>2, SameIsQuiet, AllQuiet, RoomSame
<1>3. ASSUME NEW t \in Tabs, AccessExpires(t)
      PROVE  RoomKept'
  <2>1. \A d \in Calls : AlmostSame(d)
    BY <1>3, AccessExpiresEffect DEF AlmostSame
  <2>2. \A k \in Tokens : k \in white' \/ k = store' \/ k \in admin'.keys => InUse(k)
    BY <1>3, Held, FreeSet, AccessExpiresEffect DEF AlmostSame
  <2> QED
    BY <2>1, <2>2, SameIsQuiet, AllQuiet, RoomSame
<1>4. ASSUME NEW c \in Calls, Send(c)
      PROVE  RoomKept'
  <2>1. \A d \in Calls : d # c => call'[d] = call[d]
    BY <1>4 DEF Send, Shape
  <2>2. Needy' \in SUBSET (Needy \cup {c})
    BY <2>1, ByElement, ByElementNext
  <2>3. \A n \in Tokens : InUse(n)' => InUse(n)
    <3>1. \A d \in Calls : call'[d] = call[d] \/ (call'[d].token = NoToken /\ call'[d].keys = {})
      <4>1. call'[c].token = NoToken /\ call'[c].keys = {}
        BY <1>4 DEF Send, Shape, Sent, NoCall
      <4> QED
        BY <2>1, <4>1
    <3> QED
      BY <1>4, <3>1, FreeSet DEF Send, InUse, server
  <2>4. Free \in SUBSET Free'
    BY <2>3, ByElement, ByElementNext
  <2>5. /\ IsFiniteSet(Active') /\ IsFiniteSet(Free') /\ Cardinality(Free') \in Nat
        /\ Cardinality(Needy') \in Nat
    BY <2>1, NextSets
  <2>6. Cardinality(Free) <= Cardinality(Free')
    BY <2>4, <2>5, FS_Subset
  <2>7. Cardinality(Needy') <= Cardinality(Needy) + 1
    <3>1. IsFiniteSet(Needy \cup {c}) /\ Cardinality(Needy \cup {c}) <= Cardinality(Needy) + 1
      <4>1. IsFiniteSet(Needy) /\ Cardinality(Needy) \in Nat
        BY Sets
      <4>2. /\ IsFiniteSet(Needy \cup {c})
            /\ Cardinality(Needy \cup {c})
                 = IF c \in Needy THEN Cardinality(Needy) ELSE Cardinality(Needy) + 1
        BY <4>1, FS_AddElement
      <4> QED
        BY <4>1, <4>2
    <3>2. Cardinality(Needy') <= Cardinality(Needy \cup {c}) /\ Cardinality(Needy \cup {c}) \in Nat
      BY <2>2, <3>1, FS_Subset, FS_CardinalityType
    <3> QED
      BY <2>5, <3>1, <3>2, Sets
  <2> QED
    BY <1>4, <2>5, <2>6, <2>7, Sets DEF Send, Room, RoomKept
<1>5. ASSUME NEW c \in Calls, Answer(c)
      PROVE  RoomKept'
  <2>1. \A d \in Calls : d # c => AlmostSame(d)
    BY <1>5, AnswerEffect DEF AlmostSame, OnlyCall
  <2>2. Quiet(c, c)
    BY <1>5, Held, FreeSet, Fields, AnswerEffect DEF AlmostSame, Quiet, Needs
  <2>3. \A k \in Tokens : k \in white' \/ k = store' \/ k \in admin'.keys => InUse(k)
    BY <1>5, Held, FreeSet, AnswerEffect DEF AlmostSame
  <2> QED
    BY <2>1, <2>2, <2>3, SameIsQuiet, AllQuiet, RoomSame
<1>6. ASSUME NEW c \in Calls, Unauthorized(c)
      PROVE  RoomKept'
  <2>1. \A d \in Calls : d # c => AlmostSame(d)
    BY <1>6, UnauthorizedEffect DEF AlmostSame, OnlyCall
  <2>2. Quiet(c, c)
    BY <1>6, Held, FreeSet, Fields, UnauthorizedEffect DEF AlmostSame, Quiet, Needs
  <2>3. \A k \in Tokens : k \in white' \/ k = store' \/ k \in admin'.keys => InUse(k)
    BY <1>6, Held, FreeSet, UnauthorizedEffect DEF AlmostSame
  <2> QED
    BY <2>1, <2>2, <2>3, SameIsQuiet, AllQuiet, RoomSame
<1>7. ASSUME NEW c \in Calls, Refreshed(c)
      PROVE  RoomKept'
  <2>1. ASSUME NEW d \in Calls
        PROVE  Quiet(c, d)
    <3>1. CASE d = c \/ (TabOf(d) = TabOf(c) /\ call[d].pc = "queued")
      BY <1>7, <3>1, RefreshedEffect, Fields, FreeSet DEF Quiet, Needs
    <3>2. CASE ~(d = c \/ (TabOf(d) = TabOf(c) /\ call[d].pc = "queued"))
      BY <1>7, <3>2, RefreshedEffect, SameIsQuiet DEF AlmostSame
    <3> QED
      BY <3>1, <3>2
  <2>2. \A k \in Tokens : k \in white' \/ k = store' \/ k \in admin'.keys => InUse(k)
    BY <1>7, Held, RefreshedEffect, FreeSet
  <2> QED
    BY <2>1, <2>2, AllQuiet, RoomSame
<1>8. ASSUME NEW c \in Calls, RefreshFails(c)
      PROVE  RoomKept'
  <2>1. ASSUME NEW d \in Calls
        PROVE  Quiet(c, d)
    <3>1. CASE d = c \/ (TabOf(d) = TabOf(c) /\ call[d].pc = "queued")
      BY <1>8, <3>1, RefreshFailsEffect, Fields, FreeSet DEF Quiet, Needs
    <3>2. CASE ~(d = c \/ (TabOf(d) = TabOf(c) /\ call[d].pc = "queued"))
      BY <1>8, <3>2, RefreshFailsEffect, SameIsQuiet DEF AlmostSame
    <3> QED
      BY <3>1, <3>2
  <2>2. \A k \in Tokens : k \in white' \/ k = store' \/ k \in admin'.keys => InUse(k)
    BY <1>8, Held, RefreshFailsEffect, FreeSet
  <2> QED
    BY <2>1, <2>2, AllQuiet, RoomSame
<1>9. ASSUME NEW c \in Calls, CheckRefresh(c)
      PROVE  RoomKept'
  <2>1. \A d \in Calls : d # c => AlmostSame(d)
    BY <1>9 DEF CheckRefresh, Shape, server, CallRecord, AlmostSame, OnlyCall
  <2>2. Quiet(c, c)
    BY <1>9, Held, FreeSet, Fields DEF CheckRefresh, Shape, server, CallRecord, AlmostSame, Quiet, Needs
  <2>3. \A k \in Tokens : k \in white' \/ k = store' \/ k \in admin'.keys => InUse(k)
    BY <1>9, Held, FreeSet DEF CheckRefresh, Shape, server, CallRecord, AlmostSame
  <2> QED
    BY <2>1, <2>2, <2>3, SameIsQuiet, AllQuiet, RoomSame
<1>10. ASSUME NEW c \in Calls, DeleteOld(c)
      PROVE  RoomKept'
  <2>1. \A d \in Calls : d # c => AlmostSame(d)
    BY <1>10 DEF DeleteOld, Shape, server, WithoutOld, AlmostSame, OnlyCall
  <2>2. Quiet(c, c)
    BY <1>10, Held, FreeSet, Fields DEF DeleteOld, Shape, server, WithoutOld, AlmostSame, Quiet, Needs
  <2>3. \A k \in Tokens : k \in white' \/ k = store' \/ k \in admin'.keys => InUse(k)
    BY <1>10, Held, FreeSet DEF DeleteOld, Shape, server, WithoutOld, AlmostSame
  <2> QED
    BY <2>1, <2>2, <2>3, SameIsQuiet, AllQuiet, RoomSame
<1>11. ASSUME NEW c \in Calls, AddNew(c)
      PROVE  RoomKept'
  <2> DEFINE k == Min(Free)
  <2>1. \A d \in Calls : d # c => call'[d] = call[d]
    BY <1>11 DEF AddNew, Shape
  <2>2. call[c].pc = "add" /\ call'[c].pc = "answered" /\ call'[c].token = k
        /\ call'[c].keys = call[c].keys
    BY <1>11 DEF AddNew, Shape, CallRecord
  <2>3. k \in Free
    BY <1>11, NewNumber DEF AddNew
  <2>4. c \in Needy /\ Needy' \in SUBSET (Needy \ {c})
    BY <2>1, <2>2, ByElement, ByElementNext DEF Needs
  <2>5. \A n \in Tokens : InUse(n)' => InUse(n) \/ n = k
    BY <1>11, <2>1, <2>2 DEF AddNew, InUse
  <2>6. Free \ {k} \in SUBSET Free'
    BY <2>5, ByElement, ByElementNext
  <2>7. /\ IsFiniteSet(Active') /\ IsFiniteSet(Free') /\ Cardinality(Free') \in Nat
        /\ Cardinality(Needy') \in Nat
    BY <2>1, NextSets
  <2>8. Cardinality(Free \ {k}) = Cardinality(Free) - 1
    BY <2>3, Sets, FS_RemoveElement
  <2>9. Cardinality(Free \ {k}) <= Cardinality(Free')
    BY <2>6, <2>7, FS_Subset
  <2>10. Cardinality(Needy') <= Cardinality(Needy) - 1
    <3>1. /\ IsFiniteSet(Needy \ {c}) /\ Cardinality(Needy \ {c}) = Cardinality(Needy) - 1
      BY <2>4, Sets, FS_RemoveElement
    <3> QED
      BY <2>4, <3>1, FS_Subset
  <2> HIDE DEF k
  <2> QED
    BY <2>7, <2>8, <2>9, <2>10, Sets DEF RoomKept
<1>12. ASSUME NEW c \in Calls, LogoutRevokes(c)
      PROVE  RoomKept'
  <2>1. \A d \in Calls : d # c => AlmostSame(d)
    BY <1>12, LogoutRevokesEffect DEF Revoked, AlmostSame, OnlyCall
  <2>2. Quiet(c, c)
    BY <1>12, Held, FreeSet, Fields, LogoutRevokesEffect DEF Revoked, AlmostSame, Quiet, Needs
  <2>3. \A k \in Tokens : k \in white' \/ k = store' \/ k \in admin'.keys => InUse(k)
    BY <1>12, Held, FreeSet, LogoutRevokesEffect DEF Revoked, AlmostSame
  <2> QED
    BY <2>1, <2>2, <2>3, SameIsQuiet, AllQuiet, RoomSame
<1>13. ASSUME NEW c \in Calls, Lost(c)
      PROVE  RoomKept'
  <2>1. \A d \in Calls : d # c => AlmostSame(d)
    BY <1>13 DEF Lost, Shape, server, AlmostSame, OnlyCall
  <2>2. Quiet(c, c)
    BY <1>13, Held, FreeSet, Fields DEF Lost, Shape, server, AlmostSame, Quiet, Needs
  <2>3. \A k \in Tokens : k \in white' \/ k = store' \/ k \in admin'.keys => InUse(k)
    BY <1>13, Held, FreeSet DEF Lost, Shape, server, AlmostSame
  <2> QED
    BY <2>1, <2>2, <2>3, SameIsQuiet, AllQuiet, RoomSame
<1>14. ASSUME AdminScans
      PROVE  RoomKept'
  <2>1. \A d \in Calls : AlmostSame(d)
    BY <1>14 DEF AdminScans, Shape, server, AlmostSame
  <2>2. \A k \in Tokens : k \in white' \/ k = store' \/ k \in admin'.keys => InUse(k)
    BY <1>14, Held, FreeSet DEF AdminScans, Shape, server, AlmostSame
  <2> QED
    BY <2>1, <2>2, SameIsQuiet, AllQuiet, RoomSame
<1>15. ASSUME AdminRevokes
      PROVE  RoomKept'
  <2>1. \A d \in Calls : AlmostSame(d)
    BY <1>15 DEF AdminRevokes, Shape, server, Revoked, NoAdmin, AlmostSame
  <2>2. \A k \in Tokens : k \in white' \/ k = store' \/ k \in admin'.keys => InUse(k)
    BY <1>15, Held, FreeSet DEF AdminRevokes, Shape, server, Revoked, NoAdmin, AlmostSame
  <2> QED
    BY <2>1, <2>2, SameIsQuiet, AllQuiet, RoomSame
<1>16. ASSUME AdminCommits
      PROVE  RoomKept'
  <2>1. \A d \in Calls : AlmostSame(d)
    BY <1>16 DEF AdminCommits, Shape, server, NoAdmin, AlmostSame
  <2>2. \A k \in Tokens : k \in white' \/ k = store' \/ k \in admin'.keys => InUse(k)
    BY <1>16, Held, FreeSet DEF AdminCommits, Shape, server, NoAdmin, AlmostSame
  <2> QED
    BY <2>1, <2>2, SameIsQuiet, AllQuiet, RoomSame
<1>17. ASSUME Enable
      PROVE  RoomKept'
  <2>1. \A d \in Calls : AlmostSame(d)
    BY <1>17 DEF Enable, Shape, server, AlmostSame
  <2>2. \A k \in Tokens : k \in white' \/ k = store' \/ k \in admin'.keys => InUse(k)
    BY <1>17, Held, FreeSet DEF Enable, Shape, server, AlmostSame
  <2> QED
    BY <2>1, <2>2, SameIsQuiet, AllQuiet, RoomSame
<1>18. ASSUME NEW k \in Tokens, RefreshExpires(k)
      PROVE  RoomKept'
  <2>1. \A d \in Calls : AlmostSame(d)
    BY <1>18 DEF RefreshExpires, Shape, server, AlmostSame
  <2>2. \A j \in Tokens : j \in white' \/ j = store' \/ j \in admin'.keys => InUse(j)
    BY <1>18, Held, FreeSet DEF RefreshExpires, Shape, server, AlmostSame
  <2> QED
    BY <2>1, <2>2, SameIsQuiet, AllQuiet, RoomSame
<1>19. CASE UNCHANGED vars
  <2>1. \A d \in Calls : AlmostSame(d)
    BY <1>19 DEF vars, AlmostSame
  <2>2. \A k \in Tokens : k \in white' \/ k = store' \/ k \in admin'.keys => InUse(k)
    BY <1>19, Held, FreeSet DEF vars, AlmostSame
  <2> QED
    BY <2>1, <2>2, SameIsQuiet, AllQuiet, RoomSame
<1> QED
  BY <1>1, <1>2, <1>3, <1>4, <1>5, <1>6, <1>7, <1>8, <1>9, <1>10, <1>11, <1>12, <1>13, <1>14, <1>15, <1>16, <1>17, <1>18, <1>19 DEF Next, Step

-----------------------------------------------------------------------------
(* One tab without disturbance *)

\* A step that leaves alone what the token depends on, and refuses nothing.
CalmSame ==
  /\ UNCHANGED <<white, enabled, store, admin, calm>>
  /\ \A d \in Calls : AlmostSame(d)

LEMMA CalmSameKept ==
  ASSUME CalmKept, CalmSame
  PROVE  CalmKept'
<1> SUFFICES ASSUME calm'
             PROVE  CalmKept'
  BY DEF CalmKept
<1>1. calm /\ CalmWorld /\ CalmWorld'
  BY DEF CalmKept, CalmSame, CalmWorld
<1>2. \A d \in Calls : CalmCall(d)' /\ CalmToken(d)'
  BY <1>1 DEF CalmKept, CalmSame, CalmCall, CalmToken, AlmostSame
<1>3. NobodyRefreshes' => NobodyRefreshes
  BY DEF NobodyRefreshes, Refreshing, CalmSame, AlmostSame
<1>4. store' # NoToken /\ NobodyRefreshes' => white' = {store'}
  BY <1>1, <1>3 DEF CalmKept, CalmSame
<1> QED
  BY <1>1, <1>2, <1>4 DEF CalmKept

\* Steps of a call that a calm behaviour may take: one refresh at a time.
LEMMA CalmFacts ==
  ASSUME CalmKept, RefreshKept, calm
  PROVE  /\ CalmWorld
         /\ \A c \in Calls : CalmCall(c) /\ CalmToken(c)
         /\ store # NoToken /\ NobodyRefreshes => white = {store}
         /\ \A c, d \in Calls : Refreshing(c) /\ Refreshing(d) => c = d
<1>1. \A c \in Calls : Refreshing(c) => TabOf(c) = MainTab
  BY StageNames DEF CalmKept, CalmCall, Refreshing
<1> QED
  BY <1>1 DEF CalmKept, RefreshKept

LEMMA CalmStep ==
  ASSUME Shape, RefreshKept, RoomKept, CalmKept, [Next]_vars
  PROVE  CalmKept'
<1> USE OneTab, StageNames, Fields
<1>1. ASSUME NEW t \in Tabs, Login(t)
      PROVE  CalmKept'
  <2> SUFFICES ASSUME calm
               PROVE  /\ CalmWorld' /\ \A d \in Calls : CalmCall(d)' /\ CalmToken(d)'
                      /\ store' # NoToken /\ NobodyRefreshes' => white' = {store'}
    BY <1>1 DEF CalmKept, Login
  <2>0. /\ CalmWorld /\ \A d \in Calls : CalmCall(d) /\ CalmToken(d)
        /\ store # NoToken /\ NobodyRefreshes => white = {store}
        /\ \A d, e \in Calls : Refreshing(d) /\ Refreshing(e) => d = e
    BY CalmFacts
  <2>1. /\ store = NoToken /\ \A d \in Calls : call[d].pc = "idle"
        /\ UNCHANGED <<enabled, call, admin>>
    BY <1>1 DEF Login, Active
  <2>2. PICK k \in Tokens : white' = white \cup {k} /\ store' = k
    BY <1>1, NewNumber DEF Login
  <2> QED
    BY <2>0, <2>1, <2>2, FreeSet DEF CalmWorld, CalmCall, CalmToken
<1>2. ASSUME NEW t \in Tabs, Reload(t)
      PROVE  CalmKept'
  <2>1. CalmSame
    BY <1>2 DEF Reload, server, CalmSame, AlmostSame
  <2> QED
    BY <2>1, CalmSameKept
<1>3. ASSUME NEW t \in Tabs, AccessExpires(t)
      PROVE  CalmKept'
  <2>1. CalmSame
    BY <1>3, AccessExpiresEffect DEF CalmSame, AlmostSame
  <2> QED
    BY <2>1, CalmSameKept
<1>4. ASSUME NEW c \in Calls, Send(c)
      PROVE  CalmKept'
  <2> SUFFICES ASSUME calm
               PROVE  /\ CalmWorld' /\ \A d \in Calls : CalmCall(d)' /\ CalmToken(d)'
                      /\ store' # NoToken /\ NobodyRefreshes' => white' = {store'}
    BY <1>4 DEF CalmKept, Send
  <2>0. /\ CalmWorld /\ \A d \in Calls : CalmCall(d) /\ CalmToken(d)
        /\ store # NoToken /\ NobodyRefreshes => white = {store}
        /\ \A d, e \in Calls : Refreshing(d) /\ Refreshing(e) => d = e
    BY CalmFacts
  <2>1. /\ store # NoToken /\ TabOf(c) = MainTab /\ c # LogoutCall /\ call[c].pc = "idle"
        /\ UNCHANGED <<white, enabled, store, admin>>
    BY <1>4 DEF Send, server
  <2>2. call'[c].pc = "sent" /\ \A d \in Calls : d # c => call'[d] = call[d]
    BY <1>4 DEF Send, Shape, Sent, NoCall
  <2>3. NobodyRefreshes' => NobodyRefreshes
    BY <2>1, <2>2 DEF NobodyRefreshes, Refreshing
  <2> QED
    BY <2>0, <2>1, <2>2, <2>3 DEF CalmWorld, CalmCall, CalmToken
<1>5. ASSUME NEW c \in Calls, Answer(c)
      PROVE  CalmKept'
  <2> SUFFICES ASSUME calm
               PROVE  /\ CalmWorld' /\ \A d \in Calls : CalmCall(d)' /\ CalmToken(d)'
                      /\ store' # NoToken /\ NobodyRefreshes' => white' = {store'}
    BY <1>5 DEF CalmKept, Answer
  <2>0. /\ CalmWorld /\ \A d \in Calls : CalmCall(d) /\ CalmToken(d)
        /\ store # NoToken /\ NobodyRefreshes => white = {store}
        /\ \A d, e \in Calls : Refreshing(d) /\ Refreshing(e) => d = e
    BY CalmFacts
  <2>1. /\ UNCHANGED <<white, enabled, store, admin>> /\ call[c].pc = "sent"
        /\ \A d \in Calls : d # c => AlmostSame(d)
        /\ call'[c] = NoCall
    BY <2>0, <1>5, AnswerEffect DEF CalmCall
  <2>2. NobodyRefreshes' => NobodyRefreshes
    BY <2>1 DEF NobodyRefreshes, Refreshing, AlmostSame
  <2> QED
    BY <2>0, <2>1, <2>2 DEF CalmWorld, CalmCall, CalmToken, AlmostSame
<1>6. ASSUME NEW c \in Calls, Unauthorized(c)
      PROVE  CalmKept'
  <2> SUFFICES ASSUME calm
               PROVE  /\ CalmWorld' /\ \A d \in Calls : CalmCall(d)' /\ CalmToken(d)'
                      /\ store' # NoToken /\ NobodyRefreshes' => white' = {store'}
    BY <1>6 DEF CalmKept, Unauthorized
  <2>0. /\ CalmWorld /\ \A d \in Calls : CalmCall(d) /\ CalmToken(d)
        /\ store # NoToken /\ NobodyRefreshes => white = {store}
        /\ \A d, e \in Calls : Refreshing(d) /\ Refreshing(e) => d = e
    BY CalmFacts
  <2>1. /\ UNCHANGED <<white, enabled, admin>> /\ call[c].pc = "sent"
        /\ store # NoToken /\ TabOf(c) = MainTab /\ c # LogoutCall
        /\ \A d \in Calls : d # c => call'[d] = call[d]
        /\ UNCHANGED store
    BY <2>0, <1>6, UnauthorizedEffect DEF OnlyCall, CalmCall
  <2>2. CASE call'[c].pc \in {"idle", "queued"}
    <3>1. NobodyRefreshes' => NobodyRefreshes
      BY <2>1, <2>2 DEF NobodyRefreshes, Refreshing
    <3> QED
      BY <2>0, <2>1, <2>2, <3>1 DEF CalmWorld, CalmCall, CalmToken
  <2>3. CASE /\ ~tab[TabOf(c)].refreshing
             /\ call'[c].pc = "refresh" /\ call'[c].token = store
    <3>1. NobodyRefreshes
      BY <2>0, <2>1, <2>3 DEF NobodyRefreshes, RefreshKept, CalmCall, Refreshing
    <3>2. white = {store} /\ Refreshing(c)'
      BY <2>0, <2>1, <2>3, <3>1 DEF Refreshing
    <3> QED
      BY <2>0, <2>1, <2>3, <3>2 DEF CalmWorld, CalmCall, CalmToken, NobodyRefreshes
  <2> QED
    BY <1>6, <2>1, <2>2, <2>3, UnauthorizedEffect
<1>7. ASSUME NEW c \in Calls, Refreshed(c)
      PROVE  CalmKept'
  <2> SUFFICES ASSUME calm
               PROVE  /\ CalmWorld' /\ \A d \in Calls : CalmCall(d)' /\ CalmToken(d)'
                      /\ store' # NoToken /\ NobodyRefreshes' => white' = {store'}
    BY <1>7 DEF CalmKept, Refreshed
  <2>0. /\ CalmWorld /\ \A d \in Calls : CalmCall(d) /\ CalmToken(d)
        /\ store # NoToken /\ NobodyRefreshes => white = {store}
        /\ \A d, e \in Calls : Refreshing(d) /\ Refreshing(e) => d = e
    BY CalmFacts
  <2>1. /\ UNCHANGED <<white, enabled, admin>> /\ store' = call[c].token
        /\ call[c].pc = "answered" /\ store # NoToken /\ store' # NoToken /\ white' = {store'}
    <3>1. /\ UNCHANGED <<white, enabled, admin>> /\ store' = call[c].token
          /\ call[c].pc = "answered"
      BY <1>7, RefreshedEffect
    <3>2. store # NoToken /\ call[c].token # NoToken /\ white = {call[c].token}
      BY <2>0, <3>1 DEF CalmCall, CalmToken
    <3> QED
      BY <3>1, <3>2
  <2>2. ASSUME NEW d \in Calls
        PROVE  call'[d].pc = "sent" \/ call'[d].pc = call[d].pc
    BY <1>7, RefreshedEffect
  <2>3. call'[c].pc = "sent"
    BY <1>7, RefreshedEffect
  <2>4. \A d \in Calls : ~Refreshing(d)'
    BY <2>0, <2>1, <2>2, <2>3 DEF Refreshing
  <2>5. \A d \in Calls : call'[d].pc # "idle" => call[d].pc # "idle"
    BY <1>7, RefreshedEffect
  <2>6. ASSUME NEW d \in Calls
        PROVE  CalmCall(d)'
    BY <2>0, <2>1, <2>2, <2>5 DEF CalmCall
  <2> QED
    BY <2>0, <2>1, <2>4, <2>6 DEF CalmWorld, CalmToken, Refreshing
<1>8. ASSUME NEW c \in Calls, RefreshFails(c)
      PROVE  CalmKept'
  <2>1. ~calm /\ calm' = calm
    BY <1>8, CalmFacts, RefreshFailsEffect DEF CalmWorld, CalmCall
  <2> QED
    BY <2>1 DEF CalmKept
<1>9. ASSUME NEW c \in Calls, CheckRefresh(c)
      PROVE  CalmKept'
  <2> SUFFICES ASSUME calm
               PROVE  /\ CalmWorld' /\ \A d \in Calls : CalmCall(d)' /\ CalmToken(d)'
                      /\ store' # NoToken /\ NobodyRefreshes' => white' = {store'}
    BY <1>9 DEF CalmKept, CheckRefresh
  <2>0. /\ CalmWorld /\ \A d \in Calls : CalmCall(d) /\ CalmToken(d)
        /\ store # NoToken /\ NobodyRefreshes => white = {store}
        /\ \A d, e \in Calls : Refreshing(d) /\ Refreshing(e) => d = e
    BY CalmFacts
  <2>1. call[c].pc = "refresh" /\ call[c].token = store /\ white = {store} /\ enabled
    BY <2>0, <1>9 DEF CheckRefresh, CalmToken, CalmWorld
  <2>2. Whitelisted(call[c].token)
    BY <2>1 DEF Whitelisted
  <2>3. /\ UNCHANGED <<white, enabled, store, admin>>
        /\ \A d \in Calls : d # c => call'[d] = call[d]
        /\ call'[c].pc = "rotate" /\ call'[c].token = store
    <3>1. UNCHANGED <<white, enabled, store, admin>>
      BY <2>1, <2>2, <1>9 DEF CheckRefresh
    <3>2. call[c] \in CallRecord /\ \A d \in Calls : d # c => call'[d] = call[d]
      BY <1>9 DEF CheckRefresh, Shape
    <3>3. call'[c] = [call[c] EXCEPT !.pc = "rotate"]
      BY <2>1, <2>2, <1>9 DEF CheckRefresh, Shape
    <3> QED
      BY <2>1, <3>1, <3>2, <3>3 DEF CallRecord
  <2>4. ~NobodyRefreshes'
    BY <2>3 DEF NobodyRefreshes, Refreshing
  <2> QED
    BY <2>0, <2>1, <2>3, <2>4 DEF CalmWorld, CalmCall, CalmToken
<1>10. ASSUME NEW c \in Calls, DeleteOld(c)
      PROVE  CalmKept'
  <2> SUFFICES ASSUME calm
               PROVE  /\ CalmWorld' /\ \A d \in Calls : CalmCall(d)' /\ CalmToken(d)'
                      /\ store' # NoToken /\ NobodyRefreshes' => white' = {store'}
    BY <1>10 DEF CalmKept, DeleteOld
  <2>0. /\ CalmWorld /\ \A d \in Calls : CalmCall(d) /\ CalmToken(d)
        /\ store # NoToken /\ NobodyRefreshes => white = {store}
        /\ \A d, e \in Calls : Refreshing(d) /\ Refreshing(e) => d = e
    BY CalmFacts
  <2>1. call[c].pc = "rotate" /\ call[c].token = store /\ white = {store} /\ Refreshing(c)
    BY <2>0, <1>10 DEF DeleteOld, CalmToken, Refreshing
  <2>2. /\ UNCHANGED <<enabled, store, admin>> /\ white' = {}
        /\ \A d \in Calls : d # c => call'[d] = call[d]
        /\ call'[c].pc = "add"
    BY <2>1, <1>10 DEF DeleteOld, WithoutOld, Shape
  <2>3. \A d \in Calls : d # c => ~Refreshing(d)'
    BY <2>0, <2>1, <2>2 DEF Refreshing
  <2>4. ~NobodyRefreshes'
    BY <2>2 DEF NobodyRefreshes, Refreshing
  <2> QED
    BY <2>0, <2>1, <2>2, <2>3, <2>4 DEF CalmWorld, CalmCall, CalmToken, Refreshing
<1>11. ASSUME NEW c \in Calls, AddNew(c)
      PROVE  CalmKept'
  <2> SUFFICES ASSUME calm
               PROVE  /\ CalmWorld' /\ \A d \in Calls : CalmCall(d)' /\ CalmToken(d)'
                      /\ store' # NoToken /\ NobodyRefreshes' => white' = {store'}
    BY <1>11 DEF CalmKept, AddNew
  <2>0. /\ CalmWorld /\ \A d \in Calls : CalmCall(d) /\ CalmToken(d)
        /\ store # NoToken /\ NobodyRefreshes => white = {store}
        /\ \A d, e \in Calls : Refreshing(d) /\ Refreshing(e) => d = e
    BY CalmFacts
  <2>1. call[c].pc = "add" /\ white = {} /\ Refreshing(c)
    BY <2>0, <1>11 DEF AddNew, CalmToken, Refreshing
  <2>2. PICK k \in Tokens :
          /\ white' = white \cup {k}
          /\ call' = [call EXCEPT ![c].pc = "answered", ![c].token = k, ![c].good = TRUE]
    BY <1>11, NewNumber DEF AddNew
  <2>3. /\ UNCHANGED <<enabled, store, admin>>
        /\ \A d \in Calls : d # c => call'[d] = call[d]
        /\ call'[c].pc = "answered" /\ call'[c].token = k /\ k # NoToken /\ white' = {k}
    BY <2>1, <2>2, <1>11, FreeSet DEF AddNew, Shape, CallRecord
  <2>4. \A d \in Calls : d # c => ~Refreshing(d)'
    BY <2>0, <2>1, <2>3 DEF Refreshing
  <2>5. ~NobodyRefreshes'
    BY <2>3 DEF NobodyRefreshes, Refreshing
  <2> QED
    BY <2>0, <2>1, <2>3, <2>4, <2>5 DEF CalmWorld, CalmCall, CalmToken, Refreshing
<1>12. ASSUME NEW c \in Calls, LogoutRevokes(c)
      PROVE  CalmKept'
  <2>1. ~calm /\ calm' = calm
    BY <1>12, CalmFacts, LogoutRevokesEffect DEF CalmWorld, CalmCall
  <2> QED
    BY <2>1 DEF CalmKept
<1>13. ASSUME NEW c \in Calls, Lost(c)
      PROVE  CalmKept'
  <2>1. ~calm /\ calm' = calm
    BY <1>13, CalmFacts DEF Lost, server, CalmWorld, CalmCall
  <2> QED
    BY <2>1 DEF CalmKept
<1>14. ASSUME AdminScans
      PROVE  CalmKept'
  <2>1. ~calm /\ calm' = calm
    BY <1>14, CalmFacts DEF AdminScans, server, CalmWorld, CalmCall
  <2> QED
    BY <2>1 DEF CalmKept
<1>15. ASSUME AdminRevokes
      PROVE  CalmKept'
  <2>1. ~calm /\ calm' = calm
    BY <1>15, CalmFacts DEF AdminRevokes, CalmWorld, CalmCall
  <2> QED
    BY <2>1 DEF CalmKept
<1>16. ASSUME AdminCommits
      PROVE  CalmKept'
  <2>1. ~calm /\ calm' = calm
    BY <1>16, CalmFacts DEF AdminCommits, CalmWorld, CalmCall
  <2> QED
    BY <2>1 DEF CalmKept
<1>17. ASSUME Enable
      PROVE  CalmKept'
  <2>1. ~calm /\ calm' = calm
    BY <1>17, CalmFacts DEF Enable, CalmWorld, CalmCall
  <2> QED
    BY <2>1 DEF CalmKept
<1>18. ASSUME NEW k \in Tokens, RefreshExpires(k)
      PROVE  CalmKept'
  <2>1. ~calm /\ calm' = calm
    BY <1>18, CalmFacts DEF RefreshExpires, server, CalmWorld, CalmCall
  <2> QED
    BY <2>1 DEF CalmKept
<1>19. CASE UNCHANGED vars
  <2>1. CalmSame
    BY <1>19 DEF vars, CalmSame, AlmostSame
  <2> QED
    BY <2>1, CalmSameKept
<1> QED
  BY <1>1, <1>2, <1>3, <1>4, <1>5, <1>6, <1>7, <1>8, <1>9, <1>10, <1>11, <1>12, <1>13, <1>14, <1>15, <1>16, <1>17, <1>18, <1>19 DEF Next, Step

-----------------------------------------------------------------------------
(* The theorems *)

\* What every reachable state satisfies.
BrowserInv == Shape /\ RefreshKept /\ RoomKept /\ OutKept /\ CalmKept

LEMMA InitHolds ==
  ASSUME Init
  PROVE  BrowserInv
<1>1. \A c \in Calls : call[c] = NoCall /\ call[c].pc = "idle"
  BY Fields DEF Init
<1>2. Shape
  BY CallTypes, OneTab DEF Init, Shape
<1>3. RefreshKept
  BY <1>1, StageNames, OneTab DEF Init, RefreshKept, Refreshing
<1>4. RoomKept
  <2>1. Active = {} /\ Needy = {}
    BY <1>1 DEF Active, Needy
  <2> QED
    BY <2>1, FS_EmptySet, FreeSet DEF RoomKept
<1>5. OutKept
  BY DEF Init, OutKept
<1>6. CalmKept
  <2>1. admin.pc = "idle"
    BY DEF Init, NoAdmin
  <2> QED
    BY <1>1, <2>1 DEF Init, CalmKept, CalmWorld, CalmCall, CalmToken
<1> QED
  BY <1>2, <1>3, <1>4, <1>5, <1>6 DEF BrowserInv

LEMMA StepHolds ==
  ASSUME BrowserInv, [Next]_vars
  PROVE  BrowserInv'
  BY ShapeKept, RefreshStep, RoomStep, OutStep, CalmStep DEF BrowserInv

LEMMA AlwaysInv == Spec => []BrowserInv
  BY InitHolds, StepHolds, PTL DEF Spec

\* Tokens, tabs and calls keep their types, and a tab is refreshing while just one of its
\* calls is (isRefreshing of http.ts), for any number of tabs, calls and tokens.
THEOREM BrowserTypes == Spec => []TypeOK
<1>1. ASSUME BrowserInv
      PROVE  TypeOK
  <2> USE <1>1 DEF BrowserInv
  <2>1. ASSUME NEW t \in Tabs
        PROVE  Cardinality(Refreshers(t)) = IF tab[t].refreshing THEN 1 ELSE 0
    <3>1. \A c : c \in Refreshers(t) <=> c \in Calls /\ TabOf(c) = t /\ Refreshing(c)
      BY OneTab DEF Refreshers, Refreshing
    <3>2. CASE tab[t].refreshing
      <4>1. PICK c \in Calls : TabOf(c) = t /\ Refreshing(c)
        BY <3>2 DEF RefreshKept
      <4>2. Refreshers(t) = {c}
        BY <3>1, <4>1 DEF RefreshKept
      <4> QED
        BY <3>2, <4>2, FS_Singleton
    <3>3. CASE ~tab[t].refreshing
      <4>1. Refreshers(t) = {}
        BY <3>1, <3>3 DEF RefreshKept
      <4> QED
        BY <3>3, <4>1, FS_EmptySet
    <3> QED
      BY <3>2, <3>3
  <2>2. ASSUME NEW t \in Tabs, Queued(t) # {}
        PROVE  tab[t].refreshing
    BY <2>2, OneTab DEF Queued, RefreshKept
  <2>3. ASSUME NEW c \in Calls
        PROVE  call[c].pc \in RefreshStages \cup {"idle", "sent", "queued", "scanned"}
    BY DEF Shape, CallRecord, Stages
  <2> QED
    BY <2>1, <2>2, <2>3 DEF TypeOK, Shape
<1> QED
  BY <1>1, AlwaysInv, PTL

\* After a revocation that met no refresh half way, no refresh token counts
\* until the next login (revoke_all_refresh, and the check of /auth/refresh).
THEOREM RevokedIsOut == Spec => []RevokedStaysOut
<1>1. BrowserInv => RevokedStaysOut
  BY DEF BrowserInv, OutKept, RevokedStaysOut
<1> QED
  BY <1>1, AlwaysInv, PTL

\* In a calm behaviour (one tab, no logout, nothing revoked or lost) one refresh
\* token counts at most.
THEOREM OneTokenCounts == Spec => []OneTokenPerSession
<1>1. ASSUME BrowserInv, calm
      PROVE  white = {} \/ \E k : white = {k}
  <2>1. CASE store = NoToken
    BY <1>1, <2>1 DEF BrowserInv, CalmKept, CalmWorld
  <2>2. CASE store # NoToken /\ NobodyRefreshes
    BY <1>1, <2>2 DEF BrowserInv, CalmKept
  <2>3. CASE ~NobodyRefreshes
    <3>1. PICK c \in Calls : call[c].pc \in {"refresh", "rotate", "add", "answered", "refused"}
      BY <2>3, StageNames DEF NobodyRefreshes, Refreshing
    <3> QED
      BY <1>1, <3>1 DEF BrowserInv, CalmKept, CalmCall, CalmToken
  <2> QED
    BY <2>1, <2>2, <2>3
<1>2. ASSUME BrowserInv
      PROVE  OneTokenPerSession
  <2>1. ASSUME calm
        PROVE  Cardinality(white) = 0 \/ Cardinality(white) = 1
    <3>1. white = {} \/ \E k : white = {k}
      BY <1>1, <1>2, <2>1
    <3> QED
      BY <3>1, FS_EmptySet, FS_Singleton
  <2> QED
    BY <2>1 DEF OneTokenPerSession
<1> QED
  BY <1>2, AlwaysInv, PTL

\* And the user who has logged in stays so: no call presents a token that was
\* rotated already (isRefreshing and pendingQueue of http.ts).
THEOREM NeverThrownOut == Spec => NotThrownOut
<1>1. ASSUME BrowserInv, BrowserInv', [Next]_vars, calm, store # NoToken
      PROVE  store' # NoToken
  <2>1. /\ CalmWorld /\ \A c \in Calls : CalmCall(c) /\ CalmToken(c)
    BY <1>1 DEF BrowserInv, CalmKept
  <2>2. Shape
    BY <1>1 DEF BrowserInv
  <2>3. ASSUME NEW t \in Tabs, Login(t) \/ Reload(t) \/ AccessExpires(t)
        PROVE  store' # NoToken
    BY <1>1, <2>2, <2>3, AccessExpiresEffect DEF Login, Reload
  <2>4. ASSUME NEW c \in Calls, Send(c) \/ CheckRefresh(c) \/ DeleteOld(c) \/ AddNew(c) \/ Lost(c)
        PROVE  store' # NoToken
    BY <1>1, <2>4 DEF Send, CheckRefresh, DeleteOld, AddNew, Lost
  <2>5. ASSUME NEW c \in Calls, Answer(c)
        PROVE  store' # NoToken
    BY <1>1, <2>2, <2>5, AnswerEffect
  <2>6. ASSUME NEW c \in Calls, Unauthorized(c)
        PROVE  store' # NoToken
    <3>1. c # LogoutCall
      BY <2>1, <2>2, <2>6, UnauthorizedEffect DEF CalmCall
    <3> QED
      BY <1>1, <2>2, <2>6, <3>1, UnauthorizedEffect
  <2>7. ASSUME NEW c \in Calls, Refreshed(c)
        PROVE  store' # NoToken
    BY <2>1, <2>2, <2>7, RefreshedEffect DEF CalmToken
  <2>8. ASSUME NEW c \in Calls, RefreshFails(c) \/ LogoutRevokes(c)
        PROVE  FALSE
    BY <2>1, <2>2, <2>8, RefreshFailsEffect, LogoutRevokesEffect DEF CalmCall
  <2>9. ASSUME AdminScans \/ AdminRevokes \/ AdminCommits \/ Enable
               \/ \E k \in Tokens : RefreshExpires(k)
        PROVE  store' # NoToken
    BY <1>1, <2>9 DEF AdminScans, AdminRevokes, AdminCommits, Enable, RefreshExpires
  <2>10. CASE UNCHANGED vars
    BY <1>1, <2>10 DEF vars
  <2> QED
    BY <1>1, <2>3, <2>4, <2>5, <2>6, <2>7, <2>8, <2>9, <2>10 DEF Next, Step
<1>2. BrowserInv /\ BrowserInv' /\ [Next]_vars
        => [calm /\ store # NoToken => store' # NoToken]_vars
  BY <1>1
<1> QED
  BY <1>2, AlwaysInv, PTL DEF Spec, NotThrownOut

=============================================================================
