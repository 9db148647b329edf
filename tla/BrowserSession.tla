--------------------------- MODULE BrowserSession ---------------------------
(***************************************************************************)
(* The session of one user: the tabs of a browser with their calls, which  *)
(* share one refresh token in localStorage, and the server, which rotates  *)
(* refresh tokens on a white list in Redis and revokes them.               *)
(*                                                                         *)
(* Of an access token only this matters: whether the server still takes    *)
(* it.  Those of a tab and of its calls expire, and are blocked, together. *)
(***************************************************************************)
EXTENDS Naturals, FiniteSets, FiniteSetsExt

CONSTANTS
  Tabs,
  CallsOf,   \* CallsOf[t]: the calls tab t can have in flight at a time
  MainTab,   \* the only tab of a calm behaviour
  LogoutCall, \* the call that asks for /auth/logout
  MaxTokens  \* bound on the refresh tokens in use at a time

Calls == UNION {CallsOf[t] : t \in Tabs}

TabOf(c) == CHOOSE t \in Tabs : c \in CallsOf[t]

ASSUME BrowserAssumption ==
  /\ MainTab \in Tabs /\ DOMAIN CallsOf = Tabs
  /\ \A t, u \in Tabs : t # u => CallsOf[t] \cap CallsOf[u] = {}
  /\ LogoutCall \in Calls
  /\ MaxTokens \in Nat

VARIABLES
  white,   \* jwt:refresh:{user}:*: the refresh tokens that count
  enabled, \* the status of the user
  store,   \* the refresh token in localStorage
  tab,     \* of each tab: whether it has a good access token, and isRefreshing
  call,    \* the calls
  admin,   \* an administrator who disables the user, or a new password
  out,     \* history: revoked, and no login since
  calm     \* one tab, one login at a time, no logout, revocation or lost answer

server == <<white, enabled>>
vars == <<white, enabled, store, tab, call, admin, out, calm>>

NoToken == 0

Tokens == 1..MaxTokens

\* good: sent with an access token the server takes; token: the refresh token
\* it presents or was given.
NoCall ==
  [pc |-> "idle", good |-> FALSE, retried |-> FALSE, token |-> NoToken, keys |-> {}]

Refusal == [NoCall EXCEPT !.pc = "refused"]

NoAdmin == [pc |-> "idle", keys |-> {}]

\* refresh, rotate, add: the server checks, deletes and adds; answered, refused:
\* the answer is on its way; scanned: logout knows the keys it will delete.
RefreshStages == {"refresh", "rotate", "add", "answered", "refused"}

Refreshers(t) == {c \in CallsOf[t] : call[c].pc \in RefreshStages}

Queued(t) == {c \in CallsOf[t] : call[c].pc = "queued"}

Active == {c \in Calls : call[c].pc # "idle"}

\* The numbers not in use.
Free ==
  Tokens \ (white \cup {store} \cup {call[c].token : c \in Calls}
              \cup UNION ({call[c].keys : c \in Calls} \cup {admin.keys}))

\* A call and a login start only while every call in flight can get a new one.
Room == Cardinality(Free) > Cardinality(Active)

Init ==
  /\ white = {} /\ enabled = TRUE
  /\ store = NoToken
  /\ tab = [t \in Tabs |-> [access |-> FALSE, refreshing |-> FALSE]]
  /\ call = [c \in Calls |-> NoCall]
  /\ admin = NoAdmin
  /\ out = FALSE
  /\ calm \in BOOLEAN

-----------------------------------------------------------------------------
(* The browser *)

Login(t) ==
  /\ enabled /\ Room
  /\ calm => store = NoToken /\ t = MainTab /\ Active = {}
  /\ LET k == Min(Free)
     IN /\ white' = white \cup {k}
        /\ store' = k
        /\ tab' = [tab EXCEPT ![t].access = TRUE]
  /\ out' = FALSE
  /\ UNCHANGED <<enabled, call, admin, calm>>

\* A reloaded page has lost its access token.
Reload(t) ==
  /\ \A c \in CallsOf[t] : call[c].pc = "idle"
  /\ tab' = [tab EXCEPT ![t].access = FALSE]
  /\ UNCHANGED <<server, store, call, admin, out, calm>>

Sent(good, retried) ==
  [NoCall EXCEPT !.pc = "sent", !.good = good, !.retried = retried]

Send(c) ==
  /\ call[c].pc = "idle" /\ store # NoToken /\ Room
  /\ calm => TabOf(c) = MainTab /\ c # LogoutCall
  /\ call' = [call EXCEPT ![c] = Sent(tab[TabOf(c)].access, FALSE)]
  /\ UNCHANGED <<server, store, tab, admin, out, calm>>

\* The calls of tab t in ended are over; a logout then clears the tab, and so
\* does a refresh that failed.
Ended(t, ended, failed, refreshing) ==
  /\ call' = [c \in Calls |-> IF c \in ended THEN NoCall ELSE call[c]]
  /\ IF failed \/ LogoutCall \in ended
     THEN /\ store' = NoToken
          /\ tab' = [tab EXCEPT ![t] = [access |-> FALSE, refreshing |-> refreshing]]
     ELSE /\ tab' = [tab EXCEPT ![t].refreshing = refreshing]
          /\ UNCHANGED store

\* Mutant: nothing tells a tab that it is refreshing already.
NeverBusy(t) == FALSE

Busy(t) == tab[t].refreshing

\* The response interceptor, on a 401.
Unauthorized(c) ==
  LET t == TabOf(c)
  IN /\ call[c].pc = "sent" /\ ~(enabled /\ call[c].good)
     /\ \/ /\ call[c].retried
           /\ Ended(t, {c}, FALSE, Busy(t))
        \/ /\ ~call[c].retried /\ Busy(t)
           /\ call' = [call EXCEPT ![c] = [NoCall EXCEPT !.pc = "queued"]]
           /\ UNCHANGED <<store, tab>>
        \/ /\ ~call[c].retried /\ ~Busy(t)
           /\ tab' = [tab EXCEPT ![t].refreshing = TRUE]
           /\ call' = [call EXCEPT ![c] =
                IF store = NoToken THEN Refusal
                ELSE [NoCall EXCEPT !.pc = "refresh", !.token = store]]
           /\ UNCHANGED store
     /\ UNCHANGED <<server, admin, out, calm>>

\* The new tokens are kept, and the waiting calls are sent again with it.
Refreshed(c) ==
  LET t == TabOf(c)
  IN /\ call[c].pc = "answered"
     /\ store' = call[c].token
     /\ tab' = [tab EXCEPT ![t] = [access |-> call[c].good, refreshing |-> FALSE]]
     /\ call' = [d \in Calls |->
          IF d \in Queued(t) \cup {c} THEN Sent(call[c].good, TRUE) ELSE call[d]]
     /\ UNCHANGED <<server, admin, out, calm>>

\* Mutant: the queue is flushed after a refresh that succeeded, only.
NobodyFlushed(c) == {c}

\* flushQueue(null) rejects the waiting calls.
Flushed(c) == {c} \cup Queued(TabOf(c))

\* Mutant: isRefreshing is reset after a refresh that succeeded, only.
StillRefreshing == TRUE

RefreshingAfter == FALSE

RefreshFails(c) ==
  /\ call[c].pc = "refused"
  /\ Ended(TabOf(c), Flushed(c), TRUE, RefreshingAfter)
  /\ UNCHANGED <<server, admin, out, calm>>

\* The request or its answer gets lost, or the server dies over it.
Lost(c) ==
  /\ ~calm /\ call[c].pc \in RefreshStages \ {"refused"}
  /\ call' = [call EXCEPT ![c] = Refusal]
  /\ UNCHANGED <<server, store, tab, admin, out, calm>>

-----------------------------------------------------------------------------
(* The server *)

\* The access token of tab t and of its calls, as they are in cs, is taken no more.
AccessEnds(t, cs) ==
  /\ tab' = [tab EXCEPT ![t].access = FALSE]
  /\ call' = [c \in Calls |->
       IF c \in CallsOf[t] THEN [cs[c] EXCEPT !.good = FALSE] ELSE cs[c]]

\* A call that get_current_user lets pass; a logout blocks its access token and
\* goes on to revoke.
Answer(c) ==
  /\ call[c].pc = "sent" /\ enabled /\ call[c].good
  /\ IF c = LogoutCall
     THEN /\ AccessEnds(TabOf(c),
                        [call EXCEPT ![c].pc = "scanned", ![c].keys = white])
          /\ UNCHANGED store
     ELSE Ended(TabOf(c), {c}, FALSE, Busy(TabOf(c)))
  /\ UNCHANGED <<server, admin, out, calm>>

\* Mutant: any refresh token that decodes will do.
AnyToken(k) == TRUE

Whitelisted(k) == k \in white

\* /auth/refresh: the white list, then the user; a disabled one loses the token.
CheckRefresh(c) ==
  /\ call[c].pc = "refresh"
  /\ LET good == Whitelisted(call[c].token)
     IN /\ call' = [call EXCEPT ![c] =
             IF good /\ enabled THEN [@ EXCEPT !.pc = "rotate"] ELSE Refusal]
        /\ white' = IF good /\ ~enabled THEN white \ {call[c].token} ELSE white
  /\ UNCHANGED <<enabled, store, tab, admin, out, calm>>

\* Mutant: the old token stays on the white list.
NotRotated(k) == white

WithoutOld(k) == white \ {k}

DeleteOld(c) ==
  /\ call[c].pc = "rotate"
  /\ white' = WithoutOld(call[c].token)
  /\ call' = [call EXCEPT ![c] = [NoCall EXCEPT !.pc = "add"]]
  /\ UNCHANGED <<enabled, store, tab, admin, out, calm>>

AddNew(c) ==
  /\ call[c].pc = "add"
  /\ LET k == Min(Free)
     IN /\ white' = white \cup {k}
        /\ call' = [call EXCEPT ![c].pc = "answered", ![c].token = k, ![c].good = TRUE]
  /\ UNCHANGED <<enabled, store, tab, admin, out, calm>>

\* DEL of the keys a SCAN has found.  A refresh between its check and its new
\* key escapes the revocation: only without one is the user out.
Revoked(keys) ==
  /\ white' = white \ keys
  /\ out' = (out \/ (white \subseteq keys /\ \A c \in Calls : call[c].pc \notin {"rotate", "add"}))

LogoutRevokes(c) ==
  /\ call[c].pc = "scanned"
  /\ Revoked(call[c].keys)
  /\ Ended(TabOf(c), {c}, FALSE, Busy(TabOf(c)))
  /\ UNCHANGED <<enabled, admin, calm>>

\* update_user and change_password revoke before they commit.
AdminScans ==
  /\ ~calm /\ admin.pc = "idle"
  /\ \E to \in {"disable", "password"} :
       /\ to = "disable" => enabled
       /\ admin' = [pc |-> to, keys |-> white]
  /\ UNCHANGED <<server, store, tab, call, out, calm>>

AdminRevokes ==
  /\ admin.pc \in {"disable", "password"}
  /\ Revoked(admin.keys)
  /\ admin' = IF admin.pc = "disable" THEN [pc |-> "commit", keys |-> {}] ELSE NoAdmin
  /\ UNCHANGED <<enabled, store, tab, call, calm>>

AdminCommits ==
  /\ admin.pc = "commit"
  /\ enabled' = FALSE /\ admin' = NoAdmin
  /\ UNCHANGED <<white, store, tab, call, out, calm>>

Enable ==
  /\ ~enabled /\ enabled' = TRUE
  /\ UNCHANGED <<white, store, tab, call, admin, out, calm>>

\* Access tokens run out all the time, refresh tokens after days.
AccessExpires(t) ==
  /\ tab[t].access \/ \E c \in CallsOf[t] : call[c].good
  /\ AccessEnds(t, call)
  /\ UNCHANGED <<server, store, admin, out, calm>>

RefreshExpires(k) ==
  /\ ~calm /\ k \in white
  /\ white' = white \ {k}
  /\ UNCHANGED <<enabled, store, tab, call, admin, out, calm>>

-----------------------------------------------------------------------------
Step(c) ==
  \/ Answer(c) \/ Unauthorized(c) \/ Refreshed(c) \/ RefreshFails(c)
  \/ CheckRefresh(c) \/ DeleteOld(c) \/ AddNew(c) \/ LogoutRevokes(c)

Next ==
  \/ \E t \in Tabs : Login(t) \/ Reload(t) \/ AccessExpires(t)
  \/ \E c \in Calls : Send(c) \/ Step(c) \/ Lost(c)
  \/ AdminScans \/ AdminRevokes \/ AdminCommits \/ Enable
  \/ \E k \in Tokens : RefreshExpires(k)

\* The server answers, or the connection fails: a refresh has no timeout.
Fairness == \A c \in Calls : WF_vars(Step(c))

Spec == Init /\ [][Next]_vars /\ Fairness

-----------------------------------------------------------------------------
(* Properties *)

\* Tokens, tabs and calls have their types; a tab is refreshing while just one
\* of its calls is, and calls wait only then.
TypeOK ==
  /\ white \subseteq Tokens
  /\ store \in Tokens \cup {NoToken}
  /\ \A t \in Tabs :
       /\ tab[t] \in [access: BOOLEAN, refreshing: BOOLEAN]
       /\ Cardinality(Refreshers(t)) = IF tab[t].refreshing THEN 1 ELSE 0
       /\ Queued(t) # {} => tab[t].refreshing
  /\ \A c \in Calls :
       call[c].pc \in RefreshStages \cup {"idle", "sent", "queued", "scanned"}

\* Every call is answered or rejected in the end, also one that waited for the
\* refresh of another and whatever becomes of that (pendingQueue, flushQueue).
Settled == \A c \in Calls : call[c].pc # "idle" ~> call[c].pc = "idle"

\* With one tab, no logout, and nothing revoked or lost, a user who has logged in
\* stays so, however many of the calls of the tab meet an expired access token,
\* together or late: none of them presents a refresh token that was rotated already.
NotThrownOut == [][calm /\ store # NoToken => store' # NoToken]_vars

\* Then there is one refresh token that counts, too: rotation leaves no other.
OneTokenPerSession == calm => Cardinality(white) <= 1

\* After a revocation that met no refresh half way, no token counts until the
\* next login, whatever tokens the tabs still present.
RevokedStaysOut == out => white = {}
=============================================================================
