----------------------------- MODULE TokenStore -----------------------------
(***************************************************************************)
(* The access_token of one official account: cached in Redis, refreshed by *)
(* whoever finds it missing, under a lock in Redis that expires.  Every    *)
(* step is one call to Redis or to WeChat; callers of all workers and API  *)
(* processes run between any two of them.                                  *)
(***************************************************************************)
EXTENDS Integers

CONSTANTS
  Callers,
  LockTtl,    \* LOCK_TTL
  WaitSteps,  \* WAIT_STEPS
  SafeTtl,    \* SAFE_TTL
  MinTtl,     \* the least time a token is cached
  Lifetimes,  \* what WeChat may answer as expires_in
  Latencies,  \* how long a refresh may take: a behaviour keeps within one
  MaxTokens,  \* bound on the tokens WeChat issues
  NoCaller

ASSUME TokenAssumption ==
  /\ LockTtl \in Nat \ {0} /\ WaitSteps \in Nat /\ MaxTokens \in Nat
  /\ SafeTtl \in Nat /\ MinTtl \in Nat \ {0}
  /\ Lifetimes \subseteq Nat /\ Latencies \subseteq Nat
  /\ NoCaller \notin Callers

VARIABLES
  cache,   \* wx:token:{app_id} and its time to live
  lock,    \* wx:lock:token:{app_id}: who holds it, and its time to live
  wx,      \* WeChat: the last token issued, how long it was to live and has left, and
           \* whether its answer got lost
  call,    \* the callers
  latency  \* how long a refresh may take in this behaviour

vars == <<cache, lock, wx, call, latency>>

NoToken == 0

\* miss: found no token; ask: holds the lock, waits for WeChat; store: issued: WeChat has
\* issued a token to it; release: in the finally clause; wait: polls for another's token.
Pc == {"idle", "miss", "ask", "issued", "release", "wait"}

Refreshing == {"ask", "issued", "release"}

\* tok, ttl: the answer in hand; left: polls left; age: since the lock was taken.
Call ==
  [pc: Pc, tok: Nat, ttl: Nat, left: 0..WaitSteps, age: Nat]

NoCall == [pc |-> "idle", tok |-> NoToken, ttl |-> 0, left |-> 0, age |-> 0]

NoLock == [owner |-> NoCaller, ttl |-> 0]

NoCache == [tok |-> NoToken, ttl |-> 0]

Init ==
  /\ cache = NoCache
  /\ lock = NoLock
  /\ wx = [latest |-> NoToken, expires |-> 0, life |-> 0, lost |-> FALSE]
  /\ call = [c \in Callers |-> NoCall]
  /\ latency \in Latencies

-----------------------------------------------------------------------------
\* get: a token in the cache is the answer, and nothing changes.
Get(c) ==
  /\ call[c].pc = "idle" /\ cache.tok = NoToken
  /\ call' = [call EXCEPT ![c].pc = "miss"]
  /\ UNCHANGED <<cache, lock, wx, latency>>

\* Mutant: a lock without a time to live (SET NX, no EX).
LockedForEver(c) == [owner |-> c, ttl |-> 0]

Locked(c) == [owner |-> c, ttl |-> LockTtl]

\* Mutant: everybody refreshes, lock or no lock.
NobodyExcluded == TRUE

LockFree == lock.owner = NoCaller

Acquire(c) ==
  /\ call[c].pc = "miss" /\ LockFree
  /\ lock' = Locked(c)
  /\ call' = [call EXCEPT ![c] = [NoCall EXCEPT !.pc = "ask"]]
  /\ UNCHANGED <<cache, wx, latency>>

Queue(c) ==
  /\ call[c].pc = "miss" /\ ~LockFree
  /\ call' = [call EXCEPT ![c] = [NoCall EXCEPT !.pc = "wait", !.left = WaitSteps]]
  /\ UNCHANGED <<cache, lock, wx, latency>>

\* Mutant: the token is cached as long as WeChat says it lives.
CachedForLife(life) == life

\* max(60, expires_in - SAFE_TTL)
CachedFor(life) ==
  IF life >= SafeTtl + MinTtl THEN life - SafeTtl ELSE MinTtl

\* WeChat issues a token, which ends the one before.
Answered(c) ==
  /\ call[c].pc = "ask" /\ wx.latest < MaxTokens
  /\ \E life \in Lifetimes :
       /\ wx' = [latest |-> wx.latest + 1, expires |-> life, life |-> life, lost |-> FALSE]
       /\ call' = [call EXCEPT ![c].pc = "issued", ![c].tok = wx.latest + 1,
                               ![c].ttl = CachedFor(life)]
  /\ UNCHANGED <<cache, lock, latency>>

\* An errcode, or a request that does not reach WeChat in time.
Refused(c) ==
  /\ call[c].pc = "ask"
  /\ call' = [call EXCEPT ![c].pc = "release"]
  /\ UNCHANGED <<cache, lock, wx, latency>>

\* The answer comes after the HTTP client has given up.
AnswerLost(c) ==
  /\ call[c].pc = "issued"
  /\ wx' = [wx EXCEPT !.lost = @ \/ call[c].tok = wx.latest]
  /\ call' = [call EXCEPT ![c].pc = "release"]
  /\ UNCHANGED <<cache, lock, latency>>

Store(c) ==
  /\ call[c].pc = "issued"
  /\ cache' = [tok |-> call[c].tok, ttl |-> call[c].ttl]
  /\ call' = [call EXCEPT ![c].pc = "release"]
  /\ UNCHANGED <<lock, wx, latency>>

\* Mutant: DEL without comparing the holder.
Unlocked(c) == NoLock

\* _RELEASE_LUA
Released(c) == IF lock.owner = c THEN NoLock ELSE lock

Release(c) ==
  /\ call[c].pc = "release"
  /\ lock' = Released(c)
  /\ call' = [call EXCEPT ![c] = NoCall]
  /\ UNCHANGED <<cache, wx, latency>>

\* A waiter takes the token it finds, or gives up after its last poll.
Poll(c) ==
  /\ call[c].pc = "wait"
  /\ call' = [call EXCEPT ![c] =
       IF cache.tok # NoToken \/ @.left <= 1 THEN NoCall
       ELSE [@ EXCEPT !.left = call[c].left - 1]]
  /\ UNCHANGED <<cache, lock, wx, latency>>

\* update_account has a new secret: the cached token is deleted.
Invalidate ==
  /\ cache.tok # NoToken
  /\ cache' = NoCache
  /\ UNCHANGED <<lock, wx, call, latency>>

\* The process of a caller dies.
Crash(c) ==
  /\ call[c].pc # "idle"
  /\ wx' = [wx EXCEPT !.lost =
              @ \/ (call[c].pc = "issued" /\ call[c].tok = wx.latest)]
  /\ call' = [call EXCEPT ![c] = NoCall]
  /\ UNCHANGED <<cache, lock, latency>>

Less(n) == IF n > 0 THEN n - 1 ELSE 0

\* A second passes; it does not while a refresh has used up the latency.
Tick ==
  /\ \A c \in Callers : call[c].pc \in Refreshing => call[c].age < latency
  /\ cache.ttl > 0 \/ lock.ttl > 0 \/ wx.life > 0
  /\ cache' = IF cache.ttl <= 1 THEN NoCache ELSE [cache EXCEPT !.ttl = @ - 1]
  /\ lock' = IF lock.ttl = 1 THEN NoLock ELSE [lock EXCEPT !.ttl = Less(@)]
  /\ wx' = [wx EXCEPT !.life = Less(@)]
  /\ call' = [c \in Callers |->
       IF call[c].pc \in Refreshing THEN [call[c] EXCEPT !.age = @ + 1]
       ELSE call[c]]
  /\ UNCHANGED latency

-----------------------------------------------------------------------------
Step(c) ==
  \/ Acquire(c) \/ Queue(c) \/ Answered(c) \/ Refused(c) \/ AnswerLost(c)
  \/ Store(c) \/ Release(c) \/ Poll(c)

Next ==
  \/ \E c \in Callers : Get(c) \/ Step(c) \/ Crash(c)
  \/ Invalidate
  \/ Tick

Spec == Init /\ [][Next]_vars

\* Seconds pass; a coroutine that can go on does, and WeChat or the HTTP
\* client's timeout ends each request.
Fairness == WF_vars(Tick) /\ \A c \in Callers : WF_vars(Step(c))

FairSpec == Spec /\ Fairness

-----------------------------------------------------------------------------
(* Properties *)

\* A refresh that stays within the lifetime of its lock.
Timely == latency < LockTtl

\* The cache, the lock and the callers have their types; an empty entry has no
\* time to live.
TypeOK ==
  /\ cache \in [tok: Nat, ttl: Nat] /\ (cache.tok = NoToken <=> cache.ttl = 0)
  /\ lock \in [owner: Callers \cup {NoCaller}, ttl: Nat]
  /\ lock.owner = NoCaller <=> lock.ttl = 0
  /\ lock.ttl <= LockTtl
  /\ wx \in [latest: Nat, expires: Nat, life: Nat, lost: BOOLEAN]
  /\ call \in [Callers -> Call]
  /\ latency \in Latencies

\* While no refresh outlives its lock, one caller at a time asks WeChat, also
\* when others crash or give up (SET NX, release in finally).
OneRefresher ==
  Timely =>
    \A c, d \in Callers :
      call[c].pc \in Refreshing /\ call[d].pc \in Refreshing => c = d

\* When nobody is refreshing, the cached token is the last one issued, unless
\* the answer with that one got lost: an older token never stays behind.
CachedIsLatest ==
  Timely /\ ~wx.lost /\ (\A c \in Callers : call[c].pc \notin {"ask", "issued"})
    => cache.tok \in {NoToken, wx.latest}

\* What a token of that lifetime can keep: SAFE_TTL, or what the least time in
\* the cache leaves of a short life; less than nothing if it outlasts that life.
Margin(life) == IF life >= SafeTtl + MinTtl THEN SafeTtl ELSE life - MinTtl

\* A cached token outlives its cache entry by the margin of its lifetime, less
\* the time its refresh took, however slow the refresh.
CachedHasMargin ==
  cache.tok # NoToken /\ cache.tok = wx.latest
    => wx.life + latency >= cache.ttl + Margin(wx.expires)

\* A lock goes by its own holder or by its time, never by the release of a
\* refresher that has outlived its own lock.
ReleasesOwnLock ==
  [][\A c \in Callers :
       lock.owner = c /\ lock' = NoLock
         => lock.ttl = 1 \/ call[c].pc = "release"]_vars

\* A lock is always given up in the end, though its holder crash.
LockOpens == \A c \in Callers : lock.owner = c ~> lock.owner # c
=============================================================================
