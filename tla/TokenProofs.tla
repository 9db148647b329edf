---------------------------- MODULE TokenProofs ----------------------------
(***************************************************************************)
(* The invariants of TokenStore, for any callers, times to live, lifetimes *)
(* and latencies.                                                          *)
(***************************************************************************)
EXTENDS TokenStore, TLAPS

\* An answer in hand is a token, and would be cached for some time.
IssuedOK ==
  \A c \in Callers : call[c].pc = "issued" => call[c].tok > 0 /\ call[c].ttl > 0

TypeInv == TypeOK /\ IssuedOK

\* No refresh is older than the latency of the behaviour.
AgeInv == \A c \in Callers : call[c].pc \in Refreshing => call[c].age <= latency

\* Who refreshes in time still holds the lock it took, and the lock is as old
\* as the refresh.
HolderInv ==
  Timely =>
    \A c \in Callers :
      call[c].pc \in Refreshing => lock.owner = c /\ lock.ttl + call[c].age = LockTtl

\* Nobody has a token that WeChat has not issued.
OrderInv ==
  /\ cache.tok <= wx.latest
  /\ \A c \in Callers : call[c].pc = "issued" => call[c].tok <= wx.latest

\* Among timely refreshes the newest token is in hand, or it is the cached one.
FreshInv ==
  Timely /\ ~wx.lost =>
    /\ \A c \in Callers : call[c].pc = "issued" => call[c].tok = wx.latest
    /\ (\A c \in Callers : call[c].pc # "issued") => cache.tok \in {NoToken, wx.latest}

\* The newest token lives longer than it is, or would be, cached: by the margin
\* of its lifetime, less the time that has gone by since its refresh began.
MarginInv ==
  /\ CachedHasMargin
  /\ \A c \in Callers :
       call[c].pc = "issued" /\ call[c].tok = wx.latest
         => wx.life + call[c].age >= call[c].ttl + Margin(wx.expires)

-----------------------------------------------------------------------------
(* Types *)

\* A call keeps its type whatever step its caller takes.
LEMMA CallTypes ==
  /\ NoCall \in Call
  /\ \A k \in Call, p \in Pc : [k EXCEPT !.pc = p] \in Call
  /\ \A k \in Call : [k EXCEPT !.age = @ + 1] \in Call
  /\ \A k \in Call, t, u \in Nat :
       [k EXCEPT !.pc = "issued", !.tok = t, !.ttl = u] \in Call
<1>1. NoCall \in Call
  BY TokenAssumption DEF NoCall, Call, Pc, NoToken
<1>2. ASSUME NEW k \in Call, NEW p \in Pc
      PROVE  [k EXCEPT !.pc = p] \in Call
  BY DEF Call
<1>3. ASSUME NEW k \in Call
      PROVE  [k EXCEPT !.age = @ + 1] \in Call
  BY DEF Call
<1>4. ASSUME NEW k \in Call, NEW t \in Nat, NEW u \in Nat
      PROVE  [k EXCEPT !.pc = "issued", !.tok = t, !.ttl = u] \in Call
  BY DEF Call, Pc
<1> QED
  BY <1>1, <1>2, <1>3, <1>4

\* What WeChat answers is cached for some time, by its margin less than it lives.
LEMMA CachedForPositive ==
  ASSUME NEW life \in Lifetimes
  PROVE  /\ life \in Nat
         /\ CachedFor(life) \in Nat
         /\ CachedFor(life) > 0
         /\ Margin(life) \in Int
         /\ CachedFor(life) + Margin(life) = life
BY TokenAssumption DEF CachedFor, Margin

LEMMA InitTypeInv == Init => TypeInv
<1> SUFFICES ASSUME Init
             PROVE  TypeInv
  OBVIOUS
<1>1. TypeOK
  <2>1. call \in [Callers -> Call]
    BY CallTypes DEF Init
  <2>2. /\ lock \in [owner: Callers \cup {NoCaller}, ttl: Nat]
        /\ lock.owner = NoCaller /\ lock.ttl = 0
    BY DEF Init, NoLock
  <2> QED
    BY <2>1, <2>2, TokenAssumption DEF Init, TypeOK, NoCache, NoToken
<1>2. IssuedOK
  BY DEF Init, IssuedOK, NoCall
<1> QED
  BY <1>1, <1>2 DEF TypeInv

LEMMA NextTypeInv == TypeInv /\ [Next]_vars => TypeInv'
<1> SUFFICES ASSUME TypeInv, [Next]_vars
             PROVE  TypeInv'
  OBVIOUS
<1> USE DEF TypeInv, TypeOK, IssuedOK
<1>1. ASSUME NEW c \in Callers, Get(c)
      PROVE  TypeInv'
  BY <1>1 DEF Get, Call, Pc
<1>2. ASSUME NEW c \in Callers, Acquire(c)
      PROVE  TypeInv'
  <2>1. [NoCall EXCEPT !.pc = "ask"] \in Call
    BY CallTypes DEF Pc
  <2>2. Locked(c) \in [owner: Callers \cup {NoCaller}, ttl: Nat]
    BY TokenAssumption DEF Locked
  <2>3. Locked(c).owner # NoCaller /\ Locked(c).ttl = LockTtl /\ LockTtl > 0
    BY TokenAssumption DEF Locked
  <2> QED
    BY <1>2, <2>1, <2>2, <2>3, TokenAssumption DEF Acquire
<1>3. ASSUME NEW c \in Callers, Queue(c)
      PROVE  TypeInv'
  <2>1. [NoCall EXCEPT !.pc = "wait", !.left = WaitSteps] \in Call
    <3>1. NoCall \in Call
      BY CallTypes
    <3>2. WaitSteps \in 0..WaitSteps
      BY TokenAssumption
    <3> QED
      BY <3>1, <3>2 DEF Call, Pc
  <2> QED
    BY <1>3, <2>1 DEF Queue
<1>4. ASSUME NEW c \in Callers, Answered(c)
      PROVE  TypeInv'
  <2>1. PICK life \in Lifetimes :
          /\ wx' = [latest |-> wx.latest + 1, expires |-> life, life |-> life, lost |-> FALSE]
          /\ call' = [call EXCEPT ![c].pc = "issued", ![c].tok = wx.latest + 1,
                                  ![c].ttl = CachedFor(life)]
    BY <1>4 DEF Answered
  <2>2. wx' \in [latest: Nat, expires: Nat, life: Nat, lost: BOOLEAN]
    BY <2>1, CachedForPositive
  <2>3. /\ call' \in [Callers -> Call]
        /\ call'[c].tok > 0 /\ call'[c].ttl > 0
        /\ \A d \in Callers \ {c} : call'[d] = call[d]
    <3>1. wx.latest + 1 \in Nat /\ wx.latest + 1 > 0
      OBVIOUS
    <3>2. [call[c] EXCEPT !.pc = "issued", !.tok = wx.latest + 1,
                          !.ttl = CachedFor(life)] \in Call
      BY <3>1, CallTypes, CachedForPositive
    <3>3. call[c] \in Call
      OBVIOUS
    <3> QED
      BY <2>1, <3>1, <3>2, <3>3, CachedForPositive DEF Call
  <2> QED
    BY <1>4, <2>2, <2>3 DEF Answered
<1>5. ASSUME NEW c \in Callers, Refused(c)
      PROVE  TypeInv'
  BY <1>5 DEF Refused, Call, Pc
<1>6. ASSUME NEW c \in Callers, AnswerLost(c)
      PROVE  TypeInv'
  <2>1. call' \in [Callers -> Call]
    BY <1>6 DEF AnswerLost, Call, Pc
  <2>2. wx' \in [latest: Nat, expires: Nat, life: Nat, lost: BOOLEAN]
    BY <1>6 DEF AnswerLost
  <2>3. \A d \in Callers : call'[d].pc = "issued" => call'[d] = call[d]
    BY <1>6 DEF AnswerLost, Call
  <2> QED
    BY <1>6, <2>1, <2>2, <2>3 DEF AnswerLost
<1>7. ASSUME NEW c \in Callers, Store(c)
      PROVE  TypeInv'
  <2>1. cache' \in [tok: Nat, ttl: Nat] /\ cache'.tok > 0 /\ cache'.ttl > 0
    BY <1>7 DEF Store, Call
  <2>2. call' \in [Callers -> Call]
    BY <1>7 DEF Store, Call, Pc
  <2>3. \A d \in Callers : call'[d].pc = "issued" => call'[d] = call[d]
    BY <1>7 DEF Store, Call
  <2> QED
    BY <1>7, <2>1, <2>2, <2>3 DEF Store, NoToken
<1>8. ASSUME NEW c \in Callers, Release(c)
      PROVE  TypeInv'
  <2>1. call' \in [Callers -> Call]
    BY <1>8, CallTypes DEF Release
  <2>2. \A d \in Callers : call'[d].pc = "issued" => call'[d] = call[d]
    BY <1>8 DEF Release, NoCall
  <2>3. /\ lock' \in [owner: Callers \cup {NoCaller}, ttl: Nat]
        /\ lock'.owner = NoCaller <=> lock'.ttl = 0
        /\ lock'.ttl <= LockTtl
    BY <1>8, TokenAssumption DEF Release, Released, NoLock
  <2> QED
    BY <1>8, <2>1, <2>2, <2>3 DEF Release
<1>9. ASSUME NEW c \in Callers, Poll(c)
      PROVE  TypeInv'
  <2>1. call'[c] \in Call /\ call'[c].pc # "issued"
    <3>1. CASE cache.tok # NoToken \/ call[c].left <= 1
      BY <1>9, <3>1, CallTypes DEF Poll, NoCall
    <3>2. CASE ~(cache.tok # NoToken \/ call[c].left <= 1)
      <4>1. call[c] \in Call
        OBVIOUS
      <4>2. call'[c] = [call[c] EXCEPT !.left = @ - 1]
        BY <1>9, <3>2 DEF Poll
      <4> QED
        BY <1>9, <3>2, <4>1, <4>2, TokenAssumption DEF Poll, Call
    <3> QED
      BY <3>1, <3>2
  <2>2. call' \in [Callers -> Call] /\ \A d \in Callers \ {c} : call'[d] = call[d]
    BY <1>9, <2>1 DEF Poll
  <2> QED
    BY <1>9, <2>1, <2>2 DEF Poll
<1>10. ASSUME NEW c \in Callers, Crash(c)
       PROVE  TypeInv'
  BY <1>10, CallTypes DEF Crash, NoCall
<1>11. CASE Invalidate
  BY <1>11 DEF Invalidate, NoCache, NoToken
<1>12. CASE Tick
  <2>1. cache' \in [tok: Nat, ttl: Nat] /\ (cache'.tok = NoToken <=> cache'.ttl = 0)
    BY <1>12 DEF Tick, NoCache, NoToken
  <2>2. /\ lock' \in [owner: Callers \cup {NoCaller}, ttl: Nat]
        /\ lock'.owner = NoCaller <=> lock'.ttl = 0
        /\ lock'.ttl <= LockTtl
    BY <1>12, TokenAssumption DEF Tick, NoLock, Less
  <2>3. wx' \in [latest: Nat, expires: Nat, life: Nat, lost: BOOLEAN]
    BY <1>12 DEF Tick, Less
  <2>4. /\ call' \in [Callers -> Call]
        /\ \A c \in Callers : /\ call'[c].pc = call[c].pc
                              /\ call'[c].tok = call[c].tok
                              /\ call'[c].ttl = call[c].ttl
    <3>1. ASSUME NEW c \in Callers
          PROVE  /\ call'[c] \in Call
                 /\ call'[c].pc = call[c].pc
                 /\ call'[c].tok = call[c].tok
                 /\ call'[c].ttl = call[c].ttl
      BY <1>12, CallTypes DEF Tick, Call
    <3> QED
      BY <1>12, <3>1 DEF Tick
  <2> QED
    BY <1>12, <2>1, <2>2, <2>3, <2>4 DEF Tick
<1>13. CASE UNCHANGED vars
  BY <1>13 DEF vars
<1> QED
  BY <1>1, <1>2, <1>3, <1>4, <1>5, <1>6, <1>7, <1>8, <1>9, <1>10, <1>11, <1>12, <1>13
  DEF Next, Step

LEMMA TypeInvariant == Spec => []TypeInv
BY InitTypeInv, NextTypeInv, PTL DEF Spec

\* The cache, the lock, WeChat and the callers keep their types; an entry of
\* Redis is there exactly while it has time to live.
THEOREM TokenTypes == Spec => []TypeOK
<1>1. TypeInv => TypeOK
  BY DEF TypeInv
<1> QED
  BY <1>1, TypeInvariant, PTL

-----------------------------------------------------------------------------
(* One refresher *)

\* A behaviour keeps its latency.
LEMMA LatencyFixed == [Next]_vars => latency' = latency
BY DEF Next, Step, Get, Acquire, Queue, Answered, Refused, AnswerLost, Store,
       Release, Poll, Crash, Invalidate, Tick, vars

LEMMA InitAgeInv == Init => AgeInv
BY DEF Init, AgeInv, NoCall, Refreshing

LEMMA NextAgeInv == TypeInv /\ AgeInv /\ [Next]_vars => AgeInv'
<1> SUFFICES ASSUME TypeInv, AgeInv, [Next]_vars
             PROVE  AgeInv'
  OBVIOUS
<1>0. latency \in Nat /\ latency' = latency
  <2>1. latency \in Nat
    BY TokenAssumption DEF TypeInv, TypeOK
  <2>2. latency' = latency
    BY LatencyFixed
  <2> QED
    BY <2>1, <2>2
<1>1. ASSUME NEW c \in Callers, Get(c)
      PROVE  AgeInv'
  BY <1>0, <1>1 DEF Get, AgeInv, TypeInv, TypeOK, Call, Refreshing
<1>2. ASSUME NEW c \in Callers, Acquire(c)
      PROVE  AgeInv'
  BY <1>0, <1>2 DEF Acquire, AgeInv, TypeInv, TypeOK, Call, NoCall
<1>3. ASSUME NEW c \in Callers, Queue(c)
      PROVE  AgeInv'
  BY <1>0, <1>3 DEF Queue, AgeInv, TypeInv, TypeOK, Call, NoCall, Refreshing
<1>4. ASSUME NEW c \in Callers, Answered(c)
      PROVE  AgeInv'
  BY <1>0, <1>4 DEF Answered, AgeInv, TypeInv, TypeOK, Call, Refreshing
<1>5. ASSUME NEW c \in Callers, Refused(c) \/ AnswerLost(c) \/ Store(c)
      PROVE  AgeInv'
  BY <1>0, <1>5 DEF Refused, AnswerLost, Store, AgeInv, TypeInv, TypeOK, Call, Refreshing
<1>6. ASSUME NEW c \in Callers, Release(c) \/ Crash(c)
      PROVE  AgeInv'
  BY <1>0, <1>6 DEF Release, Crash, AgeInv, TypeInv, TypeOK, NoCall, Refreshing
<1>7. ASSUME NEW c \in Callers, Poll(c)
      PROVE  AgeInv'
  <2>1. call'[c].pc \notin Refreshing
    BY <1>7 DEF Poll, TypeInv, TypeOK, Call, NoCall, Refreshing
  <2> QED
    BY <1>0, <1>7, <2>1 DEF Poll, AgeInv, TypeInv, TypeOK
<1>8. CASE Tick
  <2>1. ASSUME NEW c \in Callers, call'[c].pc \in Refreshing
        PROVE  call'[c].age <= latency
    <3>1. call[c].pc \in Refreshing
      BY <1>8, <2>1 DEF Tick, TypeInv, TypeOK, Call
    <3>2. call[c].age < latency /\ call'[c].age = call[c].age + 1 /\ call[c].age \in Nat
      BY <1>8, <3>1 DEF Tick, TypeInv, TypeOK, Call
    <3> QED
      BY <1>0, <3>2
  <2> QED
    BY <1>0, <2>1 DEF AgeInv
<1>9. CASE Invalidate \/ UNCHANGED vars
  BY <1>9 DEF Invalidate, AgeInv, vars
<1> QED
  BY <1>1, <1>2, <1>3, <1>4, <1>5, <1>6, <1>7, <1>8, <1>9 DEF Next, Step

LEMMA AgeInvariant == Spec => []AgeInv
BY InitAgeInv, NextAgeInv, TypeInvariant, PTL DEF Spec

LEMMA InitHolderInv == Init => HolderInv
BY DEF Init, HolderInv, NoCall, Refreshing

LEMMA NextHolderInv == TypeInv /\ HolderInv /\ [Next]_vars => HolderInv'
<1> SUFFICES ASSUME TypeInv, HolderInv, [Next]_vars, Timely
             PROVE  \A d \in Callers : call'[d].pc \in Refreshing =>
                      lock'.owner = d /\ lock'.ttl + call'[d].age = LockTtl
  BY LatencyFixed DEF HolderInv, Timely
<1> DEFINE Holds(d) == call'[d].pc \in Refreshing =>
                         lock'.owner = d /\ lock'.ttl + call'[d].age = LockTtl
<1>0. /\ \A d \in Callers : call[d].pc \in Refreshing =>
           lock.owner = d /\ lock.ttl + call[d].age = LockTtl
      /\ call \in [Callers -> Call]
      /\ lock \in [owner: Callers \cup {NoCaller}, ttl: Nat]
      /\ lock.owner = NoCaller <=> lock.ttl = 0
  BY DEF HolderInv, TypeInv, TypeOK
<1>1. ASSUME NEW c \in Callers, Get(c) \/ Queue(c) \/ Poll(c) \/ Crash(c), NEW d \in Callers
      PROVE  Holds(d)
  <2>1. lock' = lock
    BY <1>1 DEF Get, Queue, Poll, Crash
  <2>2. CASE d = c
    <3>1. call'[d].pc \notin Refreshing
      <4>1. CASE Get(c)
        BY <1>0, <4>1, <2>2 DEF Get, Call, Refreshing
      <4>2. CASE Queue(c)
        <5>1. NoCall \in Call
          BY CallTypes
        <5>2. call'[c].pc = "wait"
          BY <1>0, <4>2, <5>1 DEF Queue, Call
        <5> QED
          BY <5>2, <2>2 DEF Refreshing
      <4>3. CASE Poll(c)
        BY <1>0, <4>3, <2>2 DEF Poll, Call, NoCall, Refreshing
      <4>4. CASE Crash(c)
        BY <1>0, <4>4, <2>2 DEF Crash, NoCall, Refreshing
      <4> QED
        BY <1>1, <4>1, <4>2, <4>3, <4>4
    <3> QED
      BY <3>1
  <2>3. CASE d # c
    <3>1. call'[d] = call[d]
      BY <1>0, <1>1, <2>3 DEF Get, Queue, Poll, Crash
    <3> QED
      BY <1>0, <2>1, <3>1
  <2> QED
    BY <2>2, <2>3
<1>2. ASSUME NEW c \in Callers, Acquire(c), NEW d \in Callers
      PROVE  Holds(d)
  <2>1. lock' = Locked(c) /\ lock.owner = NoCaller
    BY <1>2 DEF Acquire, LockFree
  <2>2. CASE d = c
    <3>1. call'[d].age = 0
      BY <1>0, <1>2, <2>2 DEF Acquire, NoCall
    <3> QED
      BY <2>1, <2>2, <3>1, TokenAssumption DEF Locked
  <2>3. CASE d # c
    <3>1. call'[d] = call[d]
      BY <1>0, <1>2, <2>3 DEF Acquire
    <3>2. call[d].pc \notin Refreshing
      BY <1>0, <2>1, TokenAssumption
    <3> QED
      BY <3>1, <3>2
  <2> QED
    BY <2>2, <2>3
<1>3. ASSUME NEW c \in Callers, Answered(c) \/ Refused(c) \/ AnswerLost(c) \/ Store(c),
             NEW d \in Callers
      PROVE  Holds(d)
  <2>1. lock' = lock
    BY <1>3 DEF Answered, Refused, AnswerLost, Store
  <2>2. call'[d].age = call[d].age
    BY <1>0, <1>3 DEF Answered, Refused, AnswerLost, Store, Call
  <2>3. call'[d].pc \in Refreshing => call[d].pc \in Refreshing
    BY <1>0, <1>3 DEF Answered, Refused, AnswerLost, Store, Call, Refreshing
  <2> QED
    BY <1>0, <2>1, <2>2, <2>3
<1>4. ASSUME NEW c \in Callers, Release(c), NEW d \in Callers
      PROVE  Holds(d)
  <2>1. CASE d = c
    BY <1>0, <1>4, <2>1 DEF Release, NoCall, Refreshing
  <2>2. CASE d # c
    <3>1. call'[d] = call[d]
      BY <1>0, <1>4, <2>2 DEF Release
    <3>2. lock.owner = d => lock' = lock
      BY <1>4, <2>2 DEF Release, Released
    <3> QED
      BY <1>0, <3>1, <3>2
  <2> QED
    BY <2>1, <2>2
<1>5. ASSUME Tick, NEW d \in Callers
      PROVE  Holds(d)
  <2> SUFFICES ASSUME call'[d].pc \in Refreshing
               PROVE  lock'.owner = d /\ lock'.ttl + call'[d].age = LockTtl
    OBVIOUS
  <2>1. call[d].pc \in Refreshing
    BY <1>0, <1>5 DEF Tick, Call
  <2>2. call[d].age < latency /\ call[d].age \in Nat /\ call'[d].age = call[d].age + 1
    BY <1>0, <1>5, <2>1 DEF Tick, Call
  <2>3. lock.owner = d /\ lock.ttl + call[d].age = LockTtl /\ lock.ttl \in Nat
    BY <1>0, <2>1
  <2>4. latency \in Nat /\ latency < LockTtl /\ LockTtl \in Nat
    BY TokenAssumption DEF TypeInv, TypeOK, Timely
  <2>5. lock.ttl > 1
    BY <2>2, <2>3, <2>4
  <2>6. lock'.owner = lock.owner /\ lock'.ttl = lock.ttl - 1
    BY <1>0, <1>5, <2>5 DEF Tick, Less
  <2> QED
    BY <2>2, <2>3, <2>5, <2>6
<1>6. ASSUME Invalidate \/ UNCHANGED vars, NEW d \in Callers
      PROVE  Holds(d)
  BY <1>0, <1>6 DEF Invalidate, vars
<1> QED
  BY <1>1, <1>2, <1>3, <1>4, <1>5, <1>6 DEF Next, Step

LEMMA HolderInvariant == Spec => []HolderInv
BY InitHolderInv, NextHolderInv, TypeInvariant, PTL DEF Spec

\* Two refreshers would both own the lock.
LEMMA HolderIsAlone == HolderInv => OneRefresher
BY DEF HolderInv, OneRefresher

\* While no refresh takes longer than its lock lives, one caller at a time asks
\* WeChat for a token, whoever crashes, waits or gives up meanwhile.
THEOREM OneRefresherAtATime == Spec => []OneRefresher
BY HolderInvariant, HolderIsAlone, PTL

-----------------------------------------------------------------------------
(* Never an older token *)

\* What the steps have in common that give a caller no token: nobody else
\* changes, and the token of nobody.
LEMMA OthersKeepTheirs ==
  ASSUME TypeInv, NEW c \in Callers,
         Get(c) \/ Acquire(c) \/ Queue(c) \/ Refused(c) \/ Release(c) \/ Poll(c)
  PROVE  /\ cache' = cache /\ wx' = wx
         /\ \A d \in Callers :
              (call'[d].pc = "issued" <=> call[d].pc = "issued")
              /\ (call[d].pc = "issued" => call'[d] = call[d])
<1>0. call \in [Callers -> Call]
  BY DEF TypeInv, TypeOK
<1>1. cache' = cache /\ wx' = wx
  BY DEF Get, Acquire, Queue, Refused, Release, Poll
<1>2. \A d \in Callers \ {c} : call'[d] = call[d]
  BY <1>0 DEF Get, Acquire, Queue, Refused, Release, Poll
<1>3. call[c].pc # "issued"
  BY DEF Get, Acquire, Queue, Refused, Release, Poll
<1>4. call'[c].pc # "issued"
  <2>1. CASE Get(c) \/ Refused(c)
    BY <1>0, <2>1 DEF Get, Refused, Call
  <2>2. CASE Acquire(c) \/ Release(c)
    BY <1>0, <2>2 DEF Acquire, Release, NoCall
  <2>3. CASE Queue(c)
    <3>1. NoCall \in Call
      BY CallTypes
    <3> QED
      BY <1>0, <2>3, <3>1 DEF Queue, Call
  <2>4. CASE Poll(c)
    BY <1>0, <2>4 DEF Poll, Call, NoCall
  <2> QED
    BY <2>1, <2>2, <2>3, <2>4
<1> QED
  BY <1>1, <1>2, <1>3, <1>4

LEMMA AnswerGives ==
  ASSUME TypeInv, NEW c \in Callers, Answered(c)
  PROVE  /\ cache' = cache
         /\ wx'.latest = wx.latest + 1
         /\ call'[c].pc = "issued" /\ call'[c].tok = wx'.latest
         /\ wx'.life = call'[c].ttl + Margin(wx'.expires)
         /\ Margin(wx'.expires) \in Int
         /\ call'[c].ttl \in Nat
         /\ call'[c].age = call[c].age /\ call[c].age \in Nat
         /\ \A d \in Callers \ {c} : call'[d] = call[d]
<1>0. call \in [Callers -> Call] /\ call[c] \in Call
  BY DEF TypeInv, TypeOK
<1>1. PICK life \in Lifetimes :
        /\ wx' = [latest |-> wx.latest + 1, expires |-> life, life |-> life, lost |-> FALSE]
        /\ call' = [call EXCEPT ![c].pc = "issued", ![c].tok = wx.latest + 1,
                                ![c].ttl = CachedFor(life)]
  BY DEF Answered
<1>2. /\ CachedFor(life) \in Nat /\ Margin(life) \in Int
      /\ CachedFor(life) + Margin(life) = life
  BY CachedForPositive
<1> QED
  BY <1>0, <1>1, <1>2 DEF Answered, Call

\* An answer that is lost, or whose process dies, leaves the other answers.
LEMMA LossTakesOne ==
  ASSUME TypeInv, NEW c \in Callers, AnswerLost(c) \/ Crash(c)
  PROVE  /\ cache' = cache
         /\ wx'.latest = wx.latest /\ wx'.expires = wx.expires /\ wx'.life = wx.life
         /\ wx'.lost = (wx.lost \/ (call[c].pc = "issued" /\ call[c].tok = wx.latest))
         /\ call'[c].pc # "issued"
         /\ \A d \in Callers \ {c} : call'[d] = call[d]
<1>0. /\ call \in [Callers -> Call]
      /\ wx \in [latest: Nat, expires: Nat, life: Nat, lost: BOOLEAN]
  BY DEF TypeInv, TypeOK
<1>1. /\ cache' = cache
      /\ wx'.latest = wx.latest /\ wx'.expires = wx.expires /\ wx'.life = wx.life
  BY <1>0 DEF AnswerLost, Crash
<1>2. wx'.lost = (wx.lost \/ (call[c].pc = "issued" /\ call[c].tok = wx.latest))
  BY <1>0 DEF AnswerLost, Crash
<1>3. call'[c].pc # "issued"
  BY <1>0 DEF AnswerLost, Crash, Call, NoCall
<1>4. \A d \in Callers \ {c} : call'[d] = call[d]
  BY <1>0 DEF AnswerLost, Crash
<1> QED
  BY <1>1, <1>2, <1>3, <1>4

LEMMA StoreCaches ==
  ASSUME TypeInv, NEW c \in Callers, Store(c)
  PROVE  /\ wx' = wx
         /\ cache'.tok = call[c].tok /\ cache'.ttl = call[c].ttl
         /\ call[c].pc = "issued" /\ call'[c].pc # "issued"
         /\ \A d \in Callers \ {c} : call'[d] = call[d]
<1>0. call \in [Callers -> Call]
  BY DEF TypeInv, TypeOK
<1> QED
  BY <1>0 DEF Store, Call

\* A second takes no token from anybody, and one second from what is cached
\* and from what WeChat has issued.
LEMMA TickTakesASecond ==
  ASSUME TypeInv, Tick
  PROVE  /\ wx'.latest = wx.latest /\ wx'.lost = wx.lost
         /\ wx'.expires = wx.expires /\ wx'.life = Less(wx.life)
         /\ cache'.tok \in {NoToken, cache.tok}
         /\ cache'.tok # NoToken => cache.tok # NoToken /\ cache'.ttl = cache.ttl - 1
         /\ \A d \in Callers :
              /\ call'[d].pc = call[d].pc
              /\ call'[d].tok = call[d].tok
              /\ call'[d].ttl = call[d].ttl
              /\ call[d].pc = "issued" => call'[d].age = call[d].age + 1
<1>0. /\ call \in [Callers -> Call]
      /\ wx \in [latest: Nat, expires: Nat, life: Nat, lost: BOOLEAN]
      /\ cache \in [tok: Nat, ttl: Nat] /\ (cache.tok = NoToken <=> cache.ttl = 0)
  BY DEF TypeInv, TypeOK
<1>1. /\ wx'.latest = wx.latest /\ wx'.lost = wx.lost
      /\ wx'.expires = wx.expires /\ wx'.life = Less(wx.life)
  BY <1>0 DEF Tick
<1>2. /\ cache'.tok \in {NoToken, cache.tok}
      /\ cache'.tok # NoToken => cache.tok # NoToken /\ cache'.ttl = cache.ttl - 1
  BY <1>0 DEF Tick, NoCache, NoToken
<1>3. ASSUME NEW d \in Callers
      PROVE  /\ call'[d].pc = call[d].pc
             /\ call'[d].tok = call[d].tok
             /\ call'[d].ttl = call[d].ttl
             /\ call[d].pc = "issued" => call'[d].age = call[d].age + 1
  BY <1>0 DEF Tick, Call, Refreshing
<1> QED
  BY <1>1, <1>2, <1>3

LEMMA InitOrderInv == Init => OrderInv
BY DEF Init, OrderInv, NoCache, NoToken, NoCall

LEMMA NextOrderInv == TypeInv /\ OrderInv /\ [Next]_vars => OrderInv'
<1> SUFFICES ASSUME TypeInv, OrderInv, [Next]_vars
             PROVE  OrderInv'
  OBVIOUS
<1>0. /\ cache.tok \in Nat /\ wx.latest \in Nat
      /\ \A d \in Callers : call[d].tok \in Nat
  BY DEF TypeInv, TypeOK, Call
<1>1. ASSUME NEW c \in Callers,
             Get(c) \/ Acquire(c) \/ Queue(c) \/ Refused(c) \/ Release(c) \/ Poll(c)
      PROVE  OrderInv'
  BY <1>1, OthersKeepTheirs DEF OrderInv
<1>2. ASSUME NEW c \in Callers, Answered(c)
      PROVE  OrderInv'
  BY <1>0, <1>2, AnswerGives DEF OrderInv
<1>3. ASSUME NEW c \in Callers, AnswerLost(c) \/ Crash(c)
      PROVE  OrderInv'
  BY <1>3, LossTakesOne DEF OrderInv
<1>4. ASSUME NEW c \in Callers, Store(c)
      PROVE  OrderInv'
  BY <1>4, StoreCaches DEF OrderInv
<1>5. CASE Tick
  BY <1>0, <1>5, TickTakesASecond DEF OrderInv, NoToken
<1>6. CASE Invalidate
  BY <1>0, <1>6 DEF Invalidate, OrderInv, NoCache, NoToken
<1>7. CASE UNCHANGED vars
  BY <1>7 DEF OrderInv, vars
<1> QED
  BY <1>1, <1>2, <1>3, <1>4, <1>5, <1>6, <1>7 DEF Next, Step

LEMMA OrderInvariant == Spec => []OrderInv
BY InitOrderInv, NextOrderInv, TypeInvariant, PTL DEF Spec

LEMMA InitFreshInv == Init => FreshInv
BY DEF Init, FreshInv, NoCache, NoToken, NoCall

LEMMA NextFreshInv == TypeInv /\ HolderInv /\ FreshInv /\ [Next]_vars => FreshInv'
<1> SUFFICES ASSUME TypeInv, HolderInv, FreshInv, [Next]_vars
             PROVE  FreshInv'
  OBVIOUS
<1>0. Timely' <=> Timely
  BY LatencyFixed DEF Timely
<1>1. ASSUME NEW c \in Callers,
             Get(c) \/ Acquire(c) \/ Queue(c) \/ Refused(c) \/ Release(c) \/ Poll(c)
      PROVE  FreshInv'
  BY <1>0, <1>1, OthersKeepTheirs DEF FreshInv
\* A timely refresher is alone: no older answer is in hand.
<1>2. ASSUME NEW c \in Callers, Answered(c)
      PROVE  FreshInv'
  <2> SUFFICES ASSUME Timely
               PROVE  \A d \in Callers : call'[d].pc = "issued" => call'[d].tok = wx'.latest
    BY <1>0, <1>2, AnswerGives DEF FreshInv
  <2>1. ASSUME NEW d \in Callers, d # c
        PROVE  call'[d].pc # "issued"
    <3>1. call[c].pc \in Refreshing
      BY <1>2 DEF Answered, Refreshing
    <3>2. call[d].pc \notin Refreshing
      BY <2>1, <3>1, HolderIsAlone DEF OneRefresher
    <3>3. call'[d] = call[d]
      BY <1>2, <2>1, AnswerGives
    <3> QED
      BY <3>2, <3>3 DEF Refreshing
  <2> QED
    BY <1>2, <2>1, AnswerGives
\* Who loses the newest answer makes wx.lost true; another loses nothing.
<1>3. ASSUME NEW c \in Callers, AnswerLost(c) \/ Crash(c)
      PROVE  FreshInv'
  <2> SUFFICES ASSUME Timely, ~wx'.lost
               PROVE  /\ \A d \in Callers : call'[d].pc = "issued" => call'[d].tok = wx'.latest
                      /\ (\A d \in Callers : call'[d].pc # "issued")
                           => cache'.tok \in {NoToken, wx'.latest}
    BY <1>0 DEF FreshInv
  <2>1. ~wx.lost /\ ~(call[c].pc = "issued" /\ call[c].tok = wx.latest)
    BY <1>3, LossTakesOne
  <2>2. call[c].pc # "issued"
    BY <2>1 DEF FreshInv
  <2> QED
    BY <1>3, <2>1, <2>2, LossTakesOne DEF FreshInv
<1>4. ASSUME NEW c \in Callers, Store(c)
      PROVE  FreshInv'
  BY <1>0, <1>4, StoreCaches DEF FreshInv
<1>5. CASE Tick
  BY <1>0, <1>5, TickTakesASecond DEF FreshInv
<1>6. CASE Invalidate
  BY <1>0, <1>6 DEF Invalidate, FreshInv, NoCache
<1>7. CASE UNCHANGED vars
  BY <1>0, <1>7 DEF FreshInv, vars
<1> QED
  BY <1>1, <1>2, <1>3, <1>4, <1>5, <1>6, <1>7 DEF Next, Step

\* While refreshes are timely and no answer is lost, the token in the cache is
\* the last one issued as soon as nobody is refreshing: a token is never
\* written over a newer one, whatever is invalidated or expires meanwhile.
THEOREM CachedTokenIsLatest == Spec => []CachedIsLatest
<1>1. Spec => []FreshInv
  BY InitFreshInv, NextFreshInv, TypeInvariant, HolderInvariant, PTL DEF Spec
<1>2. FreshInv => CachedIsLatest
  BY DEF FreshInv, CachedIsLatest
<1> QED
  BY <1>1, <1>2, PTL

-----------------------------------------------------------------------------
(* The margin of a cached token *)

LEMMA InitMarginInv == Init => MarginInv
BY DEF Init, MarginInv, CachedHasMargin, NoCache, NoToken, NoCall

LEMMA NextMarginInv ==
  TypeInv /\ AgeInv /\ OrderInv /\ MarginInv /\ [Next]_vars => MarginInv'
<1> SUFFICES ASSUME TypeInv, AgeInv, OrderInv, MarginInv, [Next]_vars
             PROVE  MarginInv'
  OBVIOUS
<1>0. /\ latency' = latency /\ latency \in Nat /\ Margin(wx.expires) \in Int
      /\ cache.tok \in Nat /\ cache.ttl \in Nat
      /\ wx.latest \in Nat /\ wx.life \in Nat
      /\ \A d \in Callers : call[d].tok \in Nat /\ call[d].ttl \in Nat /\ call[d].age \in Nat
  BY LatencyFixed, TokenAssumption DEF TypeInv, TypeOK, Call, Margin
<1>1. ASSUME NEW c \in Callers,
             Get(c) \/ Acquire(c) \/ Queue(c) \/ Refused(c) \/ Release(c) \/ Poll(c)
      PROVE  MarginInv'
  BY <1>0, <1>1, OthersKeepTheirs DEF MarginInv, CachedHasMargin
\* The new token is younger than anything cached or in hand.
<1>2. ASSUME NEW c \in Callers, Answered(c)
      PROVE  MarginInv'
  <2>1. cache'.tok # wx'.latest
    BY <1>0, <1>2, AnswerGives DEF OrderInv
  <2>2. ASSUME NEW d \in Callers, call'[d].pc = "issued", call'[d].tok = wx'.latest
        PROVE  wx'.life + call'[d].age >= call'[d].ttl + Margin(wx'.expires)
    <3>1. CASE d = c
      BY <1>0, <1>2, <3>1, AnswerGives
    <3>2. CASE d # c
      <4>1. call'[d] = call[d] /\ wx'.latest = wx.latest + 1
        BY <1>2, <3>2, AnswerGives
      <4> QED
        BY <1>0, <2>2, <4>1 DEF OrderInv
    <3> QED
      BY <3>1, <3>2
  <2> QED
    BY <2>1, <2>2 DEF MarginInv, CachedHasMargin
<1>3. ASSUME NEW c \in Callers, AnswerLost(c) \/ Crash(c)
      PROVE  MarginInv'
  BY <1>0, <1>3, LossTakesOne DEF MarginInv, CachedHasMargin
\* The refresh has taken no longer than the latency.
<1>4. ASSUME NEW c \in Callers, Store(c)
      PROVE  MarginInv'
  <2>1. call[c].age <= latency
    BY <1>4, StoreCaches DEF AgeInv, Refreshing
  <2>2. CachedHasMargin'
    <3> SUFFICES ASSUME cache'.tok = wx'.latest
                 PROVE  wx'.life + latency' >= cache'.ttl + Margin(wx'.expires)
      BY DEF CachedHasMargin
    <3>1. wx.life + call[c].age >= call[c].ttl + Margin(wx.expires)
      BY <1>4, StoreCaches DEF MarginInv
    <3>2. wx' = wx /\ cache'.ttl = call[c].ttl
      BY <1>4, StoreCaches
    <3> QED
      BY <1>0, <2>1, <3>1, <3>2
  <2> QED
    BY <1>4, <2>2, StoreCaches DEF MarginInv
\* A second goes from the life of the token and from its time in the cache.
<1>5. CASE Tick
  <2>1. /\ wx'.latest = wx.latest /\ wx'.expires = wx.expires
        /\ wx'.life \in Nat /\ wx'.life + 1 >= wx.life
    BY <1>0, <1>5, TickTakesASecond DEF Less
  <2>2. CachedHasMargin'
    <3> SUFFICES ASSUME cache'.tok # NoToken, cache'.tok = wx'.latest
                 PROVE  wx'.life + latency' >= cache'.ttl + Margin(wx'.expires)
      BY DEF CachedHasMargin
    <3>1. cache'.tok = cache.tok /\ cache.tok # NoToken /\ cache'.ttl = cache.ttl - 1
      BY <1>5, TickTakesASecond
    <3>2. wx.life + latency >= cache.ttl + Margin(wx.expires)
      BY <2>1, <3>1 DEF MarginInv, CachedHasMargin
    <3> QED
      BY <1>0, <2>1, <3>1, <3>2
  <2>3. ASSUME NEW d \in Callers, call'[d].pc = "issued", call'[d].tok = wx'.latest
        PROVE  wx'.life + call'[d].age >= call'[d].ttl + Margin(wx'.expires)
    <3>1. /\ call[d].pc = "issued" /\ call[d].tok = wx.latest
          /\ call'[d].ttl = call[d].ttl /\ call'[d].age = call[d].age + 1
      BY <1>5, <2>1, <2>3, TickTakesASecond
    <3>2. wx.life + call[d].age >= call[d].ttl + Margin(wx.expires)
      BY <3>1 DEF MarginInv
    <3> QED
      BY <1>0, <2>1, <3>1, <3>2
  <2> QED
    BY <2>2, <2>3 DEF MarginInv
<1>6. CASE Invalidate
  BY <1>0, <1>6 DEF Invalidate, MarginInv, CachedHasMargin, NoCache
<1>7. CASE UNCHANGED vars
  BY <1>7 DEF MarginInv, CachedHasMargin, vars
<1> QED
  BY <1>1, <1>2, <1>3, <1>4, <1>5, <1>6, <1>7 DEF Next, Step

\* The newest token lives longer than it stays in the cache by the margin of its
\* lifetime, SafeTtl unless that is short, less what its refresh took, timely or
\* not: a slow answer costs margin, and costs no more than its own slowness.  A
\* token shorter than MinTtl has a negative margin: it is cached beyond its life.
THEOREM MarginKept == Spec => []CachedHasMargin
<1>1. Spec => []MarginInv
  BY InitMarginInv, NextMarginInv, TypeInvariant, AgeInvariant, OrderInvariant, PTL DEF Spec
<1>2. MarginInv => CachedHasMargin
  BY DEF MarginInv
<1> QED
  BY <1>1, <1>2, PTL

-----------------------------------------------------------------------------
(* Who ends a lock *)

\* A lock goes by its own holder's release or by its time, never by the release
\* of a refresher that has outlived its own lock and finds another's.
THEOREM OwnLockOnly == Spec => ReleasesOwnLock
<1>1. ASSUME TypeInv, [Next]_vars, NEW c \in Callers, lock.owner = c, lock' = NoLock
      PROVE  lock.ttl = 1 \/ call[c].pc = "release"
  <2>0. lock.owner # NoCaller /\ NoLock.owner = NoCaller
    BY <1>1, TokenAssumption DEF NoLock
  <2>1. lock' # lock
    BY <1>1, <2>0
  <2>2. ASSUME NEW d \in Callers, Get(d) \/ Step(d) \/ Crash(d)
        PROVE  call[c].pc = "release"
    <3>1. ~Acquire(d)
      BY <2>0, <1>1, TokenAssumption DEF Acquire, LockFree
    <3>2. Release(d)
      BY <2>1, <2>2, <3>1
      DEF Step, Get, Queue, Answered, Refused, AnswerLost, Store, Poll, Crash
    <3>3. lock.owner = d
      BY <2>1, <3>2 DEF Release, Released
    <3> QED
      BY <1>1, <3>2, <3>3 DEF Release
  <2>3. CASE Tick
    <3>1. CASE lock.ttl = 1
      BY <3>1
    <3>2. CASE lock.ttl # 1
      <4>1. lock' = [lock EXCEPT !.ttl = Less(@)]
        BY <2>3, <3>2 DEF Tick
      <4>2. lock'.owner = lock.owner
        BY <1>1, <4>1 DEF TypeInv, TypeOK
      <4> QED
        BY <1>1, <2>0, <4>2
    <3> QED
      BY <3>1, <3>2
  <2>4. CASE Invalidate \/ UNCHANGED vars
    BY <2>1, <2>4 DEF Invalidate, vars
  <2> QED
    BY <1>1, <2>2, <2>3, <2>4 DEF Next
<1>2. TypeInv /\ [Next]_vars =>
        [\A c \in Callers :
           lock.owner = c /\ lock' = NoLock => lock.ttl = 1 \/ call[c].pc = "release"]_vars
  BY <1>1
<1> QED
  BY <1>2, TypeInvariant, PTL DEF Spec, ReleasesOwnLock
=============================================================================
