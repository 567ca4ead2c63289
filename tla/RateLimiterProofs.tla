-------------------------- MODULE RateLimiterProofs --------------------------
(***************************************************************************)
(* Proofs about RateLimiter, for any number of addresses and requests and  *)
(* for every limit, window and delay that LimiterAssumption allows: the    *)
(* inductive invariant, and with it that evictions are invisible, that a   *)
(* Retry-After is honoured and that bursts of at most two windows meet.    *)
(***************************************************************************)
EXTENDS RateLimiter, TLAPS

LimiterOK == TypeOK /\ LimiterInv

-----------------------------------------------------------------------------
(* The locked section *)

\* Rounding up never falls short.
LEMMA CeilDivCovers ==
    ASSUME NEW n \in Int, NEW d \in Nat \ {0}
    PROVE  CeilDiv(n, d) \in Int /\ CeilDiv(n, d) * d >= n
<1> DEFINE q == (n + d - 1) \div d
<1>1. q \in Int /\ n + d - 1 < d * q + d
  BY SMTT(30)
<1>2. d * q = q * d
  BY <1>1, SMTT(30)
<1> QED
  BY <1>1, <1>2 DEF CeilDiv

\* The Retry-After of a refusal reaches to the end of the window.
LEMMA RetryAfterCovers ==
    ASSUME LimiterOK, NEW b \in Bucket, NEW now \in Time
    PROVE  /\ RetryAfter(b, now) \in Nat
           /\ RetryAfter(b, now) * Second \in Nat
           /\ now + RetryAfter(b, now) * Second >= b.windowStart + Window
<1> DEFINE n == b.windowStart + Window - now
           secs == CeilDiv(n, Second)
<1>1. n \in Int /\ Second \in Nat \ {0} /\ now \in Nat /\ b.windowStart \in Nat
  BY LimiterAssumption DEF Bucket, Time
<1>2. secs \in Int /\ secs * Second >= n
  BY <1>1, CeilDivCovers
<1> HIDE DEF n, secs
<1>3. RetryAfter(b, now) = IF secs < 1 THEN 1 ELSE secs
  BY DEF RetryAfter, secs, n
<1>4. CASE secs < 1
  <2>1. RetryAfter(b, now) = 1
    BY <1>3, <1>4
  <2>2. secs * Second <= 1 * Second
    BY <1>1, <1>2, <1>4, SMTT(30)
  <2>3. n <= Second
    BY <1>1, <1>2, <2>2, SMTT(30)
  <2> QED
    BY <1>1, <2>1, <2>3, LimiterAssumption DEF n
<1>5. CASE ~(secs < 1)
  <2>1. RetryAfter(b, now) = secs /\ secs \in Nat
    BY <1>2, <1>3, <1>5
  <2>2. secs * Second \in Nat
    BY <1>1, <2>1, SMTT(30)
  <2> QED
    BY <1>1, <1>2, <2>1, <2>2, LimiterAssumption DEF n
<1> QED
  BY <1>4, <1>5

\* What a request finds when it has the mutex: its time is at most MaxDelay
\* old, and it starts a fresh window just when the latest window of its
\* address is over, evicted or not.
LEMMA LockedSection ==
    ASSUME LimiterOK, NEW r \in Requests, waiting[r] # None,
           NEW a, NEW now, NEW b,
           a = waiting[r].ip, now = waiting[r].now, b = Current(a, now)
    PROVE  /\ a \in Addresses /\ now \in Time /\ now <= clock /\ clock <= now + MaxDelay
           /\ b \in Bucket /\ b.windowStart <= clock
           /\ Fresh(a, now) =>
                /\ b = [tokens |-> Limit, windowStart |-> now, lastSeen |-> now]
                /\ a \in DOMAIN ledger => ledger[a].start + Window <= now
           /\ ~Fresh(a, now) =>
                /\ a \in DOMAIN buckets /\ b = buckets[a]
                /\ now < b.windowStart + Window
                /\ a \in DOMAIN ledger
                /\ ledger[a] = [start |-> b.windowStart, used |-> Limit - b.tokens]
<1>1. a \in Addresses /\ now \in Time /\ now <= clock /\ clock <= now + MaxDelay
  BY DEF LimiterOK, TypeOK, LimiterInv
<1>2. CASE Fresh(a, now)
  <2>1. b = [tokens |-> Limit, windowStart |-> now, lastSeen |-> now]
    BY <1>2 DEF Current
  <2>2. b \in Bucket /\ b.windowStart <= clock
    BY <1>1, <2>1, LimiterAssumption DEF Bucket, Time
  <2>3. ASSUME a \in DOMAIN ledger PROVE ledger[a].start + Window <= now
    <3>1. ledger[a].start \in Time /\ clock \in Time
      BY <2>3 DEF LimiterOK, TypeOK
    <3>2. CASE a \in DOMAIN buckets
      <4>0. ledger[a] = [start |-> buckets[a].windowStart, used |-> Limit - buckets[a].tokens]
        BY <3>2 DEF LimiterOK, LimiterInv
      <4>1. ledger[a].start = buckets[a].windowStart
        BY <4>0
      <4>2. now - ledger[a].start >= Window
        BY <1>2, <3>2, <4>1 DEF Fresh
      <4> QED
        BY <1>1, <3>1, <4>2, LimiterAssumption DEF Time
    <3>3. CASE a \notin DOMAIN buckets
      <4>1. ledger[a].start + 2 * Window < clock + MaxDelay
        BY <2>3, <3>3 DEF LimiterOK, LimiterInv
      <4> QED
        BY <1>1, <3>1, <4>1, LimiterAssumption DEF Time
    <3> QED
      BY <3>2, <3>3
  <2> QED
    BY <1>1, <1>2, <2>1, <2>2, <2>3
<1>3. CASE ~Fresh(a, now)
  <2>1. a \in DOMAIN buckets /\ b = buckets[a] /\ ~(now - b.windowStart >= Window)
    BY <1>3 DEF Fresh, Current
  <2>2. b \in Bucket
    BY <2>1 DEF LimiterOK, TypeOK
  <2>3. now < b.windowStart + Window
    BY <1>1, <2>1, <2>2, LimiterAssumption DEF Bucket, Time
  <2> QED
    BY <1>1, <1>3, <2>1, <2>2, <2>3 DEF LimiterOK, LimiterInv
<1> QED
  BY <1>2, <1>3

-----------------------------------------------------------------------------
(* The actions *)

\* Pass: a token is taken from the bucket, fresh or not.
LEMMA PassKeeps ==
    ASSUME LimiterOK, NEW r \in Requests, Pass(r)
    PROVE  LimiterOK'
<1> DEFINE a == waiting[r].ip
           now == waiting[r].now
           b == Current(a, now)
           c == [tokens |-> b.tokens - 1, windowStart |-> b.windowStart, lastSeen |-> now]
           w == [start |-> b.windowStart, used |-> Limit - b.tokens + 1]
           p == [last |-> clock, before |-> PassedBefore(a, now)]
<1>1. /\ waiting[r] # None /\ b.tokens > 0
      /\ buckets' = Put(buckets, a, c)
      /\ ledger' = Put(ledger, a, w)
      /\ passed' = Put(passed, a, p)
      /\ waiting' = [waiting EXCEPT ![r] = None]
      /\ reply' = [reply EXCEPT ![r] = "next"]
      /\ UNCHANGED <<clock, ticker, cancelled, gc, promise>>
  BY DEF Pass
<1>2. /\ a \in Addresses /\ now \in Time /\ now <= clock /\ clock <= now + MaxDelay
      /\ b \in Bucket /\ b.windowStart <= clock
      /\ Fresh(a, now) =>
           /\ b = [tokens |-> Limit, windowStart |-> now, lastSeen |-> now]
           /\ a \in DOMAIN ledger => ledger[a].start + Window <= now
      /\ ~Fresh(a, now) =>
           /\ a \in DOMAIN buckets /\ b = buckets[a]
           /\ now < b.windowStart + Window
           /\ a \in DOMAIN ledger
           /\ ledger[a] = [start |-> b.windowStart, used |-> Limit - b.tokens]
  BY <1>1, LockedSection
<1> HIDE DEF a, now, b
<1>3. clock \in Time /\ clock \in Nat /\ b.windowStart \in Nat /\ now \in Nat /\ b.tokens \in 1 .. Limit
  BY <1>1, <1>2, LimiterAssumption DEF LimiterOK, TypeOK, Bucket, Time
<1>4. c \in Bucket /\ c.windowStart = b.windowStart /\ c.lastSeen = now /\ c.tokens = b.tokens - 1
  BY <1>2, <1>3, LimiterAssumption DEF Bucket, Time
<1>5. w \in [start : Time, used : 1 .. Limit] /\ w.start = b.windowStart /\ w.used = Limit - c.tokens
  BY <1>2, <1>3, <1>4, LimiterAssumption DEF Bucket
<1>6. /\ p.last = clock
      /\ p.before \in Time \cup {None}
      /\ p.before # None => p.before < b.windowStart + MaxDelay
  <2>1. CASE a \notin DOMAIN ledger
    BY <2>1 DEF PassedBefore
  <2>2. CASE a \in DOMAIN ledger
    <3>1. /\ passed[a].last \in Time /\ passed[a].before \in Time \cup {None}
          /\ ledger[a].start \in Time
      BY <2>2 DEF LimiterOK, TypeOK
    <3>2. /\ passed[a].last < ledger[a].start + Window + MaxDelay
          /\ passed[a].before # None => passed[a].before < ledger[a].start + MaxDelay
      BY <2>2 DEF LimiterOK, LimiterInv
    <3>3. CASE Fresh(a, now)
      <4>1. p.before = passed[a].last
        BY <2>2, <3>3 DEF PassedBefore
      <4>2. b.windowStart = now /\ ledger[a].start + Window <= now
        BY <1>2, <2>2, <3>3
      <4> QED
        BY <1>3, <3>1, <3>2, <4>1, <4>2, LimiterAssumption DEF Time
    <3>4. CASE ~Fresh(a, now)
      <4>1. p.before = passed[a].before
        BY <2>2, <3>4 DEF PassedBefore
      <4>2. b.windowStart = ledger[a].start
        BY <1>2, <3>4
      <4> QED
        BY <3>1, <3>2, <4>1, <4>2
    <3> QED
      BY <3>3, <3>4
  <2> QED
    BY <2>1, <2>2
<1>7. clock < b.windowStart + Window + MaxDelay
  <2>1. now < b.windowStart + Window
    BY <1>2, <1>3, LimiterAssumption
  <2> QED
    BY <1>2, <1>3, <2>1, LimiterAssumption
<1>8. b.windowStart <= now + MaxDelay
  BY <1>2, <1>3, LimiterAssumption
<1> HIDE DEF c, w
<1>. p \in [last : Time, before : Time \cup {None}]
  BY <1>3, <1>6
<1> HIDE DEF p
<1>9. /\ DOMAIN buckets' = DOMAIN buckets \cup {a} /\ buckets'[a] = c
      /\ \A x \in DOMAIN buckets : x # a => buckets'[x] = buckets[x]
      /\ DOMAIN ledger' = DOMAIN ledger \cup {a} /\ ledger'[a] = w
      /\ \A x \in DOMAIN ledger : x # a => ledger'[x] = ledger[x]
      /\ DOMAIN passed' = DOMAIN passed \cup {a} /\ passed'[a] = p
      /\ \A x \in DOMAIN passed : x # a => passed'[x] = passed[x]
  <2>1. /\ DOMAIN buckets' = DOMAIN buckets \cup {a} /\ buckets'[a] = c
        /\ \A x \in DOMAIN buckets : x # a => buckets'[x] = buckets[x]
    BY <1>1 DEF Put
  <2>2. /\ DOMAIN ledger' = DOMAIN ledger \cup {a} /\ ledger'[a] = w
        /\ \A x \in DOMAIN ledger : x # a => ledger'[x] = ledger[x]
    BY <1>1 DEF Put
  <2>3. /\ DOMAIN passed' = DOMAIN passed \cup {a} /\ passed'[a] = p
        /\ \A x \in DOMAIN passed : x # a => passed'[x] = passed[x]
    BY <1>1 DEF Put
  <2> QED
    BY <2>1, <2>2, <2>3
<1>10. TypeOK'
  BY <1>1, <1>2, <1>4, <1>5, <1>9 DEF LimiterOK, TypeOK
<1>11. LimiterInv'
  <2>1. \A s \in Requests : waiting'[s] # None => waiting[s] # None /\ waiting'[s] = waiting[s]
    BY <1>1 DEF LimiterOK, TypeOK
  <2>2. \A x \in DOMAIN buckets' :
          /\ x \in DOMAIN ledger'
          /\ ledger'[x] = [start |-> buckets'[x].windowStart, used |-> Limit - buckets'[x].tokens]
          /\ buckets'[x].windowStart <= buckets'[x].lastSeen + MaxDelay
          /\ buckets'[x].windowStart <= clock'
    <3> TAKE x \in DOMAIN buckets'
    <3>1. CASE x = a
      <4>1. w = [start |-> c.windowStart, used |-> Limit - c.tokens]
        BY <1>4, <1>5
      <4> QED
        BY <1>1, <1>2, <1>4, <1>8, <1>9, <3>1, <4>1
    <3>2. CASE x # a
      BY <1>1, <1>9, <3>2 DEF LimiterOK, LimiterInv
    <3> QED
      BY <3>1, <3>2
  <2>3. \A x \in DOMAIN ledger' \ DOMAIN buckets' : ledger'[x].start + 2 * Window < clock' + MaxDelay
    BY <1>1, <1>9 DEF LimiterOK, LimiterInv
  <2>4. \A x \in DOMAIN ledger' :
          /\ passed'[x].last < ledger'[x].start + Window + MaxDelay
          /\ passed'[x].before # None => passed'[x].before < ledger'[x].start + MaxDelay
    <3> TAKE x \in DOMAIN ledger'
    <3>1. CASE x = a
      BY <1>5, <1>6, <1>7, <1>9, <3>1
    <3>2. CASE x # a
      BY <1>9, <3>2 DEF LimiterOK, LimiterInv, TypeOK
    <3> QED
      BY <3>1, <3>2
  <2> QED
    BY <1>1, <2>1, <2>2, <2>3, <2>4 DEF LimiterOK, LimiterInv
<1> QED
  BY <1>10, <1>11 DEF LimiterOK

\* TooMany: there is no token in the bucket, which is therefore not fresh, and
\* the bucket stays as it is.
LEMMA TooManyFacts ==
    ASSUME LimiterOK, NEW r \in Requests, TooMany(r)
    PROVE  /\ ~Fresh(waiting[r].ip, waiting[r].now)
           /\ waiting[r].ip \in DOMAIN buckets
           /\ buckets[waiting[r].ip].tokens = 0
           /\ DOMAIN buckets' = DOMAIN buckets
           /\ \A x \in DOMAIN buckets : buckets'[x] = buckets[x]
<1> DEFINE a == waiting[r].ip
           now == waiting[r].now
           b == Current(a, now)
<1>1. waiting[r] # None /\ b.tokens <= 0 /\ buckets' = Put(buckets, a, b)
  BY DEF TooMany
<1>2. /\ b \in Bucket
      /\ Fresh(a, now) => b = [tokens |-> Limit, windowStart |-> now, lastSeen |-> now]
      /\ ~Fresh(a, now) => a \in DOMAIN buckets /\ b = buckets[a]
  BY <1>1, LockedSection
<1>3. ~Fresh(a, now) /\ b.tokens = 0
  BY <1>1, <1>2, LimiterAssumption DEF Bucket
<1>4. DOMAIN buckets' = DOMAIN buckets /\ \A x \in DOMAIN buckets : buckets'[x] = buckets[x]
  <2> HIDE DEF a, b
  <2> QED
    BY <1>1, <1>2, <1>3 DEF Put
<1> QED
  BY <1>2, <1>3, <1>4

\* A refusal promises no more than the end of its window.
LEMMA TooManyKeeps ==
    ASSUME LimiterOK, NEW r \in Requests, TooMany(r)
    PROVE  LimiterOK'
<1> DEFINE a == waiting[r].ip
           now == waiting[r].now
           b == Current(a, now)
           v == [start |-> b.windowStart, retryAt |-> now + RetryAfter(b, now) * Second]
<1>1. /\ waiting[r] # None
      /\ promise' = Put(promise, a, v)
      /\ waiting' = [waiting EXCEPT ![r] = None]
      /\ reply' = [reply EXCEPT ![r] = "429"]
      /\ UNCHANGED <<clock, ticker, cancelled, gc, ledger, passed>>
  BY DEF TooMany
<1>2. a \in Addresses /\ now \in Time /\ b \in Bucket
  BY <1>1, LockedSection
<1>3. DOMAIN buckets' = DOMAIN buckets /\ \A x \in DOMAIN buckets : buckets'[x] = buckets[x]
  BY TooManyFacts
<1>4. v \in [start : Time, retryAt : Nat] /\ v.retryAt >= v.start + Window
  <2>1. /\ RetryAfter(b, now) * Second \in Nat
        /\ now + RetryAfter(b, now) * Second >= b.windowStart + Window
    BY <1>2, RetryAfterCovers
  <2>2. now \in Nat /\ b.windowStart \in Time
    BY <1>2, LimiterAssumption DEF Time, Bucket
  <2> HIDE DEF b, now
  <2>3. now + RetryAfter(b, now) * Second \in Nat
    BY <2>1, <2>2
  <2> QED
    BY <2>1, <2>2, <2>3
<1> HIDE DEF a, now, b, v
<1>5. /\ DOMAIN promise' = DOMAIN promise \cup {a} /\ promise'[a] = v
      /\ \A x \in DOMAIN promise : x # a => promise'[x] = promise[x]
  BY <1>1 DEF Put
<1>6. TypeOK'
  BY <1>1, <1>2, <1>3, <1>4, <1>5 DEF LimiterOK, TypeOK
<1>7. LimiterInv'
  <2>1. \A s \in Requests : waiting'[s] # None => waiting[s] # None /\ waiting'[s] = waiting[s]
    BY <1>1 DEF LimiterOK, TypeOK
  <2>2. \A x \in DOMAIN promise' : promise'[x].retryAt >= promise'[x].start + Window
    BY <1>4, <1>5 DEF LimiterOK, LimiterInv
  <2> QED
    BY <1>1, <1>3, <2>1, <2>2 DEF LimiterOK, LimiterInv
<1> QED
  BY <1>6, <1>7 DEF LimiterOK

\* The collector evicts only buckets whose window was over before any time a
\* request can still carry.
LEMMA CollectKeeps == LimiterOK /\ Collect => LimiterOK'
<1> SUFFICES ASSUME LimiterOK, Collect PROVE LimiterOK'
  OBVIOUS
<1>1. /\ DOMAIN buckets' = DOMAIN buckets \ Idle(ticker)
      /\ \A x \in DOMAIN buckets' : buckets'[x] = buckets[x]
      /\ ticker \in Time /\ ticker <= clock /\ ticker' = None
      /\ UNCHANGED <<clock, waiting, cancelled, gc, ledger, reply, promise, passed>>
  BY DEF Collect, LimiterOK, TypeOK, LimiterInv
<1>2. TypeOK'
  BY <1>1 DEF LimiterOK, TypeOK
<1>3. \A x \in Idle(ticker) : ledger[x].start + 2 * Window < clock + MaxDelay
  <2> TAKE x \in Idle(ticker)
  <2>1. x \in DOMAIN buckets /\ buckets[x].lastSeen < ticker - 2 * Window
    BY DEF Idle
  <2>2. /\ ledger[x] = [start |-> buckets[x].windowStart, used |-> Limit - buckets[x].tokens]
        /\ buckets[x].windowStart <= buckets[x].lastSeen + MaxDelay
    BY <2>1 DEF LimiterOK, LimiterInv
  <2>3. /\ buckets[x].windowStart \in Nat /\ buckets[x].lastSeen \in Nat
        /\ clock \in Nat /\ ticker \in Nat
    BY <1>1, <2>1, LimiterAssumption DEF LimiterOK, TypeOK, Bucket, Time
  <2>4. ledger[x].start = buckets[x].windowStart
    BY <2>2
  <2> QED
    BY <1>1, <2>1, <2>2, <2>3, <2>4, LimiterAssumption
<1>4. LimiterInv'
  BY <1>1, <1>3 DEF LimiterOK, LimiterInv
<1> QED
  BY <1>2, <1>4 DEF LimiterOK

\* Time passes: no request's time gets older than MaxDelay.
LEMMA TickKeeps == LimiterOK /\ Tick => LimiterOK'
<1> SUFFICES ASSUME LimiterOK, Tick PROVE LimiterOK'
  OBVIOUS
<1>1. /\ clock \in Nat /\ clock < MaxTime /\ clock' = clock + 1 /\ clock' \in Time
      /\ ticker' \in {ticker, clock'}
      /\ UNCHANGED <<buckets, waiting, cancelled, gc, ledger, reply, promise, passed>>
  BY LimiterAssumption DEF Tick, LimiterOK, TypeOK, Time
<1>2. TypeOK'
  BY <1>1 DEF LimiterOK, TypeOK
<1>3. \A r \in Requests : waiting'[r] # None =>
        waiting'[r].now <= clock' /\ clock' <= waiting'[r].now + MaxDelay
  <2> SUFFICES ASSUME NEW r \in Requests, waiting[r] # None
               PROVE  waiting[r].now <= clock' /\ clock' <= waiting[r].now + MaxDelay
    BY <1>1
  <2>1. waiting[r].now \in Nat /\ clock < waiting[r].now + MaxDelay /\ waiting[r].now <= clock
    BY LimiterAssumption DEF LimiterOK, TypeOK, LimiterInv, Tick, Time
  <2> QED
    BY <1>1, <2>1, LimiterAssumption
<1>4. ticker' # None => ticker' <= clock'
  <2>1. CASE ticker' = clock'
    BY <1>1, <2>1
  <2>2. CASE ticker' = ticker
    BY <1>1, <2>2, LimiterAssumption DEF LimiterOK, TypeOK, LimiterInv, Time
  <2> QED
    BY <1>1, <2>1, <2>2
<1>5. \A a \in DOMAIN buckets : buckets[a].windowStart <= clock'
  <2> TAKE a \in DOMAIN buckets
  <2>1. buckets[a] \in Bucket
    BY DEF LimiterOK, TypeOK
  <2>2. buckets[a].windowStart \in Nat
    BY <2>1, LimiterAssumption DEF Bucket, Time
  <2>3. buckets[a].windowStart <= clock
    BY DEF LimiterOK, LimiterInv
  <2> QED
    BY <1>1, <2>2, <2>3
<1>6. \A a \in DOMAIN ledger \ DOMAIN buckets : ledger[a].start + 2 * Window < clock' + MaxDelay
  <2> TAKE a \in DOMAIN ledger \ DOMAIN buckets
  <2>1. ledger[a].start \in Nat /\ ledger[a].start + 2 * Window < clock + MaxDelay
    BY LimiterAssumption DEF LimiterOK, TypeOK, LimiterInv, Time
  <2> QED
    BY <1>1, <2>1, LimiterAssumption
<1>7. LimiterInv'
  BY <1>1, <1>3, <1>4, <1>5, <1>6 DEF LimiterOK, LimiterInv
<1> QED
  BY <1>2, <1>7 DEF LimiterOK

\* A request reads the clock before it takes the mutex.
LEMMA ArriveKeeps ==
    ASSUME LimiterOK, NEW r \in Requests, NEW xff \in Addresses \cup {None},
           NEW remote \in Addresses, Arrive(r, xff, remote)
    PROVE  LimiterOK'
<1> DEFINE q == [ip |-> clientIP(xff, remote), now |-> clock]
<1>1. q \in [ip : Addresses, now : Time] /\ q.now = clock
  BY DEF clientIP, LimiterOK, TypeOK
<1>2. /\ waiting' = [waiting EXCEPT ![r] = q]
      /\ reply' = [reply EXCEPT ![r] = "none"]
      /\ UNCHANGED <<clock, buckets, ticker, cancelled, gc, ledger, promise, passed>>
  BY DEF Arrive
<1> HIDE DEF q
<1>3. TypeOK'
  BY <1>1, <1>2 DEF LimiterOK, TypeOK
<1>4. \A s \in Requests : waiting'[s] # None =>
        waiting'[s].now <= clock' /\ clock' <= waiting'[s].now + MaxDelay
  <2> TAKE s \in Requests
  <2>1. CASE s = r
    <3>1. waiting'[s].now = clock /\ clock' = clock /\ clock \in Nat
      BY <1>1, <1>2, <2>1, LimiterAssumption DEF LimiterOK, TypeOK, Time
    <3> QED
      BY <3>1, LimiterAssumption
  <2>2. CASE s # r
    BY <1>2, <2>2 DEF LimiterOK, TypeOK, LimiterInv
  <2> QED
    BY <2>1, <2>2
<1>5. LimiterInv'
  BY <1>2, <1>4 DEF LimiterOK, LimiterInv
<1> QED
  BY <1>3, <1>5 DEF LimiterOK

\* Everything that does not touch buckets, requests, history or time.
LEMMA QuietKeeps ==
    ASSUME LimiterOK, gc' \in {"running", "stopped"}, cancelled' \in BOOLEAN,
           UNCHANGED <<clock, buckets, waiting, ticker, ledger, reply, promise, passed>>
    PROVE  LimiterOK'
  BY DEF LimiterOK, TypeOK, LimiterInv

-----------------------------------------------------------------------------
(* Theorems *)

\* The types and the inductive invariant of the limiter hold in every state.
THEOREM LimiterInvariant == Spec => [](TypeOK /\ LimiterInv)
<1>1. Init => LimiterOK
  <2> SUFFICES ASSUME Init PROVE LimiterOK
    OBVIOUS
  <2>1. /\ DOMAIN buckets = {} /\ DOMAIN ledger = {} /\ DOMAIN promise = {} /\ DOMAIN passed = {}
        /\ clock = 0 /\ 0 \in Time /\ ticker = None /\ cancelled = FALSE /\ gc = "running"
        /\ waiting = [r \in Requests |-> None] /\ reply = [r \in Requests |-> "none"]
    BY LimiterAssumption DEF Init, EmptyMap, Time
  <2>2. TypeOK
    BY <2>1 DEF TypeOK
  <2>3. LimiterInv
    BY <2>1 DEF LimiterInv
  <2> QED
    BY <2>2, <2>3 DEF LimiterOK
<1>2. LimiterOK /\ [Next]_vars => LimiterOK'
  <2> SUFFICES ASSUME LimiterOK, [Next]_vars PROVE LimiterOK'
    OBVIOUS
  <2>1. CASE Cancel \/ Stop \/ UNCHANGED vars
    <3>1. /\ gc' \in {"running", "stopped"} /\ cancelled' \in BOOLEAN
          /\ UNCHANGED <<clock, buckets, waiting, ticker, ledger, reply, promise, passed>>
      BY <2>1 DEF Cancel, Stop, vars, LimiterOK, TypeOK
    <3> QED
      BY <3>1, QuietKeeps
  <2> QED
    BY <2>1, ArriveKeeps, PassKeeps, TooManyKeeps, CollectKeeps, TickKeeps DEF Next
<1> QED
  BY <1>1, <1>2, PTL DEF Spec, LimiterOK

\* The buckets, the waiting requests and the histories keep their types.
THEOREM TypeCorrect == Spec => []TypeOK
  BY LimiterInvariant, PTL

\* A refused client that waits for its Retry-After is never refused again by
\* the same window.
THEOREM RetryAlwaysHonoured == Spec => RetryHonoured
<1>1. TypeOK /\ LimiterInv /\ [Next]_vars => [\A r \in Requests : ~RefusedAgain(r)]_vars
  <2> SUFFICES ASSUME LimiterOK, Next, NEW r \in Requests, RefusedAgain(r) PROVE FALSE
    BY DEF LimiterOK
  <2>1. waiting[r] # None /\ waiting'[r] = None /\ reply'[r] = "429"
    BY DEF RefusedAgain
  <2>2. TooMany(r)
    <3>1. ASSUME NEW s \in Requests, NEW xff \in Addresses \cup {None},
                 NEW remote \in Addresses, Arrive(s, xff, remote)
          PROVE  FALSE
      <4>1. s # r
        BY <2>1, <3>1 DEF Arrive
      <4> QED
        BY <2>1, <3>1, <4>1 DEF Arrive, LimiterOK, TypeOK
    <3>2. ASSUME NEW s \in Requests, Pass(s) PROVE FALSE
      <4>1. waiting' = [waiting EXCEPT ![s] = None] /\ reply' = [reply EXCEPT ![s] = "next"]
        BY <3>2 DEF Pass
      <4>2. s = r
        BY <2>1, <4>1 DEF LimiterOK, TypeOK
      <4> QED
        BY <2>1, <4>1, <4>2 DEF LimiterOK, TypeOK
    <3>3. ASSUME NEW s \in Requests, TooMany(s) PROVE s = r
      <4>1. waiting' = [waiting EXCEPT ![s] = None]
        BY <3>3 DEF TooMany
      <4> QED
        BY <2>1, <4>1 DEF LimiterOK, TypeOK
    <3>4. CASE Collect \/ Cancel \/ Stop \/ Tick
      BY <2>1, <3>4 DEF Collect, Cancel, Stop, Tick
    <3> QED
      BY <3>1, <3>2, <3>3, <3>4 DEF Next
  <2> DEFINE a == waiting[r].ip
             now == waiting[r].now
             b == Current(a, now)
  <2>3. a \in DOMAIN promise /\ now >= promise[a].retryAt /\ promise'[a].start = promise[a].start
    BY DEF RefusedAgain
  <2>4. /\ now \in Time /\ b \in Bucket
        /\ ~Fresh(a, now) => now < b.windowStart + Window
    BY <2>1, LockedSection
  <2>5. now < b.windowStart + Window
    BY <2>2, <2>4, TooManyFacts
  <2>6. promise'[a].start = b.windowStart
    <3>1. promise' = Put(promise, a, [start |-> b.windowStart,
                                      retryAt |-> now + RetryAfter(b, now) * Second])
      BY <2>2 DEF TooMany
    <3> HIDE DEF a, now, b
    <3> QED
      BY <3>1 DEF Put
  <2>7. promise[a].retryAt >= promise[a].start + Window /\ promise[a].retryAt \in Nat
    BY <2>3 DEF LimiterOK, TypeOK, LimiterInv
  <2> HIDE DEF a, now, b
  <2>8. b.windowStart \in Nat /\ now \in Nat
    BY <2>4, LimiterAssumption DEF Bucket, Time
  <2> QED
    BY <2>3, <2>5, <2>6, <2>7, <2>8, LimiterAssumption
<1> QED
  BY <1>1, LimiterInvariant, PTL DEF Spec, RetryHonoured

\* When a window opens, more than Window - MaxDelay has gone by since the last
\* request that passed two windows ago.
THEOREM BurstAlwaysBounded == Spec => BurstBound
<1>1. TypeOK /\ LimiterInv /\ [Next]_vars =>
        [\A a \in Addresses : Opens(a) /\ passed[a].before # None =>
            clock > passed[a].before + Window - MaxDelay]_vars
  <2> SUFFICES ASSUME LimiterOK, Next, NEW x \in Addresses, Opens(x), passed[x].before # None
               PROVE  clock > passed[x].before + Window - MaxDelay
    BY DEF LimiterOK
  <2>1. x \in DOMAIN ledger /\ ledger'[x].start # ledger[x].start
    BY DEF Opens
  <2>2. PICK r \in Requests : Pass(r)
    <3>1. CASE UNCHANGED ledger
      BY <2>1, <3>1
    <3> QED
      BY <3>1 DEF Next, Arrive, TooMany, Collect, Cancel, Stop, Tick
  <2> DEFINE a == waiting[r].ip
             now == waiting[r].now
             b == Current(a, now)
  <2>3. /\ waiting[r] # None
        /\ ledger' = Put(ledger, a, [start |-> b.windowStart, used |-> Limit - b.tokens + 1])
    BY <2>2 DEF Pass
  <2>4. /\ now \in Time /\ now <= clock
        /\ Fresh(a, now) /\ a \in DOMAIN ledger => ledger[a].start + Window <= now
        /\ ~Fresh(a, now) => ledger[a] = [start |-> b.windowStart, used |-> Limit - b.tokens]
    BY <2>3, LockedSection
  <2> HIDE DEF a, now, b
  <2>5. x = a /\ ledger'[a].start = b.windowStart
    BY <2>1, <2>3 DEF Put
  <2>6. Fresh(a, now)
    <3>1. CASE ~Fresh(a, now)
      <4>1. ledger[a].start = b.windowStart
        BY <2>4, <3>1
      <4> QED
        BY <2>1, <2>5, <4>1
    <3> QED
      BY <3>1
  <2>7. ledger[x].start + Window <= now
    BY <2>1, <2>4, <2>5, <2>6
  <2>8. passed[x].before \in Time \cup {None} /\ ledger[x].start \in Time /\ clock \in Time
    BY <2>1 DEF LimiterOK, TypeOK
  <2>9. passed[x].before < ledger[x].start + MaxDelay
    BY <2>1 DEF LimiterOK, LimiterInv
  <2> QED
    BY <2>4, <2>7, <2>8, <2>9, LimiterAssumption DEF Time
<1> QED
  BY <1>1, LimiterInvariant, PTL DEF Spec, BurstBound

\* The limiter with its collector cannot be told apart from one that keeps the
\* latest window of every address for good.
THEOREM QuotaImplemented == Spec => ImplementsQuota
<1>1. Init => Quota!Init
  BY DEF Init, Quota!Init, EmptyMap
<1>2. TypeOK /\ LimiterInv /\ [Next]_vars => [Quota!Next]_(Quota!vars)
  <2> SUFFICES ASSUME LimiterOK, [Next]_vars PROVE Quota!Next \/ UNCHANGED <<ledger, reply>>
    BY DEF Quota!vars, LimiterOK
  <2>1. ASSUME NEW r \in Requests, NEW xff \in Addresses \cup {None}, NEW remote \in Addresses,
               Arrive(r, xff, remote)
        PROVE  Quota!Next
    <3>1. Quota!Arrive(r)
      BY <2>1 DEF Arrive, Quota!Arrive
    <3> QED
      BY <3>1 DEF Quota!Next
  <2>2. ASSUME NEW r \in Requests, Pass(r) PROVE Quota!Next
    <3> DEFINE a == waiting[r].ip
               now == waiting[r].now
               b == Current(a, now)
    <3>1. /\ waiting[r] # None /\ b.tokens > 0
          /\ ledger' = Put(ledger, a, [start |-> b.windowStart, used |-> Limit - b.tokens + 1])
          /\ reply' = [reply EXCEPT ![r] = "next"]
      BY <2>2 DEF Pass
    <3>2. /\ a \in Addresses /\ now \in Time /\ b \in Bucket
          /\ Fresh(a, now) =>
                /\ b = [tokens |-> Limit, windowStart |-> now, lastSeen |-> now]
                /\ a \in DOMAIN ledger => ledger[a].start + Window <= now
          /\ ~Fresh(a, now) =>
                /\ now < b.windowStart + Window
                /\ a \in DOMAIN ledger
                /\ ledger[a] = [start |-> b.windowStart, used |-> Limit - b.tokens]
      BY <3>1, LockedSection
    <3> HIDE DEF a, now, b
    <3>3. b.tokens \in Nat /\ b.windowStart \in Nat /\ now \in Nat
      BY <3>2, LimiterAssumption DEF Bucket, Time
    <3>4. CASE Fresh(a, now)
      <4>1. b.windowStart = now /\ b.tokens = Limit /\ Limit - b.tokens + 1 = 1
        BY <3>2, <3>4, LimiterAssumption
      <4>2. Quota!Over(a, now)
        <5> SUFFICES ASSUME a \in DOMAIN ledger PROVE now - ledger[a].start >= Window
          BY DEF Quota!Over
        <5>1. ledger[a].start \in Nat /\ ledger[a].start + Window <= now
          BY <3>2, <3>4, LimiterAssumption DEF LimiterOK, TypeOK, Time
        <5> QED
          BY <3>3, <5>1, LimiterAssumption
      <4>3. Quota!Open(r, a, now)
        BY <3>1, <4>1, <4>2 DEF Quota!Open, Quota!Record, Put
      <4> QED
        BY <3>2, <4>3 DEF Quota!Next
    <3>5. CASE ~Fresh(a, now)
      <4>1. /\ a \in DOMAIN ledger
            /\ ledger[a] = [start |-> b.windowStart, used |-> Limit - b.tokens]
            /\ now < b.windowStart + Window
        BY <3>2, <3>5
      <4>2. ~Quota!Over(a, now) /\ ledger[a].used < Limit
        BY <3>1, <3>3, <4>1, LimiterAssumption DEF Quota!Over
      <4>3. [ledger[a] EXCEPT !.used = @ + 1] =
              [start |-> b.windowStart, used |-> Limit - b.tokens + 1]
        BY <4>1
      <4>4. Quota!Admit(r, a, now)
        BY <3>1, <4>2, <4>3 DEF Quota!Admit, Quota!Record, Put
      <4> QED
        BY <3>2, <4>4 DEF Quota!Next
    <3> QED
      BY <3>4, <3>5
  <2>3. ASSUME NEW r \in Requests, TooMany(r) PROVE Quota!Next
    <3> DEFINE a == waiting[r].ip
               now == waiting[r].now
               b == Current(a, now)
    <3>1. waiting[r] # None /\ UNCHANGED ledger /\ reply' = [reply EXCEPT ![r] = "429"]
      BY <2>3 DEF TooMany
    <3>2. ~Fresh(a, now) /\ buckets[a].tokens = 0
      BY <2>3, TooManyFacts
    <3>3. /\ a \in Addresses /\ now \in Time /\ b \in Bucket /\ b = buckets[a]
          /\ now < b.windowStart + Window
          /\ a \in DOMAIN ledger
          /\ ledger[a] = [start |-> b.windowStart, used |-> Limit - b.tokens]
      BY <3>1, <3>2, LockedSection
    <3> HIDE DEF a, now, b
    <3>4. ~Quota!Over(a, now) /\ ledger[a].used = Limit
      <4>1. b.tokens = 0 /\ b.windowStart \in Nat /\ now \in Nat
        BY <3>2, <3>3, LimiterAssumption DEF Bucket, Time
      <4>2. ledger[a].start = b.windowStart /\ ledger[a].used = Limit
        BY <3>3, <4>1, LimiterAssumption
      <4> QED
        BY <3>3, <4>1, <4>2, LimiterAssumption DEF Quota!Over
    <3>5. Quota!Refuse(r, a, now)
      BY <3>1, <3>4 DEF Quota!Refuse
    <3> QED
      BY <3>3, <3>5 DEF Quota!Next
  <2>4. CASE Collect \/ Cancel \/ Stop \/ Tick \/ UNCHANGED vars
    BY <2>4 DEF Collect, Cancel, Stop, Tick, vars
  <2> QED
    BY <2>1, <2>2, <2>3, <2>4 DEF Next
<1> QED
  BY <1>1, <1>2, LimiterInvariant, PTL DEF Spec, ImplementsQuota, Quota!Spec
==============================================================================
