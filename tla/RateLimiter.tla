----------------------------- MODULE RateLimiter -----------------------------
(***************************************************************************)
(* The limiter in front of /oauth/register (httpx/ratelimit.go): a map of  *)
(* per-address buckets under one mutex, and a collector that evicts idle   *)
(* buckets.  A request reads the clock before it takes the mutex and so    *)
(* may act on a time that is up to MaxDelay old; the collector acts on the *)
(* time its ticker put into a channel.                                     *)
(***************************************************************************)
EXTENDS Integers

CONSTANTS
    Addresses,  \* client addresses
    Requests,   \* request goroutines
    None,       \* no header, no request, empty channel
    Limit,      \* BOUNCER_REGISTER_RATE_LIMIT
    Window,     \* BOUNCER_REGISTER_RATE_WINDOW, in ticks of the clock
    Second,     \* a second, in ticks of the clock
    MaxDelay,   \* longest time from time.Now() to the locked section
    MaxTime     \* bound on the clock

(***************************************************************************)
(* envInt and envDuration refuse values that are not positive.  A request  *)
(* is not stuck between time.Now() and the lock for half a window.         *)
(***************************************************************************)
ASSUME LimiterAssumption ==
    /\ Limit \in Nat \ {0}
    /\ Window \in Nat \ {0}
    /\ Second \in Nat \ {0}
    /\ MaxDelay \in Nat
    /\ 2 * MaxDelay <= Window
    /\ MaxTime \in Nat
    /\ None \notin Int
    /\ None \notin [ip : Addresses, now : Int]

VARIABLES
    clock,      \* time.Now()
    buckets,    \* l.buckets
    waiting,    \* request -> its address and time, until it has the mutex
    ticker,     \* ticker.C: the time of an unread tick
    cancelled,  \* ctx of the collector is cancelled
    gc,         \* the collector goroutine
    ledger,     \* history: address -> its latest window, evicted or not
    reply,      \* history: what the limiter answered each request
    promise,    \* history: address -> window and end of the last Retry-After
    passed      \* history: address -> when a request last passed in its latest
                \* window, and in the one before

vars == <<clock, buckets, waiting, ticker, cancelled, gc, ledger, reply, promise, passed>>

Time == 0 .. MaxTime

Bucket == [tokens : 0 .. Limit, windowStart : Time, lastSeen : Time]

\* m[k] = v of a Go map.
Put(m, k, v) == [x \in DOMAIN m \cup {k} |-> IF x = k THEN v ELSE m[x]]

EmptyMap == [x \in {} |-> 0]

\* The first X-Forwarded-For entry, or else the peer.
clientIP(xff, remote) == IF xff # None THEN xff ELSE remote

------------------------------------------------------------------------------
\* NewLimiter
Init ==
    /\ clock = 0
    /\ buckets = EmptyMap
    /\ waiting = [r \in Requests |-> None]
    /\ ticker = None
    /\ cancelled = FALSE
    /\ gc = "running"
    /\ ledger = EmptyMap
    /\ reply = [r \in Requests |-> "none"]
    /\ promise = EmptyMap
    /\ passed = EmptyMap

\* Middleware up to the mutex: the address and the time of the request.
Arrive(r, xff, remote) ==
    /\ waiting[r] = None
    /\ waiting' = [waiting EXCEPT ![r] = [ip |-> clientIP(xff, remote), now |-> clock]]
    /\ reply' = [reply EXCEPT ![r] = "none"]
    /\ UNCHANGED <<clock, buckets, ticker, cancelled, gc, ledger, promise, passed>>

\* Mutant: a window ends a tick early.
FreshEarly(a, now) == a \in DOMAIN buckets => now - buckets[a].windowStart >= Window - 1

\* The locked section starts a fresh window.
Fresh(a, now) == a \in DOMAIN buckets => now - buckets[a].windowStart >= Window

\* Mutant: a fresh bucket with one token too many.
CurrentOneMore(a, now) ==
    IF Fresh(a, now)
    THEN [tokens |-> Limit + 1, windowStart |-> now, lastSeen |-> now]
    ELSE buckets[a]

\* The bucket the locked section works on.
Current(a, now) ==
    IF Fresh(a, now)
    THEN [tokens |-> Limit, windowStart |-> now, lastSeen |-> now]
    ELSE buckets[a]

\* Mutant: the seconds are rounded down.
FloorDiv(n, d) == n \div d

CeilDiv(n, d) == (n + d - 1) \div d

RetryAfter(b, now) ==
    LET secs == CeilDiv(b.windowStart + Window - now, Second)
    IN  IF secs < 1 THEN 1 ELSE secs

\* History: when a request last passed in the window before the current one.
PassedBefore(a, now) ==
    CASE a \notin DOMAIN ledger -> None
      [] a \in DOMAIN ledger /\ Fresh(a, now) -> passed[a].last
      [] OTHER -> passed[a].before

\* The locked section of a request with a token left, and next.ServeHTTP.
Pass(r) ==
    /\ waiting[r] # None
    /\ LET a == waiting[r].ip
           now == waiting[r].now
           b == Current(a, now)
       IN  /\ b.tokens > 0
           /\ buckets' = Put(buckets, a, [tokens |-> b.tokens - 1,
                                          windowStart |-> b.windowStart, lastSeen |-> now])
           /\ ledger' = Put(ledger, a, [start |-> b.windowStart, used |-> Limit - b.tokens + 1])
           /\ passed' = Put(passed, a, [last |-> clock, before |-> PassedBefore(a, now)])
    /\ waiting' = [waiting EXCEPT ![r] = None]
    /\ reply' = [reply EXCEPT ![r] = "next"]
    /\ UNCHANGED <<clock, ticker, cancelled, gc, promise>>

\* The locked section of a request without a token: 429 and Retry-After.
TooMany(r) ==
    /\ waiting[r] # None
    /\ LET a == waiting[r].ip
           now == waiting[r].now
           b == Current(a, now)
       IN  /\ b.tokens <= 0
           /\ buckets' = Put(buckets, a, b)
           /\ promise' = Put(promise, a, [start |-> b.windowStart,
                                          retryAt |-> now + RetryAfter(b, now) * Second])
    /\ waiting' = [waiting EXCEPT ![r] = None]
    /\ reply' = [reply EXCEPT ![r] = "429"]
    /\ UNCHANGED <<clock, ticker, cancelled, gc, ledger, passed>>

\* Mutant: idle for less than a window is enough.
IdleAtOnce(tick) == {a \in DOMAIN buckets : buckets[a].lastSeen < tick}

\* Buckets the collector takes for idle at a tick.
Idle(tick) == {a \in DOMAIN buckets : buckets[a].lastSeen < tick - 2 * Window}

\* One pass of the collector, which holds the mutex throughout.
Collect ==
    /\ gc = "running"
    /\ ticker # None
    /\ buckets' = [a \in DOMAIN buckets \ Idle(ticker) |-> buckets[a]]
    /\ ticker' = None
    /\ UNCHANGED <<clock, waiting, cancelled, gc, ledger, reply, promise, passed>>

\* Close, or the end of the context it was given.
Cancel ==
    /\ ~cancelled
    /\ cancelled' = TRUE
    /\ UNCHANGED <<clock, buckets, waiting, ticker, gc, ledger, reply, promise, passed>>

\* The collector sees the cancelled context and closes done.
Stop ==
    /\ gc = "running"
    /\ cancelled
    /\ gc' = "stopped"
    /\ UNCHANGED <<clock, buckets, waiting, ticker, cancelled, ledger, reply, promise, passed>>

(***************************************************************************)
(* Time passes, at most MaxDelay while a request waits for the mutex.  The *)
(* ticker fires every Window and drops a tick the collector has not read.  *)
(***************************************************************************)
Tick ==
    /\ clock < MaxTime
    /\ \A r \in Requests : waiting[r] # None => clock < waiting[r].now + MaxDelay
    /\ clock' = clock + 1
    /\ ticker' = IF ticker = None /\ gc = "running" /\ clock' % Window = 0 THEN clock' ELSE ticker
    /\ UNCHANGED <<buckets, waiting, cancelled, gc, ledger, reply, promise, passed>>

Next ==
    \/ \E r \in Requests :
        \/ \E xff \in Addresses \cup {None}, remote \in Addresses : Arrive(r, xff, remote)
        \/ Pass(r)
        \/ TooMany(r)
    \/ Collect
    \/ Cancel
    \/ Stop
    \/ Tick

Spec == Init /\ [][Next]_vars

------------------------------------------------------------------------------
\* Every variable has its type.
TypeOK ==
    /\ clock \in Time
    /\ DOMAIN buckets \subseteq Addresses
    /\ \A a \in DOMAIN buckets : buckets[a] \in Bucket
    /\ waiting \in [Requests -> [ip : Addresses, now : Time] \cup {None}]
    /\ ticker \in Time \cup {None}
    /\ cancelled \in BOOLEAN
    /\ gc \in {"running", "stopped"}
    /\ DOMAIN ledger \subseteq Addresses
    /\ \A a \in DOMAIN ledger : ledger[a] \in [start : Time, used : 1 .. Limit]
    /\ reply \in [Requests -> {"none", "next", "429"}]
    /\ DOMAIN promise \subseteq Addresses
    /\ \A a \in DOMAIN promise : promise[a] \in [start : Time, retryAt : Nat]
    /\ DOMAIN passed = DOMAIN ledger
    /\ \A a \in DOMAIN passed : passed[a] \in [last : Time, before : Time \cup {None}]

(***************************************************************************)
(* Evicting idle buckets is invisible: the limiter answers like one that   *)
(* forgets nothing.  gc relies on "it will get a fresh window on the next  *)
(* request anyway" (ratelimit.go), although a request may carry a time     *)
(* older than the eviction and may have set lastSeen back.                 *)
(***************************************************************************)
Quota == INSTANCE RateQuota WITH Times <- Time
ImplementsQuota == Quota!Spec

(***************************************************************************)
(* A client that waits as long as a Retry-After told it to is not refused  *)
(* again by the window that refused it: the seconds of the header, rounded *)
(* up, cover what was left of the window.                                  *)
(***************************************************************************)
RefusedAgain(r) ==
    LET a == waiting[r].ip
    IN  /\ waiting[r] # None
        /\ waiting'[r] = None
        /\ reply'[r] = "429"
        /\ a \in DOMAIN promise
        /\ waiting[r].now >= promise[a].retryAt
        /\ promise'[a].start = promise[a].start

RetryHonoured == [][\A r \in Requests : ~RefusedAgain(r)]_vars

(***************************************************************************)
(* Fixed windows let bursts of two windows meet, never of three: whenever  *)
(* a window opens, more than a window less the longest delay before the    *)
(* mutex has gone by since the last request that passed two windows ago.   *)
(* Since a window passes at most Limit, at most 2 * Limit pass in that     *)
(* time.                                                                   *)
(***************************************************************************)
Opens(a) == a \in DOMAIN ledger /\ ledger'[a].start # ledger[a].start

BurstBound ==
    [][\A a \in Addresses : Opens(a) /\ passed[a].before # None =>
          clock > passed[a].before + Window - MaxDelay]_vars

(***************************************************************************)
(* Why eviction is invisible, as an inductive invariant: a kept bucket is  *)
(* the latest window of its address and was touched at most MaxDelay       *)
(* before it opened; the latest window of an evicted address was over      *)
(* before any time a request still carries; a promise covers its window;   *)
(* the windows of the past were left behind when the latest one opened.    *)
(***************************************************************************)
LimiterInv ==
    /\ \A r \in Requests : waiting[r] # None =>
          waiting[r].now <= clock /\ clock <= waiting[r].now + MaxDelay
    /\ ticker # None => ticker <= clock
    /\ DOMAIN buckets \subseteq DOMAIN ledger
    /\ \A a \in DOMAIN buckets :
          /\ ledger[a] = [start |-> buckets[a].windowStart, used |-> Limit - buckets[a].tokens]
          /\ buckets[a].windowStart <= buckets[a].lastSeen + MaxDelay
          /\ buckets[a].windowStart <= clock
    /\ \A a \in DOMAIN ledger \ DOMAIN buckets :
          ledger[a].start + 2 * Window < clock + MaxDelay
    /\ \A a \in DOMAIN promise : promise[a].retryAt >= promise[a].start + Window
    /\ \A a \in DOMAIN ledger :
          /\ passed[a].last < ledger[a].start + Window + MaxDelay
          /\ passed[a].before # None => passed[a].before < ledger[a].start + MaxDelay
==============================================================================
