----------------------------- MODULE JwksCache -----------------------------
(***************************************************************************)
(* The plugin's JWKS cache (plugin/jwks_cache.go) verifying tokens against *)
(* the signing keys of the sidecar.                                        *)
(*                                                                         *)
(* The sidecar's side is KeyService, which KeyRotation implements; the     *)
(* plugin's side is jwksCache.Get: a read under RLock, then, under Lock, a *)
(* decision on lastFetch and a refresh over HTTP that holds the lock until *)
(* it is done.  The sidecar evaluates the reply at one moment, the plugin  *)
(* installs it and sets lastFetch at a later one; keys can rotate between  *)
(* the two.  A Get that hits the cache under RLock changes nothing and is  *)
(* no step of the model.                                                   *)
(***************************************************************************)
EXTENDS Integers, FiniteSets

CONSTANTS
    Kids, Overlap, AccessTTL, ClockSkew,  \* of the sidecar, see KeyService
    Verifiers,   \* concurrent requests in the plugin
    Nobody,      \* no holder of the lock, no key
    CacheTTL,    \* JWKSCacheTTLSeconds
    MinGap,      \* the 5 seconds of jwks_cache.go:58
    MaxFetch,    \* longest duration of one refresh
    MaxTime      \* bound of the clock

ASSUME NobodyAssumption == Nobody \notin Verifiers \cup Kids
ASSUME DurationAssumption ==
    /\ Overlap \in Nat /\ AccessTTL \in Nat /\ ClockSkew \in Nat /\ CacheTTL \in Nat
    /\ MinGap \in Nat /\ MaxFetch \in Nat /\ MaxTime \in Nat
\* A key is announced for longer than a cache can be behind (default: 24 hours
\* against 5 seconds and one HTTP exchange).
ASSUME OverlapAssumption == MinGap + MaxFetch < Overlap

VARIABLES
    stage, since, now, lastExp,  \* the key service
    cache,     \* the map of keys and lastFetch
    mu,        \* holder of the write lock
    get,       \* calls of Get that did not hit
    ensured,   \* history: keys that signed without having been announced
    unknown    \* history: keys answered "not found in JWKS" under a live token,
               \* with the time since the key was published

sidecar == <<stage, since, now, lastExp>>
plugin  == <<cache, mu, get>>
vars    == <<sidecar, plugin, ensured, unknown>>

KS == INSTANCE KeyService

-----------------------------------------------------------------------------
(* The sidecar *)

\* Ensure, rotate, the janitor and MintAccessToken, by their contract.
SidecarStep ==
    /\ \/ \E k \in Kids : KS!Create(k) /\ ensured' = ensured \cup {k}
       \/ /\ \/ \E k \in Kids : KS!Announce(k) \/ KS!Retire(k) \/ KS!Promote(k) \/ KS!Sign(k)
             \/ \E S \in SUBSET Kids : KS!Drop(S)
          /\ UNCHANGED ensured
    /\ UNCHANGED <<plugin, unknown>>

\* Mutants: pending keys are left out; an entry without a usable key is kept.
SigningJWKS == {k \in KS!Published : stage[k] # "next"}
JWKSWithNil == KS!Published \cup {Nobody}

\* PublishableJWKS: what /oauth/jwks.json answers.
PublishableJWKS == KS!Published

-----------------------------------------------------------------------------
(* The plugin *)

Empty == [state |-> "empty", keys |-> {}, lastFetch |-> 0]

Call(pc, kid, start, reply) == [pc |-> pc, kid |-> kid, start |-> start, reply |-> reply]

Returned == Call("idle", Nobody, 0, {})

Init ==
    /\ KS!Init
    /\ cache = Empty
    /\ mu = Nobody
    /\ get = [v \in Verifiers |-> Returned]
    /\ ensured = {} /\ unknown = {}

\* Inside refresh; an exchange that is neither answered nor broken off within
\* MaxFetch hangs.
Exchanging(v) == get[v].pc \in {"fetch", "reply"}
Hung(v)       == get[v].pc = "hung"
Fetching(v)   == Exchanging(v) \/ Hung(v)

Tick ==
    /\ now < MaxTime
    /\ \A v \in Verifiers : Exchanging(v) => now < get[v].start + MaxFetch
    /\ KS!Tick
    /\ UNCHANGED <<plugin, ensured, unknown>>

\* time.Since(lastFetch) > d; a cache that was never filled is infinitely old.
OlderThan(d) == cache.state = "empty" \/ cache.lastFetch + d < now

\* The read under RLock finds no fresh entry for k.
Miss(k) == k \notin cache.keys \/ OlderThan(CacheTTL)

Get(v) ==
    /\ get[v].pc = "idle" /\ mu = Nobody
    /\ \E k \in Kids : Miss(k) /\ get' = [get EXCEPT ![v] = Call("lock", k, 0, {})]
    /\ UNCHANGED <<sidecar, cache, mu, ensured, unknown>>

\* The answer of Get from a map of keys.
Answer(v, keys) ==
    /\ unknown' = IF get[v].kid \notin keys /\ KS!Accepted(get[v].kid)
                  THEN unknown \cup {[kid |-> get[v].kid, age |-> now - since[get[v].kid]]}
                  ELSE unknown
    /\ get' = [get EXCEPT ![v] = Returned]

\* Lock, and the last fetch was less than MinGap ago: answer from the map.
AnswerFromCache(v) ==
    /\ get[v].pc = "lock" /\ mu = Nobody
    /\ ~ OlderThan(MinGap)
    /\ Answer(v, cache.keys)
    /\ UNCHANGED <<sidecar, cache, mu, ensured>>

\* Mutant: the refresh runs without the lock.
StartRefreshUnlocked(v) ==
    /\ get[v].pc = "lock" /\ mu = Nobody
    /\ OlderThan(MinGap)
    /\ get' = [get EXCEPT ![v] = Call("fetch", get[v].kid, now, {})]
    /\ UNCHANGED <<sidecar, cache, mu, ensured, unknown>>

\* Lock and start a refresh.
StartRefresh(v) ==
    /\ get[v].pc = "lock" /\ mu = Nobody
    /\ OlderThan(MinGap)
    /\ mu' = v
    /\ get' = [get EXCEPT ![v] = Call("fetch", get[v].kid, now, {})]
    /\ UNCHANGED <<sidecar, cache, ensured, unknown>>

\* HandleJWKS reads the table.
Reply(v) ==
    /\ get[v].pc = "fetch"
    /\ get' = [get EXCEPT ![v] = Call("reply", get[v].kid, get[v].start, PublishableJWKS)]
    /\ UNCHANGED <<sidecar, cache, mu, ensured, unknown>>

\* The new map replaces the old one, lastFetch is set, the lock is released.
RefreshDone(v) ==
    /\ get[v].pc = "reply"
    /\ cache' = [state |-> "filled", keys |-> get[v].reply, lastFetch |-> now]
    /\ mu' = Nobody
    /\ Answer(v, get[v].reply)
    /\ UNCHANGED <<sidecar, ensured>>

\* Mutant: the error path returns without Unlock.
RefreshFailsLocked(v) ==
    /\ Fetching(v)
    /\ get' = [get EXCEPT ![v] = Returned]
    /\ UNCHANGED <<sidecar, cache, mu, ensured, unknown>>

\* Mutant: a failed refresh counts as a fetch.
RefreshFailsSpaced(v) ==
    /\ Fetching(v)
    /\ mu' = Nobody
    /\ get' = [get EXCEPT ![v] = Returned]
    /\ cache' = [cache EXCEPT !.state = "filled", !.lastFetch = now]
    /\ UNCHANGED <<sidecar, ensured, unknown>>

\* Any error of the refresh: the old map stays, and so does lastFetch.  Get
\* answers with the old entry or with the error of the refresh.
RefreshFails(v) ==
    /\ Fetching(v)
    /\ mu' = Nobody
    /\ get' = [get EXCEPT ![v] = Returned]
    /\ UNCHANGED <<sidecar, cache, ensured, unknown>>

\* The sidecar or the network falls silent: http.Get and io.ReadAll wait without
\* a timeout, with the lock held, until the connection breaks (RefreshFails) or
\* for ever.
Hang(v) ==
    /\ Exchanging(v)
    /\ get' = [get EXCEPT ![v] = Call("hung", get[v].kid, 0, {})]
    /\ UNCHANGED <<sidecar, cache, mu, ensured, unknown>>

\* Traefik builds a new middleware instance with an empty cache.
New ==
    /\ cache.state = "filled"
    /\ cache' = Empty
    /\ mu' = Nobody
    /\ get' = [v \in Verifiers |-> Returned]
    /\ UNCHANGED <<sidecar, ensured, unknown>>

Verify(v) ==
    \/ AnswerFromCache(v) \/ StartRefresh(v) \/ Reply(v) \/ RefreshDone(v) \/ RefreshFails(v)
    \/ Hang(v)

Next ==
    \/ Tick \/ SidecarStep \/ New
    \/ \E v \in Verifiers : Get(v) \/ Verify(v)

Spec == Init /\ [][Next]_vars

\* sync.RWMutex hands the lock on in the order of arrival.  An exchange goes on,
\* fails or hangs; nothing makes a hung one end.
FairSpec ==
    /\ Spec
    /\ \A v \in Verifiers :
          /\ SF_vars(AnswerFromCache(v) \/ StartRefresh(v))
          /\ WF_vars(Exchanging(v) /\ (Reply(v) \/ RefreshDone(v) \/ RefreshFails(v) \/ Hang(v)))

-----------------------------------------------------------------------------
(* Properties *)

\* Every variable of the plugin keeps its type.
TypeOK ==
    /\ stage \in [Kids -> KS!Stages] /\ since \in [Kids -> Nat]
    /\ now \in Nat /\ lastExp \in [Kids -> Nat]
    /\ cache \in [state : {"empty", "filled"}, keys : SUBSET Kids, lastFetch : Nat]
    /\ mu \in Verifiers \cup {Nobody}
    /\ get \in [Verifiers -> [pc : {"idle", "lock", "fetch", "reply", "hung"}, kid : Kids \cup {Nobody},
                              start : Nat, reply : SUBSET Kids]]
    /\ ensured \subseteq Kids /\ unknown \subseteq [kid : Kids, age : Int]

\* The plugin never answers "not found in JWKS" for a live token of a key that
\* was announced before it signed, although it refuses to refresh within MinGap
\* of the last fetch and a reply may be old when it is installed: rotation
\* does not disturb the holders of tokens.  And a key that Ensure inserts, which
\* signs without announcement, is refused only while it is new: for the MinGap
\* in which Get does not refresh again and one exchange, however refreshes fail.
RefusedOnlyWhileNew ==
    \A u \in unknown : u.kid \in ensured /\ u.age <= MinGap + MaxFetch

\* The write lock is held exactly by the call that is inside a refresh: no two
\* refreshes at once, and no path out of refresh that keeps the lock, which
\* would stop every request of the plugin (jwks_cache.go:57).
LockIsRefresh == \A v \in Verifiers : mu = v <=> Fetching(v)

\* A refresh never takes away a cached key some live token needs: replies are
\* installed in the order the sidecar evaluated them.
LiveKeyStaysCached ==
    [][\A k \in cache.keys : KS!Accepted(k) => k \in cache'.keys \/ cache'.state = "empty"]_vars

\* A key that was announced signs only after the overlap.
SignsAfterOverlap(k) ==
    /\ k \notin ensured /\ stage[k] \in {"active", "retiring"} => since[k] + Overlap <= now
    /\ stage[k] \in {"unused", "next"} => lastExp[k] = 0
    /\ stage[k] = "gone" => ~ KS!Accepted(k)

\* A set of keys that was fetched by a request sent at time t holds every key
\* that had been published before t and has not been dropped since.
CoversKeysBefore(keys, t) == \A k \in Kids : k \in PublishableJWKS /\ since[k] < t => k \in keys

\* What a call of Get relies on while it holds the lock: nobody else is inside
\* a refresh, the exchange is not older than MaxFetch, and the reply it holds
\* covers the keys that were published before it asked and the cached ones.
CallInv(v) ==
    /\ get[v].pc # "idle" => get[v].kid \in Kids
    /\ Fetching(v) => mu = v
    /\ Exchanging(v) => get[v].start <= now /\ now <= get[v].start + MaxFetch
    /\ get[v].pc = "reply" =>
          /\ CoversKeysBefore(get[v].reply, get[v].start)
          /\ \A k \in get[v].reply : stage[k] # "unused"
          /\ \A k \in cache.keys : k \in PublishableJWKS => k \in get[v].reply

\* The inductive invariant: the contract of the key service for live tokens,
\* and the cache covers the keys that were published before its fetch was sent,
\* at most MaxFetch before lastFetch.
CacheInv ==
    /\ \A k \in Kids : SignsAfterOverlap(k)
    /\ \A v \in Verifiers : CallInv(v)
    /\ \A k \in cache.keys : stage[k] # "unused"
    /\ cache.state = "filled" =>
          /\ cache.lastFetch <= now
          /\ CoversKeysBefore(cache.keys, cache.lastFetch - MaxFetch)

\* Unless an exchange hangs for ever, every Get returns, whoever else waits for
\* the lock and however many refreshes fail or hang for a while.  The exchange
\* has no timeout and runs under the write lock (jwks_cache.go:57 and :90), so
\* the condition is on the calls of all requests, and it is the only one.
GetReturns ==
    []<>(\A w \in Verifiers : ~ Hung(w)) =>
        \A v \in Verifiers : get[v].pc # "idle" ~> get[v].pc = "idle"
=============================================================================
