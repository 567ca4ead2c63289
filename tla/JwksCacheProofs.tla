-------------------------- MODULE JwksCacheProofs --------------------------
(***************************************************************************)
(* Proofs about JwksCache for any number of keys and of concurrent         *)
(* requests, and for every setting of the durations that OverlapAssumption *)
(* allows.                                                                 *)
(***************************************************************************)
EXTENDS JwksCache, TLAPS

Calls == [pc : {"idle", "lock", "fetch", "reply", "hung"}, kid : Kids \cup {Nobody},
          start : Nat, reply : SUBSET Kids]

\* A step that moves one call keeps the type of the calls.
LEMMA CallFact ==
    ASSUME get \in [Verifiers -> Calls], NEW v \in Verifiers,
           NEW pc \in {"idle", "lock", "fetch", "reply", "hung"}, NEW k \in Kids \cup {Nobody},
           NEW t \in Nat, NEW S \in SUBSET Kids, get' = [get EXCEPT ![v] = Call(pc, k, t, S)]
    PROVE  /\ get' \in [Verifiers -> Calls]
           /\ get'[v].pc = pc /\ get'[v].kid = k /\ get'[v].start = t /\ get'[v].reply = S
           /\ \A w \in Verifiers \ {v} : get'[w] = get[w]
<1>1. Call(pc, k, t, S) \in Calls
  BY DEF Call, Calls
<1>2. /\ Call(pc, k, t, S).pc = pc /\ Call(pc, k, t, S).kid = k
      /\ Call(pc, k, t, S).start = t /\ Call(pc, k, t, S).reply = S
  BY DEF Call
<1> QED BY <1>1, <1>2

\* A call that returns keeps the calls typed and leaves the other calls alone.
LEMMA ReturnedFact ==
    ASSUME get \in [Verifiers -> Calls], NEW v \in Verifiers, get' = [get EXCEPT ![v] = Returned]
    PROVE  /\ get' \in [Verifiers -> Calls] /\ get'[v].pc = "idle"
           /\ \A w \in Verifiers \ {v} : get'[w] = get[w]
<1>1. Returned \in Calls /\ Returned.pc = "idle"
  BY DEF Returned, Call, Calls
<1> QED BY <1>1

\* What a step of the sidecar or the clock does to the keys.
KeysMove ==
    /\ now <= now'
    /\ \A k \in Kids :
          /\ stage[k] # "unused" => stage'[k] # "unused"
          /\ k \in PublishableJWKS' =>
                \/ (k \in PublishableJWKS /\ since'[k] = since[k])
                \/ (stage[k] = "unused" /\ since'[k] = now)

\* Every step of the sidecar keeps the types of its variables, moves keys only
\* forward and keeps the contract for announced keys.
LEMMA SidecarFact ==
    ASSUME TypeOK, \A k \in Kids : SignsAfterOverlap(k), SidecarStep \/ Tick
    PROVE  /\ stage' \in [Kids -> KS!Stages] /\ since' \in [Kids -> Nat]
           /\ now' \in Nat /\ lastExp' \in [Kids -> Nat] /\ ensured' \subseteq Kids
           /\ KeysMove
           /\ \A k \in Kids : SignsAfterOverlap(k)'
<1> USE DurationAssumption
<1> DEFINE Goal == /\ stage' \in [Kids -> KS!Stages] /\ since' \in [Kids -> Nat]
                   /\ now' \in Nat /\ lastExp' \in [Kids -> Nat] /\ ensured' \subseteq Kids
                   /\ KeysMove
                   /\ \A k \in Kids : SignsAfterOverlap(k)'
<1> USE DEF KeysMove, PublishableJWKS, KS!Published, KS!Stages, KS!Accepted, SignsAfterOverlap,
            TypeOK
<1>1. ASSUME NEW j \in Kids, KS!Create(j), ensured' = ensured \cup {j} PROVE Goal
  BY <1>1 DEF KS!Create
<1>2. ASSUME NEW j \in Kids, KS!Announce(j), ensured' = ensured PROVE Goal
  BY <1>2 DEF KS!Announce
<1>3. ASSUME NEW j \in Kids, KS!Retire(j), ensured' = ensured PROVE Goal
  BY <1>3 DEF KS!Retire
<1>4. ASSUME NEW j \in Kids, KS!Promote(j), ensured' = ensured PROVE Goal
  BY <1>4 DEF KS!Promote
<1>5. ASSUME NEW j \in Kids, KS!Sign(j), ensured' = ensured PROVE Goal
  BY <1>5 DEF KS!Sign
<1>6. ASSUME NEW S \in SUBSET Kids, KS!Drop(S), ensured' = ensured PROVE Goal
  BY <1>6 DEF KS!Drop
<1>7. CASE Tick
  BY <1>7 DEF Tick, KS!Tick
<1> QED BY <1>1, <1>2, <1>3, <1>4, <1>5, <1>6, <1>7 DEF SidecarStep

\* Every step of the plugin, the sidecar and the clock keeps every variable's type.
LEMMA TypeStep == TypeOK /\ CacheInv /\ [Next]_vars => TypeOK'
<1> SUFFICES ASSUME TypeOK, CacheInv, [Next]_vars PROVE TypeOK'
  OBVIOUS
<1>0. get \in [Verifiers -> Calls]
  BY DEF TypeOK, Calls
<1>1. CASE SidecarStep \/ Tick
  BY <1>1, SidecarFact DEF CacheInv, SidecarStep, Tick, plugin, TypeOK
<1>2. CASE New
  <2>1. Returned \in Calls
    BY DEF Returned, Call, Calls
  <2>2. get' \in [Verifiers -> Calls]
    BY <1>2, <2>1 DEF New
  <2> QED BY <1>2, <2>2 DEF New, Empty, sidecar, TypeOK, Calls
<1>3. ASSUME NEW v \in Verifiers, Get(v) PROVE TypeOK'
  <2>1. PICK k \in Kids, S \in SUBSET Kids : get' = [get EXCEPT ![v] = Call("lock", k, 0, S)]
    BY <1>3 DEF Get
  <2>2. get' \in [Verifiers -> Calls]
    BY <1>0, <2>1, CallFact
  <2> QED BY <1>3, <2>2 DEF Get, sidecar, TypeOK, Calls
<1>4. ASSUME NEW v \in Verifiers, StartRefresh(v) PROVE TypeOK'
  <2>1. get' \in [Verifiers -> Calls]
    <3>1. get[v].kid \in Kids \cup {Nobody} /\ now \in Nat
      BY <1>0 DEF Calls, TypeOK
    <3>2. PICK S \in SUBSET Kids : S = {}
      OBVIOUS
    <3> QED BY <1>0, <1>4, <3>1, <3>2, CallFact DEF StartRefresh
  <2> QED BY <1>4, <2>1 DEF StartRefresh, sidecar, TypeOK, Calls
<1>5. ASSUME NEW v \in Verifiers, Reply(v) PROVE TypeOK'
  <2>1. get' \in [Verifiers -> Calls]
    <3>1. get[v].kid \in Kids \cup {Nobody} /\ get[v].start \in Nat /\ PublishableJWKS \in SUBSET Kids
      BY <1>0 DEF Calls, PublishableJWKS, KS!Published
    <3> QED BY <1>0, <1>5, <3>1, CallFact DEF Reply
  <2> QED BY <1>5, <2>1 DEF Reply, sidecar, TypeOK, Calls
<1>6. ASSUME NEW v \in Verifiers, AnswerFromCache(v) \/ RefreshDone(v) \/ RefreshFails(v)
      PROVE  TypeOK'
  <2>1. get' \in [Verifiers -> Calls]
    BY <1>0, <1>6, ReturnedFact DEF AnswerFromCache, RefreshDone, RefreshFails, Answer
  <2>2. unknown' \subseteq [kid : Kids, age : Int]
    <3>1. get[v].pc # "idle" => get[v].kid \in Kids
      BY DEF CacheInv, CallInv
    <3>2. get[v].kid \in Kids =>
             [kid |-> get[v].kid, age |-> now - since[get[v].kid]] \in [kid : Kids, age : Int]
      BY DEF TypeOK
    <3> QED BY <1>6, <3>1, <3>2
            DEF AnswerFromCache, RefreshDone, RefreshFails, Fetching, Exchanging, Hung, Answer,
                TypeOK
  <2>3. cache' \in [state : {"empty", "filled"}, keys : SUBSET Kids, lastFetch : Nat]
    <3>1. get[v].reply \in SUBSET Kids /\ get[v].start \in Nat /\ now \in Nat
      BY <1>0 DEF Calls, TypeOK
    <3> QED BY <1>6, <3>1 DEF AnswerFromCache, RefreshDone, RefreshFails, TypeOK
  <2>4. mu' \in Verifiers \cup {Nobody}
    BY <1>6 DEF AnswerFromCache, RefreshDone, RefreshFails, TypeOK
  <2> QED BY <1>6, <2>1, <2>2, <2>3, <2>4
          DEF AnswerFromCache, RefreshDone, RefreshFails, sidecar, TypeOK, Calls
<1>7. ASSUME NEW v \in Verifiers, Hang(v) PROVE TypeOK'
  <2>1. get' \in [Verifiers -> Calls]
    <3>1. get[v].kid \in Kids \cup {Nobody} /\ get[v].start \in Nat
      BY <1>0 DEF Calls
    <3>2. PICK S \in SUBSET Kids : S = {}
      OBVIOUS
    <3> QED BY <1>0, <1>7, <3>1, <3>2, CallFact DEF Hang
  <2> QED BY <1>7, <2>1 DEF Hang, sidecar, TypeOK, Calls
<1>8. CASE UNCHANGED vars
  BY <1>8 DEF vars, sidecar, plugin, TypeOK
<1> QED BY <1>1, <1>2, <1>3, <1>4, <1>5, <1>6, <1>7, <1>8 DEF Next, Verify
-----------------------------------------------------------------------------
(* The inductive invariant *)

\* A call that does not move, while the keys do not move either.
LEMMA StillCall ==
    ASSUME CacheInv, NEW w \in Verifiers, get'[w] = get[w], mu' = mu \/ ~ Fetching(w),
           UNCHANGED sidecar, cache'.keys \subseteq cache.keys
    PROVE  CallInv(w)'
<1>1. CallInv(w)
  BY DEF CacheInv
<1>2. PublishableJWKS' = PublishableJWKS
  BY DEF PublishableJWKS, KS!Published, sidecar
<1> QED BY <1>1, <1>2 DEF CallInv, Fetching, Exchanging, Hung, CoversKeysBefore, sidecar

\* The sidecar's contract does not depend on the plugin.
LEMMA StillSigns ==
    ASSUME CacheInv, UNCHANGED <<sidecar, ensured>>
    PROVE  \A k \in Kids : SignsAfterOverlap(k)'
BY DEF CacheInv, SignsAfterOverlap, KS!Accepted, sidecar

\* Every step preserves the inductive invariant.
LEMMA InvStep == TypeOK /\ TypeOK' /\ CacheInv /\ [Next]_vars => CacheInv'
<1> SUFFICES ASSUME TypeOK, TypeOK', CacheInv, [Next]_vars PROVE CacheInv'
  OBVIOUS
<1> USE DurationAssumption, NobodyAssumption
<1>0. get \in [Verifiers -> Calls]
  BY DEF TypeOK, Calls
<1>1. CASE SidecarStep \/ Tick
  <2>1. UNCHANGED plugin /\ KeysMove /\ \A k \in Kids : SignsAfterOverlap(k)'
    BY <1>1, SidecarFact DEF CacheInv, SidecarStep, Tick
  <2>2. ASSUME NEW v \in Verifiers PROVE CallInv(v)'
    <3>1. CallInv(v) /\ get'[v] = get[v] /\ get[v].start \in Nat /\ get[v].reply \subseteq Kids
      BY <2>1 DEF CacheInv, plugin, TypeOK
    <3>2. Exchanging(v) => now' <= get[v].start + MaxFetch
      BY <1>1, <3>1 DEF SidecarStep, Tick, KS!Tick, KS!Create, KS!Announce, KS!Retire, KS!Promote,
         KS!Sign, KS!Drop, CallInv, TypeOK
    <3>3. Exchanging(v) => get[v].start <= now'
      BY <2>1, <3>1 DEF KeysMove, CallInv, TypeOK
    <3>4. get[v].pc = "reply" => CoversKeysBefore(get[v].reply, get[v].start)'
      BY <2>1, <3>1 DEF KeysMove, CallInv, Fetching, Exchanging, Hung, CoversKeysBefore, TypeOK
    <3>5. get[v].pc = "reply" =>
            /\ \A k \in get[v].reply : stage'[k] # "unused"
            /\ \A k \in cache.keys : k \in PublishableJWKS' => k \in get[v].reply
      BY <2>1, <3>1 DEF KeysMove, CallInv, CacheInv, TypeOK
    <3> QED BY <2>1, <3>1, <3>2, <3>3, <3>4, <3>5 DEF CallInv, Fetching, Exchanging, Hung, plugin
  <2>3. cache.state = "filled" => /\ cache.lastFetch <= now'
                                  /\ CoversKeysBefore(cache.keys, cache.lastFetch - MaxFetch)'
    BY <2>1 DEF KeysMove, CacheInv, CoversKeysBefore, plugin, TypeOK
  <2>4. \A k \in cache.keys : stage'[k] # "unused"
    BY <2>1 DEF KeysMove, CacheInv, TypeOK
  <2> QED BY <2>1, <2>2, <2>3, <2>4 DEF CacheInv, plugin
<1>2. CASE New
  <2>1. \A v \in Verifiers : get'[v].pc = "idle"
    BY <1>2 DEF New, Returned, Call
  <2>2. cache'.state = "empty" /\ cache'.keys = {}
    BY <1>2 DEF New, Empty
  <2>3. \A v \in Verifiers : CallInv(v)'
    BY <2>1 DEF CallInv, Fetching, Exchanging, Hung
  <2> QED BY <1>2, <2>2, <2>3, StillSigns DEF CacheInv, New
<1>3. ASSUME NEW v \in Verifiers, Get(v) PROVE CacheInv'
  <2>1. PICK k \in Kids, S \in SUBSET Kids : get' = [get EXCEPT ![v] = Call("lock", k, 0, S)]
    BY <1>3 DEF Get
  <2>2. get'[v].pc = "lock" /\ get'[v].kid \in Kids /\ \A w \in Verifiers \ {v} : get'[w] = get[w]
    BY <1>0, <2>1, CallFact
  <2>3. CallInv(v)'
    BY <2>2 DEF CallInv, Fetching, Exchanging, Hung
  <2>4. \A w \in Verifiers \ {v} : CallInv(w)'
    BY <1>3, <2>2, StillCall DEF Get
  <2> QED BY <1>3, <2>3, <2>4, StillSigns
          DEF CacheInv, Get, CoversKeysBefore, PublishableJWKS, KS!Published, sidecar
<1>4. ASSUME NEW v \in Verifiers, StartRefresh(v) PROVE CacheInv'
  <2>1. get[v].kid \in Kids /\ now \in Nat
    BY <1>4 DEF StartRefresh, CacheInv, CallInv, TypeOK
  <2>2. PICK S \in SUBSET Kids : get' = [get EXCEPT ![v] = Call("fetch", get[v].kid, now, S)]
    BY <1>4 DEF StartRefresh
  <2>3. /\ get'[v].pc = "fetch" /\ get'[v].kid \in Kids /\ get'[v].start = now
        /\ \A w \in Verifiers \ {v} : get'[w] = get[w]
    <3>1. get'[v] = Call("fetch", get[v].kid, now, S) /\ \A w \in Verifiers \ {v} : get'[w] = get[w]
      BY <1>0, <2>2
    <3> QED BY <2>1, <3>1 DEF Call
  <2>4. CallInv(v)'
    BY <1>4, <2>1, <2>3 DEF CallInv, Fetching, Exchanging, Hung, StartRefresh, sidecar
  <2>5. \A w \in Verifiers : ~ Fetching(w)
    BY <1>4 DEF StartRefresh, CacheInv, CallInv
  <2>6. \A w \in Verifiers \ {v} : CallInv(w)'
    BY <1>4, <2>3, <2>5, StillCall DEF StartRefresh
  <2> QED BY <1>4, <2>4, <2>6, StillSigns
          DEF CacheInv, StartRefresh, CoversKeysBefore, PublishableJWKS, KS!Published, sidecar
<1>5. ASSUME NEW v \in Verifiers, Reply(v) PROVE CacheInv'
  <2>1. /\ get[v].kid \in Kids /\ get[v].start \in Nat /\ PublishableJWKS \in SUBSET Kids
        /\ CallInv(v) /\ Fetching(v)
    BY <1>0, <1>5 DEF Reply, CacheInv, CallInv, Calls, Fetching, Exchanging, PublishableJWKS,
       KS!Published
  <2>2. /\ get'[v].pc = "reply" /\ get'[v].kid \in Kids /\ get'[v].start = get[v].start
        /\ get'[v].reply = PublishableJWKS
        /\ \A w \in Verifiers \ {v} : get'[w] = get[w]
    <3>1. /\ get'[v] = Call("reply", get[v].kid, get[v].start, PublishableJWKS)
          /\ \A w \in Verifiers \ {v} : get'[w] = get[w]
      BY <1>0, <1>5 DEF Reply
    <3> QED BY <2>1, <3>1 DEF Call
  <2>3. PublishableJWKS' = PublishableJWKS /\ \A k \in PublishableJWKS : stage[k] # "unused"
    BY <1>5 DEF Reply, PublishableJWKS, KS!Published, sidecar
  <2>4. CallInv(v)'
    BY <1>5, <2>1, <2>2, <2>3 DEF CallInv, Fetching, Exchanging, Hung, CoversKeysBefore, Reply,
       sidecar
  <2>5. \A w \in Verifiers \ {v} : CallInv(w)'
    BY <1>5, <2>2, StillCall DEF Reply
  <2> QED BY <1>5, <2>3, <2>4, <2>5, StillSigns DEF CacheInv, Reply, CoversKeysBefore, sidecar
<1>6. ASSUME NEW v \in Verifiers, AnswerFromCache(v) \/ RefreshDone(v) \/ RefreshFails(v)
      PROVE  CacheInv'
  <2>1. /\ get'[v].pc = "idle" /\ \A w \in Verifiers \ {v} : get'[w] = get[w]
        /\ UNCHANGED <<sidecar, ensured>>
    BY <1>0, <1>6, ReturnedFact DEF AnswerFromCache, RefreshDone, RefreshFails, Answer
  <2>2. CallInv(v)'
    BY <2>1 DEF CallInv, Fetching, Exchanging, Hung
  <2>3. PublishableJWKS' = PublishableJWKS
    BY <2>1 DEF PublishableJWKS, KS!Published, sidecar
  <2>4. CASE AnswerFromCache(v) \/ RefreshFails(v)
    <3>1. \A w \in Verifiers \ {v} : mu' = mu \/ ~ Fetching(w)
      BY <2>4 DEF AnswerFromCache, RefreshFails, CacheInv, CallInv
    <3>2. \A w \in Verifiers \ {v} : CallInv(w)'
      BY <2>1, <2>4, <3>1, StillCall DEF AnswerFromCache, RefreshFails
    <3> QED BY <2>1, <2>2, <2>3, <2>4, <3>2, StillSigns
            DEF CacheInv, AnswerFromCache, RefreshFails, CoversKeysBefore, sidecar
  <2>5. CASE RefreshDone(v)
    <3>1. /\ CallInv(v) /\ Fetching(v) /\ mu = v /\ get[v].pc = "reply"
          /\ get[v].start \in Nat /\ now \in Nat
      BY <2>5 DEF RefreshDone, CacheInv, CallInv, Fetching, Exchanging, Hung, TypeOK
    <3>2. cache'.keys = get[v].reply /\ cache'.lastFetch = now /\ now - MaxFetch <= get[v].start
      BY <2>5, <3>1 DEF RefreshDone, CallInv, Exchanging
    <3>3. \A w \in Verifiers \ {v} : ~ Fetching(w) /\ CallInv(w)
      BY <3>1 DEF CacheInv, CallInv
    <3>4. \A w \in Verifiers \ {v} : CallInv(w)'
      BY <2>1, <3>3 DEF CallInv, Fetching, Exchanging, Hung
    <3>5. CoversKeysBefore(cache.keys, cache.lastFetch - MaxFetch)'
      BY <2>1, <2>3, <3>1, <3>2 DEF CallInv, CoversKeysBefore, sidecar, TypeOK
    <3>6. \A k \in cache'.keys : stage'[k] # "unused"
      BY <2>1, <3>1, <3>2 DEF CallInv, sidecar
    <3>7. cache'.lastFetch <= now'
      BY <2>1, <3>1, <3>2 DEF sidecar
    <3> QED BY <2>1, <2>2, <3>4, <3>5, <3>6, <3>7, StillSigns DEF CacheInv
  <2> QED BY <1>6, <2>4, <2>5
<1>7. ASSUME NEW v \in Verifiers, Hang(v) PROVE CacheInv'
  <2>1. get[v].kid \in Kids /\ mu = v
    BY <1>7 DEF Hang, CacheInv, CallInv, Fetching, Exchanging
  <2>2. get'[v].pc = "hung" /\ get'[v].kid \in Kids /\ \A w \in Verifiers \ {v} : get'[w] = get[w]
    <3>1. /\ get'[v] = Call("hung", get[v].kid, 0, {})
          /\ \A w \in Verifiers \ {v} : get'[w] = get[w]
      BY <1>0, <1>7 DEF Hang
    <3> QED BY <2>1, <3>1 DEF Call
  <2>3. CallInv(v)'
    BY <1>7, <2>1, <2>2 DEF CallInv, Fetching, Exchanging, Hung, Hang
  <2>4. \A w \in Verifiers \ {v} : CallInv(w)'
    BY <1>7, <2>2, StillCall DEF Hang
  <2> QED BY <1>7, <2>3, <2>4, StillSigns
          DEF CacheInv, Hang, CoversKeysBefore, PublishableJWKS, KS!Published, sidecar
<1>8. CASE UNCHANGED vars
  <2>1. \A w \in Verifiers : CallInv(w)'
    BY <1>8, StillCall DEF vars, plugin
  <2> QED BY <1>8, <2>1, StillSigns
          DEF CacheInv, vars, plugin, sidecar, CoversKeysBefore, PublishableJWKS, KS!Published
<1> QED BY <1>1, <1>2, <1>3, <1>4, <1>5, <1>6, <1>7, <1>8 DEF Next, Verify
-----------------------------------------------------------------------------
(* Theorems *)

\* The types and the inductive invariant hold in every reachable state of the
\* plugin's cache and the key service together.
THEOREM CacheInvariant == Spec => [](TypeOK /\ CacheInv)
<1>1. Init => TypeOK /\ CacheInv
  <2> SUFFICES ASSUME Init PROVE TypeOK /\ CacheInv
    OBVIOUS
  <2>1. Returned \in Calls /\ Returned.pc = "idle"
    BY DEF Returned, Call, Calls
  <2>2. get \in [Verifiers -> Calls] /\ \A v \in Verifiers : get[v].pc = "idle"
    BY <2>1 DEF Init
  <2>3. TypeOK
    BY <2>2 DEF Init, KS!Init, KS!Stages, Empty, TypeOK, Calls
  <2>4. \A k \in Kids : SignsAfterOverlap(k)
    BY DEF Init, KS!Init, SignsAfterOverlap
  <2>5. \A v \in Verifiers : CallInv(v)
    BY <2>2 DEF CallInv, Fetching, Exchanging, Hung
  <2> QED BY <2>3, <2>4, <2>5 DEF Init, Empty, CacheInv
<1>2. TypeOK /\ CacheInv /\ [Next]_vars => (TypeOK /\ CacheInv)'
  BY TypeStep, InvStep
<1> QED BY <1>1, <1>2, PTL DEF Spec

\* The cache, the lookups under way and the key service keep their types.
THEOREM TypeCorrect == Spec => []TypeOK
BY CacheInvariant, PTL

\* A refusal that this step adds is of a key that is new and was not announced.
Refusals == \A u \in unknown' \ unknown : u.kid \in ensured /\ u.age <= MinGap + MaxFetch

\* Get answers "not found" from a set of keys that was asked for at most
\* MinGap + MaxFetch ago: the key was published since, so it is younger than
\* the overlap and has signed without announcement.
LEMMA AnswerRefuses ==
    ASSUME TypeOK, CacheInv, NEW v \in Verifiers, NEW keys, NEW t \in Int, Answer(v, keys),
           get[v].kid \in Kids, CoversKeysBefore(keys, t), now <= t + MinGap + MaxFetch
    PROVE  Refusals
<1> USE DurationAssumption, OverlapAssumption
<1> DEFINE k == get[v].kid
<1>1. CASE k \in keys \/ ~ KS!Accepted(k)
  BY <1>1 DEF Answer, Refusals
<1>2. CASE k \notin keys /\ KS!Accepted(k)
  <2>1. stage[k] \in {"active", "retiring"} /\ SignsAfterOverlap(k)
    BY <1>2 DEF CacheInv, SignsAfterOverlap, KS!Accepted, TypeOK, KS!Stages
  <2>2. k \in PublishableJWKS
    BY <2>1 DEF PublishableJWKS, KS!Published
  <2>3. since[k] \in Nat /\ now \in Nat
    BY DEF TypeOK
  <2>4. ~ (since[k] < t)
    BY <1>2, <2>2 DEF CoversKeysBefore
  <2>5. ~ (since[k] + Overlap <= now) /\ now - since[k] <= MinGap + MaxFetch
    BY <2>3, <2>4
  <2>6. k \in ensured
    BY <2>1, <2>5 DEF SignsAfterOverlap
  <2>7. \A u \in unknown' \ unknown : u.kid = k /\ u.age = now - since[k]
    BY DEF Answer
  <2> QED BY <2>5, <2>6, <2>7 DEF Refusals
<1> QED BY <1>1, <1>2

LEMMA RefusalStep ==
    TypeOK /\ CacheInv /\ [Next]_vars => Refusals /\ ensured \subseteq ensured'
<1> SUFFICES ASSUME TypeOK, CacheInv, [Next]_vars PROVE Refusals /\ ensured \subseteq ensured'
  OBVIOUS
<1> USE DurationAssumption
<1>1. ASSUME NEW v \in Verifiers, AnswerFromCache(v) PROVE Refusals
  <2>1. get[v].kid \in Kids
    BY <1>1 DEF AnswerFromCache, CacheInv, CallInv
  <2>2. /\ cache.state = "filled" /\ now <= cache.lastFetch + MinGap
        /\ cache.lastFetch \in Nat /\ now \in Nat
    BY <1>1 DEF AnswerFromCache, OlderThan, TypeOK
  <2>3. /\ CoversKeysBefore(cache.keys, cache.lastFetch - MaxFetch)
        /\ cache.lastFetch - MaxFetch \in Int
        /\ now <= (cache.lastFetch - MaxFetch) + MinGap + MaxFetch
    BY <2>2 DEF CacheInv
  <2> QED BY <1>1, <2>1, <2>2, <2>3, AnswerRefuses DEF AnswerFromCache
<1>2. ASSUME NEW v \in Verifiers, RefreshDone(v) PROVE Refusals
  <2>1. /\ get[v].kid \in Kids /\ get[v].start \in Nat /\ now \in Nat
        /\ CoversKeysBefore(get[v].reply, get[v].start) /\ now <= get[v].start + MaxFetch
    BY <1>2 DEF RefreshDone, CacheInv, CallInv, Fetching, Exchanging, Hung, TypeOK
  <2>2. now <= get[v].start + MinGap + MaxFetch
    BY <2>1
  <2> QED BY <1>2, <2>1, <2>2, AnswerRefuses DEF RefreshDone
<1>3. UNCHANGED unknown => Refusals
  BY DEF Refusals
<1>4. ensured \subseteq ensured'
  BY DEF Next, Verify, Tick, SidecarStep, New, Get, AnswerFromCache, StartRefresh, Reply,
         RefreshDone, RefreshFails, Hang, vars
<1> QED BY <1>1, <1>2, <1>3, <1>4
        DEF Next, Verify, Tick, SidecarStep, New, Get, StartRefresh, Reply, RefreshFails,
            Hang, vars

\* Rotation never makes the plugin refuse a live token of an announced key, and
\* any other key is refused only in its first MinGap + MaxFetch.
THEOREM RefusedKeysAreNew == Spec => []RefusedOnlyWhileNew
<1>1. Init => RefusedOnlyWhileNew
  BY DEF Init, RefusedOnlyWhileNew
<1>2. RefusedOnlyWhileNew /\ Refusals /\ ensured \subseteq ensured' => RefusedOnlyWhileNew'
  BY DEF RefusedOnlyWhileNew, Refusals
<1> QED BY <1>1, <1>2, RefusalStep, CacheInvariant, PTL DEF Spec

\* The write lock is held by the refreshing call and by no other.
THEOREM LockHeldByRefresh == Spec => []LockIsRefresh
<1>1. Init => LockIsRefresh
  BY NobodyAssumption DEF Init, Returned, Call, Fetching, Exchanging, Hung, LockIsRefresh
<1>2. TypeOK /\ CacheInv /\ LockIsRefresh /\ [Next]_vars => LockIsRefresh'
  <2> SUFFICES ASSUME TypeOK, CacheInv, LockIsRefresh, [Next]_vars PROVE LockIsRefresh'
    OBVIOUS
  <2> USE NobodyAssumption
  <2>0. get \in [Verifiers -> Calls]
    BY DEF TypeOK, Calls
  <2>1. CASE UNCHANGED <<mu, get>>
    BY <2>1 DEF LockIsRefresh, Fetching, Exchanging, Hung
  <2>2. CASE New
    BY <2>2 DEF New, Returned, Call, LockIsRefresh, Fetching, Exchanging, Hung
  <2>3. ASSUME NEW v \in Verifiers, Get(v) PROVE LockIsRefresh'
    <3>1. PICK k \in Kids, S \in SUBSET Kids : get' = [get EXCEPT ![v] = Call("lock", k, 0, S)]
      BY <2>3 DEF Get
    <3>2. get'[v].pc = "lock" /\ \A w \in Verifiers \ {v} : get'[w] = get[w]
      BY <2>0, <3>1, CallFact
    <3> QED BY <2>3, <3>2 DEF Get, LockIsRefresh, Fetching, Exchanging, Hung
  <2>4. ASSUME NEW v \in Verifiers, StartRefresh(v) PROVE LockIsRefresh'
    <3>1. get'[v] = Call("fetch", get[v].kid, now, {}) /\ \A w \in Verifiers \ {v} : get'[w] = get[w]
      BY <2>0, <2>4 DEF StartRefresh
    <3>2. get'[v].pc = "fetch"
      BY <3>1 DEF Call
    <3> QED BY <2>4, <3>1, <3>2 DEF StartRefresh, LockIsRefresh, Fetching, Exchanging, Hung
  <2>5. ASSUME NEW v \in Verifiers, Reply(v) PROVE LockIsRefresh'
    <3>1. /\ get'[v] = Call("reply", get[v].kid, get[v].start, PublishableJWKS)
          /\ \A w \in Verifiers \ {v} : get'[w] = get[w]
      BY <2>0, <2>5 DEF Reply
    <3>2. get'[v].pc = "reply"
      BY <3>1 DEF Call
    <3> QED BY <2>5, <3>1, <3>2 DEF Reply, LockIsRefresh, Fetching, Exchanging, Hung
  <2>6. ASSUME NEW v \in Verifiers, AnswerFromCache(v) \/ RefreshDone(v) \/ RefreshFails(v)
        PROVE  LockIsRefresh'
    <3>1. get'[v].pc = "idle" /\ \A w \in Verifiers \ {v} : get'[w] = get[w]
      BY <2>0, <2>6, ReturnedFact DEF AnswerFromCache, RefreshDone, RefreshFails, Answer
    <3>2. get[v].pc = "lock" \/ (mu = v /\ \A w \in Verifiers \ {v} : ~ Fetching(w))
      BY <2>6 DEF AnswerFromCache, RefreshDone, RefreshFails, Fetching, Exchanging, Hung,
         LockIsRefresh
    <3> QED BY <2>6, <3>1, <3>2
            DEF AnswerFromCache, RefreshDone, RefreshFails, LockIsRefresh, Fetching, Exchanging,
                Hung
  <2>7. ASSUME NEW v \in Verifiers, Hang(v) PROVE LockIsRefresh'
    <3>1. /\ get'[v] = Call("hung", get[v].kid, 0, {})
          /\ \A w \in Verifiers \ {v} : get'[w] = get[w]
      BY <2>0, <2>7 DEF Hang
    <3>2. get'[v].pc = "hung"
      BY <3>1 DEF Call
    <3> QED BY <2>7, <3>1, <3>2 DEF Hang, LockIsRefresh, Fetching, Exchanging, Hung
  <2> QED BY <2>1, <2>2, <2>3, <2>4, <2>5, <2>6, <2>7
          DEF Next, Verify, Tick, SidecarStep, plugin, vars
<1> QED BY <1>1, <1>2, CacheInvariant, PTL DEF Spec

\* A refresh never drops a cached key that some live token needs.
THEOREM LiveKeysStayCached == Spec => LiveKeyStaysCached
<1> DEFINE A == \A k \in cache.keys :
                   KS!Accepted(k) => k \in cache'.keys \/ cache'.state = "empty"
<1>1. TypeOK /\ CacheInv /\ [Next]_vars => A
  <2> SUFFICES ASSUME TypeOK, CacheInv, [Next]_vars PROVE A
    OBVIOUS
  <2>1. ASSUME NEW v \in Verifiers, RefreshDone(v) PROVE A
    <3>1. cache'.keys = get[v].reply /\ CallInv(v) /\ get[v].pc = "reply"
      BY <2>1 DEF RefreshDone, CacheInv
    <3>2. \A k \in cache.keys : KS!Accepted(k) => k \in PublishableJWKS
      BY DEF CacheInv, SignsAfterOverlap, KS!Accepted, PublishableJWKS, KS!Published, TypeOK,
             KS!Stages
    <3> QED BY <3>1, <3>2 DEF CallInv
  <2>2. CASE New
    BY <2>2 DEF New, Empty
  <2>3. CASE UNCHANGED cache
    BY <2>3
  <2> QED BY <2>1, <2>2, <2>3 DEF Next, Verify, Tick, SidecarStep, Get, AnswerFromCache,
             StartRefresh, Reply, RefreshFails, Hang, plugin, vars
<1> QED BY <1>1, CacheInvariant, PTL DEF Spec, LiveKeyStaysCached
=============================================================================
