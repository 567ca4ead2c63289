-------------------------- MODULE TokenPathProofs --------------------------
(***************************************************************************)
(* Proofs about TokenPath: the rotator behind the plugin's cache.          *)
(***************************************************************************)
EXTENDS TokenPath, KeyRotationProofs

JCP == INSTANCE JwksCacheProofs WITH
    stage <- [k \in Kids |-> keys[k].status], since <- [k \in Kids |-> keys[k].created],
    now <- clock, lastExp <- lastExp

\* The constants of the plugin satisfy what JwksCache assumes of them.
LEMMA PluginConstants ==
    JC!NobodyAssumption /\ JC!DurationAssumption /\ JC!OverlapAssumption
BY PluginAssumption, DurationAssumption, BoundAssumption
   DEF JC!NobodyAssumption, JC!DurationAssumption, JC!OverlapAssumption

\* JwksCache and the copy of it that the module of its proofs extends are the
\* same specification.
LEMMA SameSpecification ==
    (JC!Init <=> JCP!Init) /\ (JC!Next <=> JCP!Next)
<1>1. JC!Init <=> JCP!Init
  BY DEF JC!Init, JCP!Init, JC!KS!Init, JCP!KS!Init, JC!Empty, JCP!Empty,
         JC!Returned, JCP!Returned, JC!Call, JCP!Call
<1>2. JC!Tick <=> JCP!Tick
  BY DEF JC!Tick, JCP!Tick, JC!Exchanging, JCP!Exchanging, JC!KS!Tick, JCP!KS!Tick,
         JC!plugin, JCP!plugin
<1>3. JC!SidecarStep <=> JCP!SidecarStep
  <2>1. /\ \A k \in Kids : JC!KS!Create(k) <=> JCP!KS!Create(k)
        /\ \A k \in Kids : JC!KS!Announce(k) <=> JCP!KS!Announce(k)
        /\ \A k \in Kids : JC!KS!Retire(k) <=> JCP!KS!Retire(k)
        /\ \A k \in Kids : JC!KS!Promote(k) <=> JCP!KS!Promote(k)
    BY DEF JC!KS!Create, JCP!KS!Create, JC!KS!Announce, JCP!KS!Announce, JC!KS!Retire,
           JCP!KS!Retire, JC!KS!Promote, JCP!KS!Promote, JC!KS!NoneIn, JCP!KS!NoneIn
  <2>2. \A k \in Kids : JC!KS!Sign(k) <=> JCP!KS!Sign(k)
    BY DEF JC!KS!Sign, JCP!KS!Sign
  <2>3. \A S \in SUBSET Kids : JC!KS!Drop(S) <=> JCP!KS!Drop(S)
    BY DEF JC!KS!Drop, JCP!KS!Drop, JC!KS!Accepted, JCP!KS!Accepted
  <2> QED BY <2>1, <2>2, <2>3 DEF JC!SidecarStep, JCP!SidecarStep, JC!plugin, JCP!plugin
<1>4. JC!New <=> JCP!New
  BY DEF JC!New, JCP!New, JC!Empty, JCP!Empty, JC!Returned, JCP!Returned, JC!Call, JCP!Call,
         JC!sidecar, JCP!sidecar
<1>5. ASSUME NEW v \in Verifiers PROVE JC!Get(v) <=> JCP!Get(v)
  BY DEF JC!Get, JCP!Get, JC!Miss, JCP!Miss, JC!OlderThan, JCP!OlderThan, JC!Call, JCP!Call,
         JC!sidecar, JCP!sidecar
<1>6. ASSUME NEW v \in Verifiers PROVE JC!Verify(v) <=> JCP!Verify(v)
  <2>1. \A S : JC!Answer(v, S) <=> JCP!Answer(v, S)
    BY DEF JC!Answer, JCP!Answer, JC!KS!Accepted, JCP!KS!Accepted, JC!Returned, JCP!Returned,
           JC!Call, JCP!Call
  <2>2. JC!AnswerFromCache(v) <=> JCP!AnswerFromCache(v)
    BY <2>1 DEF JC!AnswerFromCache, JCP!AnswerFromCache, JC!OlderThan, JCP!OlderThan,
           JC!sidecar, JCP!sidecar
  <2>3. JC!StartRefresh(v) <=> JCP!StartRefresh(v)
    BY DEF JC!StartRefresh, JCP!StartRefresh, JC!OlderThan, JCP!OlderThan, JC!Call, JCP!Call,
           JC!sidecar, JCP!sidecar
  <2>4. JC!Reply(v) <=> JCP!Reply(v)
    BY DEF JC!Reply, JCP!Reply, JC!Call, JCP!Call, JC!PublishableJWKS, JCP!PublishableJWKS,
           JC!KS!Published, JCP!KS!Published, JC!sidecar, JCP!sidecar
  <2>5. JC!RefreshDone(v) <=> JCP!RefreshDone(v)
    BY <2>1 DEF JC!RefreshDone, JCP!RefreshDone, JC!sidecar, JCP!sidecar
  <2>6. JC!RefreshFails(v) <=> JCP!RefreshFails(v)
    BY DEF JC!RefreshFails, JCP!RefreshFails, JC!Fetching, JCP!Fetching, JC!Exchanging,
           JCP!Exchanging, JC!Hung, JCP!Hung, JC!Returned, JCP!Returned, JC!Call, JCP!Call,
           JC!sidecar, JCP!sidecar
  <2>7. JC!Hang(v) <=> JCP!Hang(v)
    BY DEF JC!Hang, JCP!Hang, JC!Exchanging, JCP!Exchanging, JC!Call, JCP!Call,
           JC!sidecar, JCP!sidecar
  <2> QED BY <2>2, <2>3, <2>4, <2>5, <2>6, <2>7 DEF JC!Verify, JCP!Verify
<1> QED
  BY <1>1, <1>2, <1>3, <1>4, <1>5, <1>6 DEF JC!Next, JCP!Next

-----------------------------------------------------------------------------
(* The sidecar *)

\* The plugin does not reach into the sidecar: every step is one of KeyRotation
\* or leaves its variables alone.
LEMMA SidecarAlone == [PathNext]_pathVars => [Next]_vars
BY DEF PathNext, PathTick, SidecarStep, EnsureStep, PluginStep, Next, pathVars

\* So the sidecar behaves as KeyRotation says, and keeps its inductive invariant.
THEOREM SidecarInvariant == PathSpec => [](TypeOK /\ RotationInv)
<1>1. PathSpec => Spec
  BY SidecarAlone, PTL DEF PathSpec, PathInit, Spec
<1> QED BY <1>1, RotationInvariant

-----------------------------------------------------------------------------
(* Refinement *)

\* The key service of KeyRotation and the one inside JwksCache are the same.
LEMMA SameKeyService ==
    /\ KS!Tick <=> JC!KS!Tick
    /\ \A k \in Kids : /\ KS!Create(k) <=> JC!KS!Create(k)
                       /\ KS!Announce(k) <=> JC!KS!Announce(k)
                       /\ KS!Retire(k) <=> JC!KS!Retire(k)
                       /\ KS!Promote(k) <=> JC!KS!Promote(k)
                       /\ KS!Sign(k) <=> JC!KS!Sign(k)
    /\ \A S \in SUBSET Kids : KS!Drop(S) <=> JC!KS!Drop(S)
<1>1. KS!Tick <=> JC!KS!Tick
  BY DEF KS!Tick, JC!KS!Tick
<1>2. ASSUME NEW k \in Kids
      PROVE  /\ KS!Create(k) <=> JC!KS!Create(k)
             /\ KS!Announce(k) <=> JC!KS!Announce(k)
             /\ KS!Retire(k) <=> JC!KS!Retire(k)
             /\ KS!Promote(k) <=> JC!KS!Promote(k)
  BY DEF KS!Create, JC!KS!Create, KS!Announce, JC!KS!Announce, KS!Retire, JC!KS!Retire,
         KS!Promote, JC!KS!Promote, KS!NoneIn, JC!KS!NoneIn
<1>3. ASSUME NEW k \in Kids PROVE KS!Sign(k) <=> JC!KS!Sign(k)
  BY DEF KS!Sign, JC!KS!Sign
<1>4. ASSUME NEW S \in SUBSET Kids PROVE KS!Drop(S) <=> JC!KS!Drop(S)
  BY DEF KS!Drop, JC!KS!Drop, KS!Accepted, JC!KS!Accepted
<1> QED BY <1>1, <1>2, <1>3, <1>4

\* A key signs without having been announced only through Ensure's INSERT.
LEMMA OnlyEnsureCreates ==
    ASSUME TypeOK, RotationInv, SidecarStep, NEW k \in Kids, keys[k].status = "unused"
    PROVE  keys'[k].status # "active"
<1>1. CASE UNCHANGED keys
  BY <1>1
<1>2. CASE RetireOld
  BY <1>2 DEF RetireOld, UpdateSigningKeyStatus, Row, TypeOK
<1>3. CASE PromoteNext
  <2>1. rot.next \in Kids /\ rot.next # k
    BY <1>3 DEF PromoteNext, RotationInv, RotatorInv
  <2> QED BY <1>3, <2>1 DEF PromoteNext, UpdateSigningKeyStatus, TypeOK
<1>4. CASE InsertNext
  BY <1>4 DEF InsertNext, InsertSigningKey, Row, HasStatus, TypeOK
<1>5. CASE DeleteExpiredSigningKeys
  BY <1>5 DEF DeleteExpiredSigningKeys, Row
<1> QED
  BY <1>1, <1>2, <1>3, <1>4, <1>5
     DEF SidecarStep, Rotate, Crash, Boot, RotateStart, RotateList, RotateCleanup, RotateError,
         JanitorDelete, MintReadKey, MintSign

\* Ensure's INSERT creates one key, and that key enters the history.
LEMMA EnsureCreates ==
    ASSUME TypeOK, RotationInv, EnsureStep
    PROVE  \E k \in Kids : KS!Create(k) /\ ensured' = ensured \cup {k}
<1> DEFINE stage == [k \in Kids |-> keys[k].status]
           since == [k \in Kids |-> keys[k].created]
<1>1. PICK k \in Kids :
        /\ keys[k].status = "unused"
        /\ keys' = [keys EXCEPT ![k] = Row("active", clock, InitialRetiresAt(rot.now))]
  BY DEF EnsureStep, EnsureInsert, InsertSigningKey, HasStatus
<1>2. stage' = [stage EXCEPT ![k] = "active"] /\ since' = [since EXCEPT ![k] = clock]
  BY <1>1 DEF Row, TypeOK
<1>3. KS!Create(k)
  BY <1>1, <1>2 DEF EnsureStep, EnsureInsert, KS!Create, KS!NoneIn, RotationInv, RotatorInv
<1>4. {j \in Kids : keys[j].status # "active" /\ keys'[j].status = "active"} = {k}
  BY <1>1 DEF Row, TypeOK
<1> QED BY <1>3, <1>4 DEF EnsureStep

\* Every step of the two processes is a step of JwksCache or leaves its
\* variables unchanged.
LEMMA PathSimulation ==
    TypeOK /\ RotationInv /\ [PathNext]_pathVars => [JC!Next]_JC!vars
<1> SUFFICES ASSUME TypeOK, RotationInv, [PathNext]_pathVars PROVE [JC!Next]_JC!vars
  OBVIOUS
<1>1. CASE PathTick
  <2>1. KS!Tick
    BY <1>1 DEF PathTick, Tick, KS!Tick
  <2> QED BY <1>1, <2>1, SameKeyService
          DEF PathTick, Tick, JC!Tick, JC!Next, JC!plugin, pluginVars
<1>2. CASE EnsureStep
  <2>1. \E k \in Kids : JC!KS!Create(k) /\ ensured' = ensured \cup {k}
    BY <1>2, EnsureCreates, SameKeyService
  <2> QED BY <1>2, <2>1 DEF EnsureStep, JC!SidecarStep, JC!Next, JC!plugin, pluginVars
<1>3. CASE SidecarStep
  <2>0. UNCHANGED <<cache, mu, get, unknown, ensured>> /\ clock' = clock /\ clock \in Nat
    BY <1>3 DEF SidecarStep, pluginVars, Crash, Boot, Rotate, RotateStart, RotateList, RetireOld,
           PromoteNext, InsertNext, RotateCleanup, RotateError, JanitorDelete, MintReadKey,
           MintSign, TypeOK
  <2>1. [KS!Next]_KS!svars
    BY <1>3, StepSimulation DEF SidecarStep, Next
  <2>2. CASE UNCHANGED KS!svars
    BY <2>0, <2>2 DEF KS!svars, JC!vars, JC!sidecar, JC!plugin
  <2>3. ~ KS!Tick
    BY <2>0 DEF KS!Tick
  <2>4. ASSUME NEW k \in Kids PROVE ~ KS!Create(k)
    <3>1. SUFFICES ASSUME KS!Create(k) PROVE FALSE
      OBVIOUS
    <3>2. keys[k].status = "unused" /\ keys'[k].status = "active"
      BY <3>1 DEF KS!Create
    <3> QED BY <1>3, <3>2, OnlyEnsureCreates
  <2>5. CASE KS!Next
    <3>1. \/ \E k \in Kids : \/ JC!KS!Announce(k) \/ JC!KS!Retire(k)
                             \/ JC!KS!Promote(k) \/ JC!KS!Sign(k)
          \/ \E S \in SUBSET Kids : JC!KS!Drop(S)
      BY <2>3, <2>4, <2>5, SameKeyService DEF KS!Next
    <3> QED BY <2>0, <3>1 DEF JC!SidecarStep, JC!Next, JC!plugin
  <2> QED BY <2>1, <2>2, <2>5
<1>4. CASE PluginStep
  BY <1>4 DEF PluginStep, JC!Next
<1>5. CASE UNCHANGED pathVars
  BY <1>5 DEF pathVars, vars, pluginVars, JC!vars, JC!sidecar, JC!plugin
<1> QED BY <1>1, <1>2, <1>3, <1>4, <1>5 DEF PathNext

\* The rotator's statements, crashes and faults included, are for the plugin
\* the key service that JwksCache was checked and proved against.
THEOREM JwksCacheImplemented == PathSpec => ImplementsJwksCache
<1>1. PathInit => JC!Init
  BY DEF PathInit
<1> QED
  BY <1>1, PathSimulation, SidecarInvariant, PTL DEF PathSpec, JC!Spec, ImplementsJwksCache

-----------------------------------------------------------------------------
(* What holds of the two processes together *)

\* The theorems about JwksCache hold of the plugin beside the real rotator.
LEMMA PluginInvariants ==
    PathSpec => [](JCP!TypeOK /\ JCP!RefusedOnlyWhileNew)
<1>1. PathSpec => JCP!Spec
  <2>1. PathInit => JCP!Init
    BY SameSpecification DEF PathInit
  <2>2. TypeOK /\ RotationInv /\ [PathNext]_pathVars => [JCP!Next]_JCP!vars
    BY PathSimulation, SameSpecification
       DEF JC!vars, JCP!vars, JC!sidecar, JCP!sidecar, JC!plugin, JCP!plugin
  <2> QED BY <2>1, <2>2, SidecarInvariant, PTL DEF PathSpec, JCP!Spec
<1> QED
  BY <1>1, PluginConstants, JCP!TypeCorrect, JCP!RefusedKeysAreNew, PTL

\* Both processes keep their types.
THEOREM PathTypeCorrect == PathSpec => []PathTypeOK
<1>1. JCP!TypeOK => JC!TypeOK
  BY DEF JC!TypeOK, JCP!TypeOK, JC!KS!Stages, JCP!KS!Stages
<1> QED BY <1>1, PluginInvariants, SidecarInvariant, PTL DEF PathTypeOK

\* Whenever and wherever the sidecar crashes or a statement fails, a live token
\* is refused only if its key came from Ensure and is new.
THEOREM LiveTokensVerify == PathSpec => []LiveTokenVerifies
<1>1. JCP!RefusedOnlyWhileNew => LiveTokenVerifies
  BY DEF JCP!RefusedOnlyWhileNew, LiveTokenVerifies
<1> QED BY <1>1, PluginInvariants, PTL
=============================================================================
