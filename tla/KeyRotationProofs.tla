------------------------- MODULE KeyRotationProofs -------------------------
(***************************************************************************)
(* Proofs about KeyRotation for every set of keys, every number of         *)
(* requests and every setting of the durations that GraceAssumption        *)
(* allows.                                                                 *)
(***************************************************************************)
EXTENDS KeyRotation, TLAPS

\* Every step keeps the variables in their types.
LEMMA TypeStep == TypeOK /\ [Next]_vars => TypeOK'
<1> SUFFICES ASSUME TypeOK, [Next]_vars PROVE TypeOK'
  OBVIOUS
<1> USE NoKidAssumption, DurationAssumption, BoundAssumption
<1>1. CASE Tick
  BY <1>1 DEF TypeOK, Tick
<1>2. CASE Crash
  BY <1>2 DEF TypeOK, Crash, Parked, Rotator, NotMinting, BootStates
<1>3. CASE Boot
  BY <1>3 DEF TypeOK, Boot, Parked, Rotator, BootStates
<1>4. CASE EnsureInsert
  <2>1. PICK k \in Kids : keys' = [keys EXCEPT ![k] = Row("active", clock, InitialRetiresAt(rot.now))]
    BY <1>4 DEF EnsureInsert, InsertSigningKey, HasStatus
  <2>2. Row("active", clock, InitialRetiresAt(rot.now)) \in
          [status : {"unused", "next", "active", "retiring", "gone"}, created : Nat, retires : Nat]
    BY DEF TypeOK, Row, InitialRetiresAt
  <2> QED BY <1>4, <2>1, <2>2 DEF TypeOK, EnsureInsert, Parked, Rotator
<1>5. CASE RotateStart
  BY <1>5 DEF TypeOK, RotateStart, Rotator, RotateStates
<1>6. CASE RotateList
  <2>1. PICK active \in Kids \cup {NoKid}, next \in Kids \cup {NoKid} :
          rot' = Rotator(AfterList(active, next), rot.now, rot.frac, active, next)
    BY <1>6 DEF RotateList, Pointers, HasStatus
  <2>2. AfterList(active, next) \in RotateStates
    BY DEF AfterList, AfterPromotion, RotateStates
  <2> QED BY <1>6, <2>1, <2>2 DEF TypeOK, RotateList, Rotator
<1>7. CASE RetireOld
  <2>1. Row("retiring", keys[rot.active].created, RetiresAt(rot.now)).retires \in Nat
    BY DEF TypeOK, Row, RetiresAt
  <2> QED BY <1>7, <2>1 DEF TypeOK, RetireOld, UpdateSigningKeyStatus, Row, RotateStates
<1>8. CASE PromoteNext
  <2>1. AfterPromotion(rot.next, NoKid) \in RotateStates
    BY DEF AfterPromotion, RotateStates
  <2>2. rot' \in [pc : BootStates \cup RotateStates \cup {"idle"}, now : Nat, frac : {0, 1},
                active : Kids \cup {NoKid}, next : Kids \cup {NoKid}]
    BY <1>8, <2>1 DEF TypeOK, PromoteNext, Rotator
  <2>3. keys' \in [Kids -> [status : {"unused", "next", "active", "retiring", "gone"},
                          created : Nat, retires : Nat]]
    BY <1>8 DEF TypeOK, PromoteNext, UpdateSigningKeyStatus, Row
  <2> QED BY <1>8, <2>2, <2>3 DEF TypeOK, PromoteNext
<1>9. CASE InsertNext
  <2>1. PICK k \in Kids : keys' = [keys EXCEPT ![k] = Row("next", clock, InitialRetiresAt(rot.now))]
    BY <1>9 DEF InsertNext, InsertSigningKey, HasStatus
  <2>2. Row("next", clock, InitialRetiresAt(rot.now)) \in
          [status : {"unused", "next", "active", "retiring", "gone"}, created : Nat, retires : Nat]
    BY DEF TypeOK, Row, InitialRetiresAt
  <2> QED BY <1>9, <2>1, <2>2 DEF TypeOK, InsertNext, RotateStates
<1>10. CASE RotateCleanup
  BY <1>10 DEF TypeOK, RotateCleanup, DeleteExpiredSigningKeys, Row, Parked, Rotator
<1>11. CASE RotateError
  BY <1>11 DEF TypeOK, RotateError, Parked, Rotator
<1>12. CASE JanitorDelete
  BY <1>12 DEF TypeOK, JanitorDelete, DeleteExpiredSigningKeys, Row
<1>13. ASSUME NEW m \in Minters, MintReadKey(m) PROVE TypeOK'
  BY <1>13 DEF TypeOK, MintReadKey, HasStatus
<1>14. ASSUME NEW m \in Minters, MintSign(m) PROVE TypeOK'
  BY <1>14 DEF TypeOK, MintSign, NotMinting
<1>15. CASE UNCHANGED vars
  BY <1>15 DEF TypeOK, vars
<1> QED
  BY <1>1, <1>2, <1>3, <1>4, <1>5, <1>6, <1>7, <1>8, <1>9, <1>10, <1>11, <1>12, <1>13,
     <1>14, <1>15 DEF Next, Rotate

\* Type correctness of the rotator, the signing_keys table and the requests.
THEOREM TypeCorrect == Spec => []TypeOK
<1>1. Init => TypeOK
  BY DEF Init, TypeOK, Row, Parked, Rotator, NotMinting, BootStates
<1> QED
  BY <1>1, TypeStep, PTL DEF Spec
-----------------------------------------------------------------------------
(* The inductive invariant *)

\* A DELETE of expired rows removes retiring keys only, and only keys whose
\* tokens and requests are over.
LEMMA DeleteKeepsInv ==
    ASSUME TypeOK, RotationInv, DeleteExpiredSigningKeys,
           UNCHANGED <<clock, mint, lastExp>>
    PROVE  /\ OneActiveOneNext' /\ MintInv' /\ TokenInv'
           /\ \A k \in Kids : keys[k].status # "retiring" => keys'[k] = keys[k]
           /\ \A k \in Kids, s \in {"active", "next"} :
                 keys'[k].status = s <=> keys[k].status = s
<1> USE NoKidAssumption, DurationAssumption, GraceAssumption
<1>1. \A k \in Kids : keys'[k] = IF ExpiredRow(keys[k]) THEN Row("gone", 0, 0) ELSE keys[k]
  BY DEF DeleteExpiredSigningKeys
<1>2. \A k \in Kids : keys[k].status # "retiring" => keys'[k] = keys[k]
  BY <1>1 DEF ExpiredRow
<1>3. \A k \in Kids, s \in {"active", "next"} : keys'[k].status = s <=> keys[k].status = s
  BY <1>1 DEF ExpiredRow, Row
<1>4. OneActiveOneNext'
  <2> SUFFICES ASSUME NEW k1 \in Kids, NEW k2 \in Kids,
                      keys'[k1].status = keys'[k2].status,
                      keys'[k1].status \in {"active", "next"}
               PROVE  k1 = k2
    BY DEF OneActiveOneNext
  <2>1. keys[k1].status = keys'[k1].status /\ keys[k2].status = keys'[k1].status
    BY <1>3
  <2> QED BY <2>1 DEF OneActiveOneNext, RotationInv
<1>5. MintInv'
  <2> SUFFICES ASSUME NEW m \in Minters, mint[m].kid # NoKid
               PROVE  keys'[mint[m].kid] = keys[mint[m].kid]
    BY DEF MintInv, RotationInv
  <2>1. mint[m].kid \in Kids /\ mint[m].since \in Nat
    BY DEF TypeOK
  <2>2. ~ ExpiredRow(keys[mint[m].kid])
    BY <2>1 DEF MintInv, RotationInv, ExpiredRow, TypeOK
  <2> QED BY <1>1, <2>1, <2>2
<1>6. TokenInv'
  <2> SUFFICES ASSUME NEW k \in Kids, ExpiredRow(keys[k]), keys'[k] = Row("gone", 0, 0)
               PROVE  ~ Accepted(k)
    BY <1>1 DEF TokenInv, RotationInv, Row, Accepted
  <2> QED BY DEF TokenInv, RotationInv, ExpiredRow, Accepted, TypeOK
<1> QED BY <1>2, <1>3, <1>4, <1>5, <1>6

\* Every step of the rotator, the janitor, a request, a crash or the clock
\* preserves the inductive invariant.
LEMMA InvStep == TypeOK /\ RotationInv /\ [Next]_vars => RotationInv'
<1> SUFFICES ASSUME TypeOK, RotationInv, [Next]_vars PROVE RotationInv'
  OBVIOUS
<1> USE NoKidAssumption, DurationAssumption, GraceAssumption
<1>1. CASE Tick
  <2>1. OneActiveOneNext' BY <1>1 DEF Tick, RotationInv, OneActiveOneNext
  <2>2. RotatorInv' BY <1>1 DEF Tick, RotationInv, RotatorInv, TypeOK
  <2>3. MintInv' BY <1>1 DEF Tick, RotationInv, MintInv, TypeOK
  <2>4. TokenInv' BY <1>1 DEF Tick, RotationInv, TokenInv, Accepted, TypeOK
  <2> QED BY <2>1, <2>2, <2>3, <2>4 DEF RotationInv
<1>2. CASE Crash
  <2>1. OneActiveOneNext' /\ TokenInv'
    BY <1>2 DEF Crash, RotationInv, OneActiveOneNext, TokenInv, Accepted
  <2>2. RotatorInv' BY <1>2 DEF Crash, Parked, Rotator, RotatorInv, RotateStates
  <2>3. MintInv' BY <1>2 DEF Crash, MintInv, NotMinting
  <2> QED BY <2>1, <2>2, <2>3 DEF RotationInv
<1>3. CASE Boot
  <2>1. OneActiveOneNext' /\ TokenInv' /\ MintInv'
    BY <1>3 DEF Boot, RotationInv, OneActiveOneNext, TokenInv, Accepted, MintInv
  <2>2. RotatorInv' BY <1>3 DEF Boot, Parked, Rotator, RotatorInv, RotateStates, HasStatus
  <2> QED BY <2>1, <2>2 DEF RotationInv
<1>4. CASE EnsureInsert
  <2>1. PICK k \in Kids :
          /\ keys[k].status = "unused"
          /\ keys' = [keys EXCEPT ![k] = Row("active", clock, InitialRetiresAt(rot.now))]
    BY <1>4 DEF EnsureInsert, InsertSigningKey, HasStatus
  <2>2. /\ \A j \in Kids : keys[j].status # "active"
        /\ \A j \in Kids \ {k} : keys'[j] = keys[j]
        /\ keys'[k].status = "active"
    BY <1>4, <2>1 DEF EnsureInsert, RotationInv, RotatorInv, TypeOK, Row
  <2>3. OneActiveOneNext' BY <2>1, <2>2 DEF RotationInv, OneActiveOneNext
  <2>4. RotatorInv' BY <1>4 DEF EnsureInsert, Parked, Rotator, RotatorInv, RotateStates
  <2>5. MintInv'
    <3> SUFFICES ASSUME NEW m \in Minters, mint[m].kid # NoKid PROVE mint[m].kid \in Kids \ {k}
      BY <1>4, <2>2 DEF EnsureInsert, MintInv, RotationInv
    <3> QED BY <2>1 DEF TypeOK, MintInv, RotationInv
  <2>6. TokenInv' BY <1>4, <2>1, <2>2 DEF EnsureInsert, TokenInv, Accepted, RotationInv
  <2> QED BY <2>3, <2>4, <2>5, <2>6 DEF RotationInv
<1>5. CASE RotateStart
  <2>1. OneActiveOneNext' /\ TokenInv' /\ MintInv'
    BY <1>5 DEF RotateStart, RotationInv, OneActiveOneNext, TokenInv, Accepted, MintInv
  <2>2. rot'.pc = "list" /\ rot'.now = clock
    BY <1>5 DEF RotateStart, Rotator
  <2>3. RotatorInv' BY <1>5, <2>2 DEF RotateStart, RotatorInv, TypeOK
  <2> QED BY <2>1, <2>3 DEF RotationInv
<1>6. CASE RotateList
  <2>1. OneActiveOneNext' /\ TokenInv' /\ MintInv'
    BY <1>6 DEF RotateList, RotationInv, OneActiveOneNext, TokenInv, Accepted, MintInv
  <2>2. PICK active \in Pointers("active"), next \in Pointers("next") :
          rot' = Rotator(AfterList(active, next), rot.now, rot.frac, active, next)
    BY <1>6 DEF RotateList
  <2>3. /\ active # NoKid => active \in Kids /\ keys[active].status = "active"
        /\ next # NoKid => next \in Kids /\ keys[next].status = "next"
        /\ next = NoKid => \A k \in Kids : keys[k].status # "next"
    BY DEF Pointers, HasStatus
  <2>4. /\ rot'.pc = AfterList(active, next) /\ rot'.now = rot.now /\ rot'.frac = rot.frac
        /\ rot'.active = active /\ rot'.next = next
    BY <2>2 DEF Rotator
  <2>5. rot.now <= clock /\ clock <= rot.now + MaxDelay
    BY <1>6 DEF RotateList, RotationInv, RotatorInv, RotateStates
  <2>6. CASE rot'.pc = "retire"
    <3>1. active # NoKid /\ next # NoKid /\ PromotionDue(next)
      BY <2>4, <2>6 DEF AfterList, AfterPromotion
    <3> QED BY <1>6, <2>1, <2>3, <2>4, <2>5, <2>6, <3>1
            DEF RotateList, RotatorInv, RotationInv, PromotionDue, Before
  <2>7. CASE rot'.pc = "generate"
    <3>1. next = NoKid
      BY <2>4, <2>7 DEF AfterList, AfterPromotion
    <3> QED BY <1>6, <2>1, <2>3, <2>4, <2>5, <2>7, <3>1 DEF RotateList, RotatorInv, RotationInv
  <2>8. CASE rot'.pc = "cleanup"
    BY <1>6, <2>1, <2>4, <2>5, <2>8 DEF RotateList, RotatorInv, RotationInv
  <2> QED BY <2>1, <2>4, <2>6, <2>7, <2>8 DEF RotationInv, AfterList, AfterPromotion<1>7. CASE RetireOld
  <2> DEFINE old == rot.active
  <2>1. /\ old \in Kids /\ keys[old].status = "active"
        /\ rot.next \in Kids /\ keys[rot.next].status = "next"
        /\ keys[rot.next].created + Overlap < rot.now + rot.frac
        /\ rot.now <= clock /\ clock <= rot.now + MaxDelay
    BY <1>7 DEF RetireOld, RotationInv, RotatorInv, RotateStates
  <2>2. /\ \A j \in Kids \ {old} : keys'[j] = keys[j]
        /\ keys'[old].status = "retiring"
        /\ keys'[old].retires = rot.now + AccessTTL + RetireGrace
    BY <1>7, <2>1 DEF RetireOld, UpdateSigningKeyStatus, Row, RetiresAt, TypeOK
  <2>3. OneActiveOneNext' BY <2>1, <2>2 DEF RotationInv, OneActiveOneNext
  <2>4. \A j \in Kids : keys'[j].status # "active"
    BY <2>1, <2>2 DEF RotationInv, OneActiveOneNext
  <2>5. RotatorInv'
    <3>1. rot'.pc = "promote" /\ rot'.next = rot.next /\ rot'.now = rot.now /\ rot'.frac = rot.frac
      BY <1>7 DEF RetireOld, TypeOK
    <3> QED BY <1>7, <2>1, <2>2, <2>4, <3>1 DEF RetireOld, RotatorInv
  <2>6. MintInv'
    <3> SUFFICES ASSUME NEW m \in Minters, mint[m].kid = old
                 PROVE  mint[m].since + MaxDelay + AccessTTL + ClockSkew < keys'[old].retires
      BY <1>7, <2>2 DEF RetireOld, MintInv, RotationInv, TypeOK
    <3>1. mint[m].since \in Nat /\ mint[m].since <= clock
      BY <2>1 DEF MintInv, RotationInv, TypeOK
    <3> QED BY <2>1, <2>2, <3>1 DEF TypeOK
  <2>7. TokenInv'
    <3>1. lastExp[old] \in Nat /\ lastExp[old] <= clock + AccessTTL
      BY <2>1 DEF TokenInv, RotationInv, TypeOK
    <3>2. lastExp[old] + ClockSkew < keys'[old].retires
      BY <2>1, <2>2, <3>1 DEF TypeOK
    <3> QED BY <1>7, <2>2, <3>2 DEF RetireOld, TokenInv, Accepted, RotationInv
  <2> QED BY <2>3, <2>5, <2>6, <2>7 DEF RotationInv
<1>8. CASE PromoteNext
  <2>1. /\ rot.next \in Kids /\ keys[rot.next].status = "next"
        /\ \A k \in Kids : keys[k].status # "active"
        /\ rot.now <= clock /\ clock <= rot.now + MaxDelay
    BY <1>8 DEF PromoteNext, RotationInv, RotatorInv, RotateStates
  <2>2. /\ \A j \in Kids \ {rot.next} : keys'[j] = keys[j]
        /\ keys'[rot.next].status = "active"
    BY <1>8, <2>1 DEF PromoteNext, UpdateSigningKeyStatus, Row, TypeOK
  <2>3. OneActiveOneNext' BY <2>1, <2>2 DEF RotationInv, OneActiveOneNext
  <2>4. \A j \in Kids : keys'[j].status # "next"
    BY <2>1, <2>2 DEF RotationInv, OneActiveOneNext
  <2>5. RotatorInv'
    <3>1. rot'.pc \in {"generate", "cleanup"} /\ rot'.now = rot.now
      BY <1>8 DEF PromoteNext, Rotator, AfterPromotion
    <3> QED BY <1>8, <2>1, <2>4, <3>1 DEF PromoteNext, RotatorInv
  <2>6. MintInv'
    <3> SUFFICES ASSUME NEW m \in Minters, mint[m].kid # NoKid
                 PROVE  mint[m].kid \in Kids \ {rot.next}
      BY <1>8, <2>2 DEF PromoteNext, MintInv, RotationInv
    <3> QED BY <2>1 DEF TypeOK, MintInv, RotationInv
  <2>7. TokenInv' BY <1>8, <2>1, <2>2 DEF PromoteNext, TokenInv, Accepted, RotationInv
  <2> QED BY <2>3, <2>5, <2>6, <2>7 DEF RotationInv
<1>9. CASE InsertNext
  <2>1. PICK k \in Kids :
          /\ keys[k].status = "unused"
          /\ keys' = [keys EXCEPT ![k] = Row("next", clock, InitialRetiresAt(rot.now))]
    BY <1>9 DEF InsertNext, InsertSigningKey, HasStatus
  <2>2. /\ \A j \in Kids : keys[j].status # "next"
        /\ \A j \in Kids \ {k} : keys'[j] = keys[j]
        /\ keys'[k].status = "next"
    BY <1>9, <2>1 DEF InsertNext, RotationInv, RotatorInv, TypeOK, Row
  <2>3. OneActiveOneNext' BY <2>1, <2>2 DEF RotationInv, OneActiveOneNext
  <2>4. RotatorInv'
    <3>1. rot'.pc = "cleanup" /\ rot'.now = rot.now
      BY <1>9 DEF InsertNext, TypeOK
    <3>2. rot.now <= clock /\ clock <= rot.now + MaxDelay
      BY <1>9 DEF InsertNext, RotationInv, RotatorInv, RotateStates
    <3> QED BY <1>9, <3>1, <3>2 DEF InsertNext, RotatorInv
  <2>5. MintInv'
    <3> SUFFICES ASSUME NEW m \in Minters, mint[m].kid # NoKid PROVE mint[m].kid \in Kids \ {k}
      BY <1>9, <2>2 DEF InsertNext, MintInv, RotationInv
    <3> QED BY <2>1 DEF TypeOK, MintInv, RotationInv
  <2>6. TokenInv' BY <1>9, <2>1, <2>2 DEF InsertNext, TokenInv, Accepted, RotationInv
  <2> QED BY <2>3, <2>4, <2>5, <2>6 DEF RotationInv
<1>10. CASE RotateCleanup
  <2>1. OneActiveOneNext' /\ MintInv' /\ TokenInv'
    BY <1>10, DeleteKeepsInv DEF RotateCleanup
  <2>2. RotatorInv' BY <1>10 DEF RotateCleanup, Parked, Rotator, RotatorInv, RotateStates
  <2> QED BY <2>1, <2>2 DEF RotationInv
<1>11. CASE RotateError
  <2>1. OneActiveOneNext' /\ TokenInv' /\ MintInv'
    BY <1>11 DEF RotateError, RotationInv, OneActiveOneNext, TokenInv, Accepted, MintInv
  <2>2. RotatorInv' BY <1>11 DEF RotateError, Parked, Rotator, RotatorInv, RotateStates
  <2> QED BY <2>1, <2>2 DEF RotationInv
<1>12. CASE JanitorDelete
  <2>1. /\ OneActiveOneNext' /\ MintInv' /\ TokenInv'
        /\ \A k \in Kids : keys[k].status # "retiring" => keys'[k] = keys[k]
        /\ \A k \in Kids, s \in {"active", "next"} : keys'[k].status = s <=> keys[k].status = s
    BY <1>12, DeleteKeepsInv DEF JanitorDelete
  <2>2. RotatorInv'
    BY <1>12, <2>1 DEF JanitorDelete, RotatorInv, RotationInv
  <2> QED BY <2>1, <2>2 DEF RotationInv
<1>13. ASSUME NEW m \in Minters, MintReadKey(m) PROVE RotationInv'
  <2>1. OneActiveOneNext' /\ RotatorInv' /\ TokenInv'
    BY <1>13 DEF MintReadKey, RotationInv, OneActiveOneNext, RotatorInv, TokenInv, Accepted
  <2>2. MintInv'
    BY <1>13 DEF MintReadKey, RotationInv, MintInv, TypeOK, HasStatus
  <2> QED BY <2>1, <2>2 DEF RotationInv
<1>14. ASSUME NEW m \in Minters, MintSign(m) PROVE RotationInv'
  <2>1. OneActiveOneNext' /\ RotatorInv'
    BY <1>14 DEF MintSign, RotationInv, OneActiveOneNext, RotatorInv
  <2>2. MintInv'
    BY <1>14 DEF MintSign, NotMinting, RotationInv, MintInv, TypeOK
  <2>3. TokenInv'
    <3> DEFINE k == mint[m].kid
    <3>1. /\ k \in Kids /\ keys[k].status \in {"active", "retiring"}
          /\ mint[m].since \in Nat /\ clock <= mint[m].since + MaxDelay
          /\ keys[k].status = "retiring" =>
                mint[m].since + MaxDelay + AccessTTL + ClockSkew < keys[k].retires
      BY <1>14 DEF MintSign, RotationInv, MintInv, TypeOK
    <3>2. lastExp'[k] = clock + AccessTTL /\ \A j \in Kids \ {k} : lastExp'[j] = lastExp[j]
      BY <1>14, <3>1 DEF MintSign, TypeOK
    <3>3. keys[k].status = "retiring" => lastExp'[k] + ClockSkew < keys[k].retires
      BY <3>1, <3>2 DEF TypeOK
    <3> QED BY <1>14, <3>1, <3>2, <3>3 DEF MintSign, TokenInv, Accepted, RotationInv, TypeOK
  <2> QED BY <2>1, <2>2, <2>3 DEF RotationInv
<1>15. CASE UNCHANGED vars
  BY <1>15 DEF vars, RotationInv, OneActiveOneNext, RotatorInv, MintInv, TokenInv, Accepted
<1> QED
  BY <1>1, <1>2, <1>3, <1>4, <1>5, <1>6, <1>7, <1>8, <1>9, <1>10, <1>11, <1>12, <1>13,
     <1>14, <1>15 DEF Next, Rotate

\* The inductive invariant holds in every reachable state.
THEOREM RotationInvariant == Spec => [](TypeOK /\ RotationInv)
<1>1. Init => TypeOK /\ RotationInv
  BY NoKidAssumption, DurationAssumption
     DEF Init, TypeOK, RotationInv, OneActiveOneNext, RotatorInv, MintInv, TokenInv, Accepted,
         Row, Parked, Rotator, NotMinting, BootStates, RotateStates
<1> QED
  BY <1>1, TypeStep, InvStep, PTL DEF Spec

\* At no time are there two active or two next keys, for any number of keys,
\* crashes and failing statements.
THEOREM OneActiveOneNextAlways == Spec => []OneActiveOneNext
<1>1. RotationInv => OneActiveOneNext
  BY DEF RotationInv
<1> QED BY <1>1, RotationInvariant, PTL

\* The JWKS holds the key of every token a verifier still accepts, as long as
\* the grace hour exceeds two delays and the skew.
THEOREM TokenKeyAlwaysPublished == Spec => []TokenKeyPublished
<1>1. TypeOK /\ RotationInv => TokenKeyPublished
  <2> SUFFICES ASSUME TypeOK, RotationInv, NEW k \in Kids, Accepted(k)
               PROVE  k \in ListSigningKeys
    BY DEF TokenKeyPublished
  <2>1. keys[k].status \in {"unused", "next", "active", "retiring", "gone"}
    BY DEF TypeOK
  <2>2. keys[k].status \notin {"unused", "gone"}
    BY DEF RotationInv, TokenInv, Accepted, TypeOK
  <2> QED BY <2>1, <2>2 DEF ListSigningKeys
<1> QED BY <1>1, RotationInvariant, PTL
\* A key moves from next to active only after the whole overlap in the JWKS,
\* although the instant rotate compares with was captured earlier.
THEOREM AnnouncedForWholeOverlap == Spec => AnnouncedForOverlap
<1> DEFINE Waited == \A k \in Kids :
             keys[k].status = "next" /\ keys'[k].status = "active"
               => clock >= keys[k].created + Overlap
<1>1. TypeOK /\ RotationInv /\ [Next]_vars => [Waited]_vars
  <2> SUFFICES ASSUME TypeOK, RotationInv, Next, NEW k \in Kids,
                      keys[k].status = "next", keys'[k].status = "active"
               PROVE  clock >= keys[k].created + Overlap
    OBVIOUS
  <2> USE DurationAssumption
  <2>1. CASE PromoteNext
    <3>1. k = rot.next
      BY <2>1 DEF PromoteNext, UpdateSigningKeyStatus, Row, TypeOK
    <3>2. keys[k].created + Overlap < rot.now + rot.frac /\ rot.now <= clock
      BY <2>1, <3>1 DEF PromoteNext, RotationInv, RotatorInv, RotateStates
    <3> QED BY <3>2 DEF TypeOK
  <2>2. CASE EnsureInsert \/ InsertNext
    <3>1. PICK j \in Kids, s \in {"active", "next"} :
            /\ keys[j].status = "unused"
            /\ keys' = [keys EXCEPT ![j] = Row(s, clock, InitialRetiresAt(rot.now))]
      BY <2>2 DEF EnsureInsert, InsertNext, InsertSigningKey, HasStatus
    <3>2. k # j /\ keys'[k] = keys[k]
      BY <3>1 DEF TypeOK
    <3> QED BY <3>2
  <2>3. CASE RetireOld
    BY <2>3 DEF RetireOld, UpdateSigningKeyStatus, Row, TypeOK
  <2>4. CASE RotateCleanup \/ JanitorDelete
    BY <2>4, DeleteKeepsInv DEF RotateCleanup, JanitorDelete
  <2>5. CASE keys' = keys
    BY <2>5
  <2> QED
    BY <2>1, <2>2, <2>3, <2>4, <2>5
       DEF Next, Rotate, Tick, Crash, Boot, RotateStart, RotateList, RotateError,
           MintReadKey, MintSign
<1> QED
  BY <1>1, RotationInvariant, PTL DEF Spec, AnnouncedForOverlap

\* A serving sidecar lacks an active key only within a rotation or after a
\* failed statement, and the announced successor is there to be promoted.
THEOREM GapsHaveSuccessors == Spec => []GapHasSuccessor
<1> DEFINE Gap == \A k \in Kids : keys[k].status # "active"
           Next1 == \E k \in Kids : keys[k].status = "next"
           G == Serving /\ Gap => Next1 /\ (rot.pc = "promote" \/ faults > 0)
<1>0. GapHasSuccessor <=> G
  BY DEF GapHasSuccessor, HasActive, HasStatus
<1>1. Init => G
  BY DEF Init, Parked, Rotator, Serving, BootStates
<1>2. TypeOK /\ RotationInv /\ G /\ [Next]_vars => G'
  <2> SUFFICES ASSUME TypeOK, RotationInv, G, [Next]_vars PROVE G'
    OBVIOUS
  <2> USE DEF Serving, BootStates, RotateStates
  <2>1. CASE UNCHANGED <<keys, faults>> /\ (rot'.pc = rot.pc \/ ~Serving')
    BY <2>1
  <2>2. CASE Boot
    BY <2>2 DEF Boot, HasStatus, Parked, Rotator
  <2>3. CASE EnsureInsert
    <3>1. PICK k \in Kids : keys' = [keys EXCEPT ![k] = Row("active", clock, InitialRetiresAt(rot.now))]
      BY <2>3 DEF EnsureInsert, InsertSigningKey, HasStatus
    <3>2. keys'[k].status = "active"
      BY <3>1 DEF TypeOK, Row
    <3> QED BY <3>2
  <2>4. CASE RotateStart \/ RotateList
    <3>1. rot.pc # "promote" /\ Serving /\ UNCHANGED <<keys, faults>>
      BY <2>4 DEF RotateStart, RotateList
    <3> QED BY <3>1
  <2>5. CASE RetireOld
    <3>1. /\ rot.active \in Kids /\ keys[rot.active].status = "active"
          /\ rot.next \in Kids /\ keys[rot.next].status = "next"
      BY <2>5 DEF RetireOld, RotationInv, RotatorInv
    <3>2. keys'[rot.next] = keys[rot.next] /\ rot'.pc = "promote"
      BY <2>5, <3>1 DEF RetireOld, UpdateSigningKeyStatus, TypeOK
    <3> QED BY <3>1, <3>2
  <2>6. CASE PromoteNext
    <3>1. rot.next \in Kids
      BY <2>6 DEF PromoteNext, RotationInv, RotatorInv
    <3>2. keys'[rot.next].status = "active"
      BY <2>6, <3>1 DEF PromoteNext, UpdateSigningKeyStatus, Row, TypeOK
    <3> QED BY <3>1, <3>2
  <2>7. CASE InsertNext
    <3>1. PICK k \in Kids : /\ keys[k].status = "unused"
                            /\ keys' = [keys EXCEPT ![k] = Row("next", clock, InitialRetiresAt(rot.now))]
      BY <2>7 DEF InsertNext, InsertSigningKey, HasStatus
    <3>2. keys'[k].status = "next" /\ \A j \in Kids \ {k} : keys'[j] = keys[j]
      BY <3>1 DEF TypeOK, Row
    <3>3. rot.pc = "generate" /\ UNCHANGED faults
      BY <2>7 DEF InsertNext
    <3> QED BY <3>1, <3>2, <3>3
  <2>8. CASE RotateCleanup \/ JanitorDelete
    <3>1. \A k \in Kids, st \in {"active", "next"} : keys'[k].status = st <=> keys[k].status = st
      BY <2>8, DeleteKeepsInv DEF RotateCleanup, JanitorDelete
    <3>2. UNCHANGED faults /\ Serving /\ (rot.pc = "promote" => rot'.pc = "promote")
      BY <2>8 DEF RotateCleanup, JanitorDelete
    <3> QED BY <3>1, <3>2
  <2>9. CASE RotateError
    BY <2>9, BoundAssumption DEF RotateError, RotationInv, RotatorInv, TypeOK
  <2>10. CASE Crash
    BY <2>10 DEF Crash, Parked, Rotator
  <2> QED
    BY <2>1, <2>2, <2>3, <2>4, <2>5, <2>6, <2>7, <2>8, <2>9, <2>10
       DEF Next, Rotate, Tick, MintReadKey, MintSign, vars
<1> QED
  BY <1>0, <1>1, <1>2, RotationInvariant, PTL DEF Spec

-----------------------------------------------------------------------------
(* Refinement *)

\* A DELETE of expired rows is a Drop of the abstract specification.
LEMMA DeleteIsDrop ==
    ASSUME TypeOK, RotationInv, DeleteExpiredSigningKeys, UNCHANGED <<clock, lastExp>>
    PROVE  KS!Next
<1> DEFINE S == {k \in Kids : ExpiredRow(keys[k])}
<1>1. \A k \in Kids : keys'[k] = IF ExpiredRow(keys[k]) THEN Row("gone", 0, 0) ELSE keys[k]
  BY DEF DeleteExpiredSigningKeys
<1>2. \A k \in S : keys[k].status = "retiring" /\ lastExp[k] + ClockSkew < clock
  BY DurationAssumption DEF ExpiredRow, RotationInv, TokenInv, TypeOK
<1>3. [k \in Kids |-> keys[k].status]' =
        [k \in Kids |-> IF k \in S THEN "gone" ELSE [j \in Kids |-> keys[j].status][k]]
  BY <1>1 DEF Row
<1>4. [k \in Kids |-> keys[k].created]' =
        [k \in Kids |-> IF k \in S THEN 0 ELSE [j \in Kids |-> keys[j].created][k]]
  BY <1>1 DEF Row
<1>5. PICK T \in SUBSET Kids : T = S
  OBVIOUS
<1>6. \A k \in T : [j \in Kids |-> keys[j].status][k] = "retiring" /\ ~ KS!Accepted(k)
  BY <1>2, <1>5, DurationAssumption DEF KS!Accepted, TypeOK
<1>7. KS!Drop(T)
  BY <1>3, <1>4, <1>5, <1>6 DEF KS!Drop
<1> QED BY <1>7 DEF KS!Next

\* Every step of the rotator, the janitor and the requests is a step of
\* KeyService or leaves its variables unchanged.
LEMMA StepSimulation ==
    TypeOK /\ RotationInv /\ [Next]_vars => [KS!Next]_KS!svars
<1> SUFFICES ASSUME TypeOK, RotationInv, [Next]_vars PROVE [KS!Next]_KS!svars
  OBVIOUS
<1> USE NoKidAssumption, DurationAssumption
<1> DEFINE stage == [k \in Kids |-> keys[k].status]
           since == [k \in Kids |-> keys[k].created]
<1>1. CASE Tick
  <2>1. KS!Tick BY <1>1 DEF Tick, KS!Tick
  <2> QED BY <2>1 DEF KS!Next
<1>2. CASE EnsureInsert
  <2>1. PICK k \in Kids :
          /\ keys[k].status = "unused"
          /\ keys' = [keys EXCEPT ![k] = Row("active", clock, InitialRetiresAt(rot.now))]
    BY <1>2 DEF EnsureInsert, InsertSigningKey, HasStatus
  <2>2. stage' = [stage EXCEPT ![k] = "active"] /\ since' = [since EXCEPT ![k] = clock]
    BY <2>1 DEF Row, TypeOK
  <2>3. KS!Create(k)
    BY <1>2, <2>1, <2>2 DEF EnsureInsert, KS!Create, KS!NoneIn, RotationInv, RotatorInv
  <2> QED BY <2>3 DEF KS!Next
<1>3. CASE InsertNext
  <2>1. PICK k \in Kids :
          /\ keys[k].status = "unused"
          /\ keys' = [keys EXCEPT ![k] = Row("next", clock, InitialRetiresAt(rot.now))]
    BY <1>3 DEF InsertNext, InsertSigningKey, HasStatus
  <2>2. stage' = [stage EXCEPT ![k] = "next"] /\ since' = [since EXCEPT ![k] = clock]
    BY <2>1 DEF Row, TypeOK
  <2>3. KS!Announce(k)
    BY <1>3, <2>1, <2>2 DEF InsertNext, KS!Announce, KS!NoneIn, RotationInv, RotatorInv
  <2> QED BY <2>3 DEF KS!Next
<1>4. CASE RetireOld
  <2>1. /\ rot.active \in Kids /\ keys[rot.active].status = "active"
        /\ rot.next \in Kids /\ keys[rot.next].status = "next"
    BY <1>4 DEF RetireOld, RotationInv, RotatorInv
  <2>2. PICK k \in Kids : k = rot.active
    BY <2>1
  <2>3. stage' = [stage EXCEPT ![k] = "retiring"] /\ since' = since
    BY <1>4, <2>1, <2>2 DEF RetireOld, UpdateSigningKeyStatus, Row, TypeOK
  <2>4. KS!Retire(k)
    BY <1>4, <2>1, <2>2, <2>3 DEF RetireOld, KS!Retire, KS!NoneIn
  <2> QED BY <2>4 DEF KS!Next
<1>5. CASE PromoteNext
  <2>1. /\ rot.next \in Kids /\ keys[rot.next].status = "next"
        /\ \A k \in Kids : keys[k].status # "active"
        /\ keys[rot.next].created + Overlap <= clock
    BY <1>5 DEF PromoteNext, RotationInv, RotatorInv, RotateStates, TypeOK
  <2>2. PICK k \in Kids : k = rot.next
    BY <2>1
  <2>3. stage' = [stage EXCEPT ![k] = "active"] /\ since' = since
    BY <1>5, <2>1, <2>2 DEF PromoteNext, UpdateSigningKeyStatus, Row, TypeOK
  <2>4. KS!Promote(k)
    BY <1>5, <2>1, <2>2, <2>3 DEF PromoteNext, KS!Promote, KS!NoneIn
  <2> QED BY <2>4 DEF KS!Next
<1>6. CASE RotateCleanup \/ JanitorDelete
  BY <1>6, DeleteIsDrop DEF RotateCleanup, JanitorDelete
<1>7. ASSUME NEW m \in Minters, MintSign(m) PROVE KS!Next
  <2>1. mint[m].kid \in Kids /\ keys[mint[m].kid].status \in {"active", "retiring"}
    BY <1>7 DEF MintSign, RotationInv, MintInv, TypeOK
  <2>2. KS!Sign(mint[m].kid)
    BY <1>7, <2>1 DEF MintSign, KS!Sign
  <2> QED BY <2>1, <2>2 DEF KS!Next
<1>8. CASE UNCHANGED <<clock, keys, lastExp>>
  BY <1>8 DEF KS!svars
<1> QED
  BY <1>1, <1>2, <1>3, <1>4, <1>5, <1>6, <1>7, <1>8
     DEF Next, Rotate, Crash, Boot, RotateStart, RotateList, RotateError, MintReadKey, vars

\* The sidecar's key management implements the abstract key service.
THEOREM KeyServiceImplemented == Spec => ImplementsKeyService
<1>1. Init => KS!Init
  BY DEF Init, KS!Init, Row
<1> QED
  BY <1>1, StepSimulation, RotationInvariant, PTL DEF Spec, KS!Spec, ImplementsKeyService
=============================================================================
