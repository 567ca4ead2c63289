---------------------------- MODULE KeyRotation ----------------------------
(***************************************************************************)
(* The life of the sidecar's token-signing keys.                           *)
(*                                                                         *)
(* Models sidecar/internal/keys/rotator.go (Ensure, Run, rotate,           *)
(* ActiveKey), the signing_keys table of sidecar/internal/store/repos.go,  *)
(* the janitor's DELETE on it, and the two moments of                      *)
(* tokens.Issuer.MintAccessToken: it reads the active key, and later reads *)
(* the clock and signs.  Every SQL statement is one atomic step            *)
(* (store.Open sets MaxOpenConns(1)); nothing is atomic across statements. *)
(* The process can crash between any two steps and boots through Ensure.   *)
(*                                                                         *)
(* Timestamps are Unix seconds in the table while r.now() keeps            *)
(* fractions, so a strict Before(now) may or may not hold within the same  *)
(* second: rot.frac is 1 when the fraction of the captured instant is not  *)
(* zero.                                                                   *)
(***************************************************************************)
EXTENDS Naturals, FiniteSets

CONSTANTS
    Kids,              \* key identifiers generateEd25519 can return
    NoKid,             \* stands for a nil *SigningKey
    Minters,           \* concurrent token requests
    RotationInterval,  \* BOUNCER_KEY_ROTATION_DAYS
    Overlap,           \* BOUNCER_KEY_OVERLAP_HOURS
    AccessTTL,         \* lifetime of access tokens; maxTokenTTL of the rotator
    RetireGrace,       \* the extra hour a retired key stays (rotator.go:87)
    InitialGrace,      \* the 48 hours of rotator.go:47 and :106
    ClockSkew,         \* checkClaims' allowance past exp (plugin)
    MaxDelay,          \* longest time one rotation or one mint stays under way
    MaxTime,           \* bound of the clock
    MaxCrashes,        \* bound on process crashes
    MaxFaults          \* bound on failing SQL statements

ASSUME NoKidAssumption == NoKid \notin Kids
ASSUME DurationAssumption ==
    /\ RotationInterval \in Nat /\ Overlap \in Nat /\ InitialGrace \in Nat
    /\ AccessTTL \in Nat \ {0} /\ RetireGrace \in Nat
    /\ ClockSkew \in Nat /\ MaxDelay \in Nat
ASSUME BoundAssumption ==
    MaxTime \in Nat /\ MaxCrashes \in Nat /\ MaxFaults \in Nat
\* The hour of grace outlasts one slow rotation, one slow mint and the skew.
ASSUME GraceAssumption == 2 * MaxDelay + ClockSkew < RetireGrace

VARIABLES
    clock,    \* wall-clock time in seconds
    keys,     \* the signing_keys table; status "unused"/"gone": no such row
    rot,      \* the boot sequence and, after it, the rotator goroutine
    mint,     \* requests inside MintAccessToken; kid = NoKid when outside
    lastExp,  \* history: latest exp among the tokens a key signed, 0 if none
    crashes,  \* crashes so far
    faults    \* failed statements so far

vars == <<clock, keys, rot, mint, lastExp, crashes, faults>>

-----------------------------------------------------------------------------
(* The signing_keys table *)

Row(status, created, retires) ==
    [status |-> status, created |-> created, retires |-> retires]

HasStatus(s) == {k \in Kids : keys[k].status = s}

\* ListSigningKeys, which is also what /oauth/jwks.json serves.
ListSigningKeys == {k \in Kids : keys[k].status \in {"active", "next", "retiring"}}

InsertSigningKey(k, retires, status) ==
    keys' = [keys EXCEPT ![k] = Row(status, clock, retires)]

\* Mutant: the UPDATE writes a status that no query knows.
UpdateToUnknownStatus(k, status, retires) ==
    keys' = [keys EXCEPT ![k] = Row("retired", @.created, retires)]

UpdateSigningKeyStatus(k, status, retires) ==
    keys' = [keys EXCEPT ![k] = Row(status, @.created, retires)]

\* Mutant: the DELETE forgets status='retiring'.
ExpiredRowOfAnyStatus(row) == row.status \in {"active", "next", "retiring"} /\ row.retires <= clock

ExpiredRow(row) == row.status = "retiring" /\ row.retires <= clock

DeleteExpiredSigningKeys ==
    keys' = [k \in Kids |-> IF ExpiredRow(keys[k]) THEN Row("gone", 0, 0) ELSE keys[k]]

-----------------------------------------------------------------------------
(* Deadlines and conditions of the rotator *)

\* retiresAt of a freshly generated key.
InitialRetiresAt(t) == t + RotationInterval + AccessTTL + InitialGrace

\* Mutant: a key retires as soon as its last token expires.
RetiresWithoutGrace(t) == t + AccessTTL

\* retiresAt of a key that steps down.
RetiresAt(t) == t + AccessTTL + RetireGrace

\* t.Before(now) with rot's captured instant.
Before(t) == t < rot.now + rot.frac

\* Mutants: promotion at the next tick; promotion only after a whole interval.
PromotionAtOnce(next) == Before(keys[next].created)
PromotionAfterInterval(next) == Before(keys[next].created + RotationInterval)

PromotionDue(next) == Before(keys[next].created + Overlap)

\* Mutant: the overlap is added to the interval.
GenerationAfterOverlap(active) == Before(keys[active].created + RotationInterval + Overlap)

GenerationDue(active) == Before(keys[active].created + RotationInterval)

-----------------------------------------------------------------------------
(* Process states *)

BootStates   == {"down", "ensure"}
RotateStates == {"list", "retire", "promote", "generate", "cleanup"}

Rotator(pc, now, frac, active, next) ==
    [pc |-> pc, now |-> now, frac |-> frac, active |-> active, next |-> next]

Parked(pc) == Rotator(pc, 0, 0, NoKid, NoKid)

NotMinting == [kid |-> NoKid, since |-> 0]

Serving == rot.pc \notin BootStates

Init ==
    /\ clock = 0
    /\ keys = [k \in Kids |-> Row("unused", 0, 0)]
    /\ rot = Parked("down")
    /\ mint = [m \in Minters |-> NotMinting]
    /\ lastExp = [k \in Kids |-> 0]
    /\ crashes = 0
    /\ faults = 0

-----------------------------------------------------------------------------
(* Time, crash and boot *)

\* Nothing stays under way longer than MaxDelay.
Tick ==
    /\ clock < MaxTime
    /\ rot.pc \in RotateStates => clock < rot.now + MaxDelay
    /\ \A m \in Minters : mint[m].kid # NoKid => clock < mint[m].since + MaxDelay
    /\ clock' = clock + 1
    /\ UNCHANGED <<keys, rot, mint, lastExp, crashes, faults>>

\* The process dies or is stopped: goroutines and requests vanish, the table stays.
Crash ==
    /\ crashes < MaxCrashes
    /\ rot.pc # "down"
    /\ crashes' = crashes + 1
    /\ rot' = Parked("down")
    /\ mint' = [m \in Minters |-> NotMinting]
    /\ UNCHANGED <<clock, keys, lastExp, faults>>

\* Mutant: Ensure inserts a key only when the table is empty.
BootIfEmpty ==
    /\ rot.pc = "down"
    /\ rot' = IF ListSigningKeys # {} THEN Parked("idle")
              ELSE Rotator("ensure", clock, 0, NoKid, NoKid)
    /\ UNCHANGED <<clock, keys, mint, lastExp, crashes, faults>>

\* main calls Ensure, which reads the active key.
Boot ==
    /\ rot.pc = "down"
    /\ rot' = IF HasStatus("active") # {} THEN Parked("idle")
              ELSE Rotator("ensure", clock, 0, NoKid, NoKid)
    /\ UNCHANGED <<clock, keys, mint, lastExp, crashes, faults>>

\* Ensure found none and inserts a fresh key as active.
EnsureInsert ==
    /\ rot.pc = "ensure"
    /\ \E k \in HasStatus("unused") : InsertSigningKey(k, InitialRetiresAt(rot.now), "active")
    /\ rot' = Parked("idle")
    /\ UNCHANGED <<clock, mint, lastExp, crashes, faults>>

-----------------------------------------------------------------------------
(* rotate, one action per statement *)

\* The ticker fires and rotate captures now.
RotateStart ==
    /\ rot.pc = "idle"
    /\ \E frac \in {0, 1} : rot' = Rotator("list", clock, frac, NoKid, NoKid)
    /\ UNCHANGED <<clock, keys, mint, lastExp, crashes, faults>>

\* Mutant: a key is generated although one is pending.
GenerateAgain(active, next) ==
    IF active # NoKid /\ GenerationDue(active) THEN "generate" ELSE "cleanup"

\* Where rotate goes once no promotion is (any longer) to be made.
AfterPromotion(active, next) ==
    IF active # NoKid /\ next = NoKid /\ GenerationDue(active) THEN "generate" ELSE "cleanup"

\* Where rotate goes after it listed the keys.
AfterList(active, next) ==
    IF active # NoKid /\ next # NoKid /\ PromotionDue(next) THEN "retire"
    ELSE AfterPromotion(active, next)

\* The pointer the loop over the rows ends with: a row with status s, or nil.
Pointers(s) == IF HasStatus(s) = {} THEN {NoKid} ELSE HasStatus(s)

RotateList ==
    /\ rot.pc = "list"
    /\ \E active \in Pointers("active"), next \in Pointers("next") :
          rot' = Rotator(AfterList(active, next), rot.now, rot.frac, active, next)
    /\ UNCHANGED <<clock, keys, mint, lastExp, crashes, faults>>

\* First UPDATE: the old active key starts to retire.
RetireOld ==
    /\ rot.pc = "retire"
    /\ UpdateSigningKeyStatus(rot.active, "retiring", RetiresAt(rot.now))
    /\ rot' = [rot EXCEPT !.pc = "promote"]
    /\ UNCHANGED <<clock, mint, lastExp, crashes, faults>>

\* Second UPDATE: the announced key becomes active.
PromoteNext ==
    /\ rot.pc = "promote"
    /\ UpdateSigningKeyStatus(rot.next, "active", keys[rot.next].retires)
    /\ rot' = Rotator(AfterPromotion(rot.next, NoKid), rot.now, rot.frac, rot.next, NoKid)
    /\ UNCHANGED <<clock, mint, lastExp, crashes, faults>>

InsertNext ==
    /\ rot.pc = "generate"
    /\ \E k \in HasStatus("unused") : InsertSigningKey(k, InitialRetiresAt(rot.now), "next")
    /\ rot' = [rot EXCEPT !.pc = "cleanup"]
    /\ UNCHANGED <<clock, mint, lastExp, crashes, faults>>

RotateCleanup ==
    /\ rot.pc = "cleanup"
    /\ DeleteExpiredSigningKeys
    /\ rot' = Parked("idle")
    /\ UNCHANGED <<clock, mint, lastExp, crashes, faults>>

\* A statement of rotate fails: the error is dropped, the next tick starts over.
RotateError ==
    /\ faults < MaxFaults
    /\ rot.pc \in RotateStates
    /\ faults' = faults + 1
    /\ rot' = Parked("idle")
    /\ UNCHANGED <<clock, keys, mint, lastExp, crashes>>

\* The janitor's DELETE, at any time while the process runs.
JanitorDelete ==
    /\ Serving
    /\ DeleteExpiredSigningKeys
    /\ UNCHANGED <<clock, rot, mint, lastExp, crashes, faults>>

-----------------------------------------------------------------------------
(* MintAccessToken *)

\* ActiveKey: SELECT ... WHERE status='active' LIMIT 1.
MintReadKey(m) ==
    /\ Serving
    /\ mint[m].kid = NoKid
    /\ \E k \in HasStatus("active") : mint' = [mint EXCEPT ![m] = [kid |-> k, since |-> clock]]
    /\ UNCHANGED <<clock, keys, rot, lastExp, crashes, faults>>

\* exp is computed from a clock read after the key was.
MintSign(m) ==
    /\ mint[m].kid # NoKid
    /\ lastExp' = [lastExp EXCEPT ![mint[m].kid] = clock + AccessTTL]
    /\ mint' = [mint EXCEPT ![m] = NotMinting]
    /\ UNCHANGED <<clock, keys, rot, crashes, faults>>

Rotate ==
    \/ RotateStart \/ RotateList \/ RetireOld \/ PromoteNext
    \/ InsertNext \/ RotateCleanup

Next ==
    \/ Tick \/ Crash \/ Boot \/ EnsureInsert
    \/ Rotate \/ RotateError \/ JanitorDelete
    \/ \E m \in Minters : MintReadKey(m) \/ MintSign(m)

Spec == Init /\ [][Next]_vars

\* The supervisor restarts a dead process, and the ticker and the scheduler
\* keep the rotator goroutine moving.
FairSpec == Spec /\ WF_vars(Boot \/ EnsureInsert \/ Rotate)

-----------------------------------------------------------------------------
(* Properties *)

\* Every variable keeps its type: the rows, the rotator's locals and the requests.
TypeOK ==
    /\ clock \in Nat
    /\ keys \in [Kids -> [status : {"unused", "next", "active", "retiring", "gone"},
                          created : Nat, retires : Nat]]
    /\ rot \in [pc : BootStates \cup RotateStates \cup {"idle"}, now : Nat, frac : {0, 1},
                active : Kids \cup {NoKid}, next : Kids \cup {NoKid}]
    /\ mint \in [Minters -> [kid : Kids \cup {NoKid}, since : Nat]]
    /\ lastExp \in [Kids -> Nat]
    /\ crashes \in Nat /\ faults \in Nat

\* Whatever is interrupted, by a crash or a failing statement, the table never
\* holds two active keys (GetActiveSigningKey takes LIMIT 1 of them) nor two
\* next keys (rotate keeps the last one it scans).
OneActiveOneNext ==
    \A k1, k2 \in Kids :
        /\ keys[k1].status = keys[k2].status
        /\ keys[k1].status \in {"active", "next"}
        => k1 = k2

\* A verifier of key k's tokens still accepts the last of them.
Accepted(k) == lastExp[k] > 0 /\ clock <= lastExp[k] + ClockSkew

\* As long as a verifier would accept a token, skew included, the JWKS holds
\* the key that signed it: no rotation, delete or slow request retires a key
\* under a live token (rotator.go:87, repos.go:157).
TokenKeyPublished == \A k \in Kids : Accepted(k) => k \in ListSigningKeys

\* A key that was announced starts to sign only after it has been in the JWKS
\* for the whole overlap, although rotate decides on an instant captured
\* before it lists the keys (rotator.go:86).
AnnouncedForOverlap ==
    [][\A k \in Kids :
          keys[k].status = "next" /\ keys'[k].status = "active"
            => clock >= keys[k].created + Overlap]_vars

KS == INSTANCE KeyService WITH
    stage <- [k \in Kids |-> keys[k].status], since <- [k \in Kids |-> keys[k].created],
    now <- clock, lastExp <- lastExp

\* The statements of rotate, Ensure, the janitor and MintAccessToken, in any
\* interleaving and with any crash, implement the promise of KeyService: a key
\* takes over only after it was announced for the overlap, steps down only for
\* an announced successor, and is dropped only when no token it signed is
\* accepted any more.
ImplementsKeyService == KS!Spec

\* What rotate and Ensure rely on between their statements: the rows they hold
\* pointers to are still what the listing showed, and the captured instant is
\* not older than MaxDelay.
RotatorInv ==
    /\ rot.pc = "ensure" => \A k \in Kids : keys[k].status # "active"
    /\ rot.pc = "retire" => rot.active \in Kids /\ keys[rot.active].status = "active"
    /\ rot.pc = "promote" => \A k \in Kids : keys[k].status # "active"
    /\ rot.pc \in {"retire", "promote"} =>
          /\ rot.next \in Kids /\ keys[rot.next].status = "next"
          /\ keys[rot.next].created + Overlap < rot.now + rot.frac
    /\ rot.pc = "generate" => \A k \in Kids : keys[k].status # "next"
    /\ rot.pc \in RotateStates => rot.now <= clock /\ clock <= rot.now + MaxDelay

\* A request that holds a key: the key has not been dropped, and if it is
\* retiring it outlives the token the request is about to sign.
MintInv ==
    \A m \in Minters : mint[m].kid # NoKid =>
        LET row == keys[mint[m].kid] IN
        /\ mint[m].since <= clock /\ clock <= mint[m].since + MaxDelay
        /\ row.status \in {"active", "retiring"}
        /\ row.status = "retiring" =>
              mint[m].since + MaxDelay + AccessTTL + ClockSkew < row.retires

\* The tokens a key signed, by the stage of its life.
TokenInv ==
    \A k \in Kids :
        /\ lastExp[k] <= clock + AccessTTL
        /\ keys[k].status \in {"unused", "next"} => lastExp[k] = 0
        /\ keys[k].status = "retiring" => lastExp[k] + ClockSkew < keys[k].retires
        /\ keys[k].status = "gone" => ~Accepted(k)

\* The inductive invariant: one active key and one next key at most, the
\* rotator's pointers valid, every live token's key in the table.
RotationInv == OneActiveOneNext /\ RotatorInv /\ MintInv /\ TokenInv

HasActive == HasStatus("active") # {}

\* A sidecar that serves lacks an active key only between the two UPDATEs of a
\* rotation (rotator.go:88 and :91) or after one of its statements has failed,
\* and then the announced successor is in the table, waiting to be promoted.
GapHasSuccessor ==
    Serving /\ ~HasActive => HasStatus("next") # {} /\ (rot.pc = "promote" \/ faults > 0)

\* Whenever there is no active key (a crash or a failed statement between the
\* two UPDATEs of rotator.go:88 and :91), there is one again later.
ActiveKeyRecovers == ~HasActive ~> HasActive

\* A key announced for longer than the overlap does not stay pending for ever,
\* however often the process dies in the middle of promoting it.
NextIsPromoted ==
    \A k \in Kids :
        (keys[k].status = "next" /\ keys[k].created + Overlap < clock)
            ~> (keys[k].status # "next")

\* An active key older than the interval gets a successor (or has stepped down).
OldKeyGetsSuccessor ==
    \A k \in Kids :
        (keys[k].status = "active" /\ keys[k].created + RotationInterval < clock)
            ~> (keys[k].status # "active" \/ HasStatus("next") # {})
=============================================================================
