----------------------------- MODULE KeyService -----------------------------
(***************************************************************************)
(* What the sidecar's signing-key management promises to the holders of    *)
(* access tokens, without saying how: a key is created, announced, used,   *)
(* retired and dropped, in that order; at most one key signs at a time; a  *)
(* key that takes over has been announced for the overlap before; and a    *)
(* key is dropped only after every token it signed has expired, the        *)
(* verifiers' clock-skew allowance included.  KeyRotation is shown to      *)
(* implement this specification, and JwksCache relies on it.               *)
(***************************************************************************)
EXTENDS Naturals

CONSTANTS
    Kids,        \* key identifiers
    Overlap,     \* how long a key is announced before it takes over
    AccessTTL,   \* lifetime of an access token
    ClockSkew    \* how long past exp a verifier still accepts a token

VARIABLES
    stage,    \* the stage of every key's life
    since,    \* when a key was first published
    now,      \* the time
    lastExp   \* the latest expiry among the tokens a key signed, 0 if none

svars == <<stage, since, now, lastExp>>

Stages == {"unused", "next", "active", "retiring", "gone"}

NoneIn(s) == \A k \in Kids : stage[k] # s

\* The keys a verifier gets when it asks.
Published == {k \in Kids : stage[k] \in {"next", "active", "retiring"}}

\* A verifier still accepts the last token that k signed.
Accepted(k) == lastExp[k] > 0 /\ now <= lastExp[k] + ClockSkew

Init ==
    /\ stage = [k \in Kids |-> "unused"]
    /\ since = [k \in Kids |-> 0]
    /\ now = 0
    /\ lastExp = [k \in Kids |-> 0]

\* Time passes.
Tick ==
    /\ now' = now + 1
    /\ UNCHANGED <<stage, since, lastExp>>

\* A key that signs from the start: only when nothing else signs.
Create(k) ==
    /\ stage[k] = "unused"
    /\ NoneIn("active")
    /\ stage' = [stage EXCEPT ![k] = "active"]
    /\ since' = [since EXCEPT ![k] = now]
    /\ UNCHANGED <<now, lastExp>>

\* A key that verifiers may learn before it signs.
Announce(k) ==
    /\ stage[k] = "unused"
    /\ NoneIn("next")
    /\ stage' = [stage EXCEPT ![k] = "next"]
    /\ since' = [since EXCEPT ![k] = now]
    /\ UNCHANGED <<now, lastExp>>

\* The signing key steps down, only when a successor has been announced.
Retire(k) ==
    /\ stage[k] = "active"
    /\ ~ NoneIn("next")
    /\ stage' = [stage EXCEPT ![k] = "retiring"]
    /\ UNCHANGED <<since, now, lastExp>>

\* The announced key starts to sign, after the overlap and only when nothing
\* else signs.
Promote(k) ==
    /\ stage[k] = "next"
    /\ since[k] + Overlap <= now
    /\ NoneIn("active")
    /\ stage' = [stage EXCEPT ![k] = "active"]
    /\ UNCHANGED <<since, now, lastExp>>

\* Retired keys are dropped once no verifier accepts a token they signed.
Drop(S) ==
    /\ \A k \in S : stage[k] = "retiring" /\ ~ Accepted(k)
    /\ stage' = [k \in Kids |-> IF k \in S THEN "gone" ELSE stage[k]]
    /\ since' = [k \in Kids |-> IF k \in S THEN 0 ELSE since[k]]
    /\ UNCHANGED <<now, lastExp>>

\* A token is signed: by the active key, or by one that stepped down while
\* the request that holds it was under way.
Sign(k) ==
    /\ stage[k] \in {"active", "retiring"}
    /\ lastExp' = [lastExp EXCEPT ![k] = now + AccessTTL]
    /\ UNCHANGED <<stage, since, now>>

Next ==
    \/ Tick
    \/ \E k \in Kids : Create(k) \/ Announce(k) \/ Retire(k) \/ Promote(k) \/ Sign(k)
    \/ \E S \in SUBSET Kids : Drop(S)

Spec == Init /\ [][Next]_svars
=============================================================================
