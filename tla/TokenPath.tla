----------------------------- MODULE TokenPath -----------------------------
(***************************************************************************)
(* From the signing key to the verdict: the sidecar's rotator, statement   *)
(* by statement (KeyRotation), and the plugin's JWKS cache (JwksCache),    *)
(* two processes that share nothing but the reply of /oauth/jwks.json and  *)
(* the time.  JwksCache was written against KeyService, the promise of the *)
(* key management; here the promise is replaced by the code that keeps it, *)
(* crashes and failing statements included.                                *)
(***************************************************************************)
EXTENDS KeyRotation

CONSTANTS Verifiers, Nobody, CacheTTL, MinGap, MaxFetch  \* of the plugin, see JwksCache

\* The plugin's constants, and a key is announced for longer than a cache can
\* be behind.
ASSUME PluginAssumption ==
    /\ Nobody \notin Verifiers \cup Kids
    /\ CacheTTL \in Nat /\ MinGap \in Nat /\ MaxFetch \in Nat
    /\ MinGap + MaxFetch < Overlap

VARIABLES cache, mu, get, ensured, unknown  \* of the plugin, see JwksCache

pluginVars == <<cache, mu, get, unknown>>
pathVars   == <<vars, pluginVars, ensured>>

JC == INSTANCE JwksCache WITH
    stage <- [k \in Kids |-> keys[k].status], since <- [k \in Kids |-> keys[k].created],
    now <- clock, lastExp <- lastExp

PathInit == Init /\ JC!Init

\* One clock: it waits for the rotation, the requests and the refresh under way.
PathTick ==
    /\ Tick
    /\ \A v \in Verifiers : JC!Exchanging(v) => clock < get[v].start + MaxFetch
    /\ UNCHANGED <<pluginVars, ensured>>

\* A step of the sidecar other than Ensure's INSERT.
SidecarStep ==
    /\ \/ Crash \/ Boot \/ Rotate \/ RotateError \/ JanitorDelete
       \/ \E m \in Minters : MintReadKey(m) \/ MintSign(m)
    /\ UNCHANGED <<pluginVars, ensured>>

\* Ensure's INSERT, with the key in the history of those that were not announced.
EnsureStep ==
    /\ EnsureInsert
    /\ ensured' = ensured \cup {k \in Kids : keys[k].status # "active" /\ keys'[k].status = "active"}
    /\ UNCHANGED pluginVars

\* A step of the plugin: Get, its refresh, or a new instance.
PluginStep ==
    /\ UNCHANGED vars
    /\ JC!New \/ \E v \in Verifiers : JC!Get(v) \/ JC!Verify(v)

PathNext == PathTick \/ SidecarStep \/ EnsureStep \/ PluginStep

PathSpec == PathInit /\ [][PathNext]_pathVars

-----------------------------------------------------------------------------
(* Properties *)

\* The types of both processes.
PathTypeOK == TypeOK /\ JC!TypeOK

\* The rotator of the sidecar, its crashes and its failing statements included,
\* is for the plugin the key service that JwksCache assumes.
ImplementsJwksCache == JC!Spec

\* Rotation is seamless from the INSERT of a key to the verdict of the plugin:
\* a live token is answered "not found in JWKS" only when its key was inserted
\* by Ensure, at first boot or after a failed promotion, and is younger than the
\* MinGap in which Get does not refresh again and one exchange.
LiveTokenVerifies ==
    \A u \in unknown : u.kid \in ensured /\ u.age <= MinGap + MaxFetch
=============================================================================
