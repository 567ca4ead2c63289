------------------------------- MODULE Gateway -------------------------------
(***************************************************************************)
(* The plugin as the gateway of several MCP servers on one host            *)
(* (plugin/mcpbouncer.go, routing.go), one instance per server ("site"),   *)
(* and the metadata, token, introspection and userinfo endpoints of the    *)
(* one sidecar behind them.  A client finds its way from the 401 of an MCP *)
(* path to a token by following the URLs it is given; every hop is routed  *)
(* by its path, and the plugin derives the public base, which is the       *)
(* issuer and audience of tokens, from the hop's own path.                 *)
(*                                                                         *)
(* A path is the sequence of its segments; a trailing slash is a trailing  *)
(* "".  A URL on the host is its path.  The plugin's clock is off the      *)
(* sidecar's by a drift that may differ from one request to the next.      *)
(***************************************************************************)
EXTENDS Integers, Sequences, SequencesExt

CONSTANTS
    Names,           \* segments of paths
    Sites,           \* plugin instances
    Rule,            \* site -> the PathPrefix of its router's rule
    PathPrefix,      \* site -> Config.PathPrefix, a path or AutoPrefix
    AutoPrefix,      \* the value "*"
    Scopes,          \* site -> Config.Scopes
    RequiredScopes,  \* site -> Config.RequiredScopes
    ScopeNames,      \* scopes a client may ask for
    Paths,           \* paths of MCP requests
    Clients,         \* MCP clients
    Others,          \* further clients of the sidecar, which only introspect
    Keys,            \* signing keys
    None,            \* no token, no request
    AccessTTL,       \* lifetime of an access token
    Skew,            \* the 60 seconds of checkClaims
    MaxDrift,        \* largest difference of the two clocks
    MaxTime,         \* bound on the clock
    MaxTokens        \* bound on the tokens minted

VARIABLES
    now,        \* the sidecar's clock
    active,     \* the key that signs
    published,  \* the keys of /oauth/jwks.json
    session,    \* client -> how far it has followed the discovery
    minted,     \* access tokens handed out
    backend     \* history: what an MCP server received in the last step

vars == <<now, active, published, session, minted, backend>>

Time == 0 .. MaxTime
Drifts == -MaxDrift .. MaxDrift

------------------------------------------------------------------------------
(* Paths *)

\* routing.go, with the endpoint each suffix stands for.
oauthSuffixes == {
    <<".well-known", "oauth-protected-resource">>,
    <<".well-known", "oauth-authorization-server">>,
    <<".well-known", "openid-configuration">>,
    <<"oauth", "authorize">>, <<"oauth", "token">>, <<"oauth", "register">>,
    <<"oauth", "callback">>, <<"oauth", "jwks.json">> }

ASSUME NamesAssumption == "" \in Names /\ oauthSuffixes \subseteq Names \X Names

\* Every suffix has two segments.
Suffix(path) == SubSeq(path, Len(path) - 1, Len(path))
Prefix(path) == SubSeq(path, 1, Len(path) - 2)

MatchOAuthSuffix(path) == Len(path) >= 2 /\ Suffix(path) \in oauthSuffixes

\* strings.TrimRight(path, "/")
TrimRight(path) ==
    SubSeq(path, 1, Max({0} \cup {i \in 1 .. Len(path) : path[i] # ""}))

\* Traefik: the rule with the longest prefix of the path wins.
Matching(path) == {s \in Sites : IsPrefix(Rule[s], path)}
Route(path) == CHOOSE s \in Matching(path) :
                   \A x \in Matching(path) : Len(Rule[x]) <= Len(Rule[s])

\* Mutants: the suffix stays in the derived base; the site's prefix is ignored.
publicBaseWithSuffix(s, path) ==
    IF PathPrefix[s] # AutoPrefix THEN TrimRight(PathPrefix[s]) ELSE TrimRight(path)

publicBaseOfHost(s, path) == <<>>

\* The base path of a request as the site sees it.
publicBase(s, path) ==
    CASE PathPrefix[s] # AutoPrefix -> TrimRight(PathPrefix[s])
      [] PathPrefix[s] = AutoPrefix /\ MatchOAuthSuffix(path) -> TrimRight(Prefix(path))
      [] OTHER -> TrimRight(path)

(***************************************************************************)
(* How the routers are set up (labels.md): every request of the host has a *)
(* router, rules are distinct and contain no OAuth path, and an explicit   *)
(* PathPrefix is the prefix of the rule.                                   *)
(***************************************************************************)
ASSUME DeploymentAssumption ==
    /\ Rule \in [Sites -> Seq(Names)] /\ Paths \subseteq Seq(Names)
    /\ Scopes \in [Sites -> SUBSET ScopeNames]
    /\ \E s \in Sites : Rule[s] = <<>>
    /\ \A s, x \in Sites : Rule[s] = Rule[x] => s = x
    /\ \A s \in Sites : \A i \in DOMAIN Rule[s] : Rule[s][i] \notin {"", "oauth", ".well-known"}
    /\ \A s \in Sites : PathPrefix[s] # AutoPrefix => TrimRight(PathPrefix[s]) = Rule[s]

\* The skew that checkClaims allows covers the difference of the clocks.
ASSUME ClockAssumption ==
    /\ AccessTTL \in Nat /\ MaxTime \in Nat
    /\ MaxDrift \in Nat /\ Skew \in Nat /\ MaxDrift <= Skew

------------------------------------------------------------------------------
(* The sidecar *)

\* X-MCPB-* headers as proxyToSidecar sets them; FromRequest refuses a request
\* when one is empty, and only the scopes can be (New demands the others).
FromRequest(path) ==
    LET s == Route(path)
    IN  [site |-> s, PublicBase |-> publicBase(s, path), Scopes |-> Scopes[s]]

\* The plugin proxies the path to this endpoint and withRC lets it through.
Served(path, endpoint) ==
    /\ MatchOAuthSuffix(path)
    /\ Suffix(path) = endpoint
    /\ FromRequest(path).Scopes # {}

\* Mutants: nbf is set back by the skew; the audience lacks its slash.
MintBackdated(rc, c, scope) ==
    [ iss |-> rc.PublicBase, aud |-> {rc.PublicBase \o <<"">>}, client_id |-> c, scope |-> scope,
      nbf |-> now - Skew, exp |-> now + AccessTTL, kid |-> active, site |-> rc.site ]

MintBareAudience(rc, c, scope) ==
    [ iss |-> rc.PublicBase, aud |-> {rc.PublicBase}, client_id |-> c, scope |-> scope,
      nbf |-> now, exp |-> now + AccessTTL, kid |-> active, site |-> rc.site ]

\* The claims of an access token.
MintAccessToken(rc, c, scope) ==
    [ iss |-> rc.PublicBase, aud |-> {rc.PublicBase \o <<"">>}, client_id |-> c,
      scope |-> scope, nbf |-> now, exp |-> now + AccessTTL, kid |-> active,
      site |-> rc.site ]  \* history: the site whose token endpoint was called

\* verifyAccessJWT: the sidecar's own check, without skew.
verifyAccessJWT(t, base) ==
    /\ t.kid \in published
    /\ ~(now > t.exp)
    /\ ~(now < t.nbf)
    /\ t.iss = base
    /\ base \o <<"">> \in t.aud

\* What comes with a token at the introspection endpoint.  GetClient fails, finds
\* the client's row or not (the janitor may have taken it, see Grants), and the
\* secret is right, wrong or not needed; a hint that is neither of the two is
\* treated like none.
Introspections ==
    [ client : Clients \cup Others,
      auth : {"ok", "lookup error", "unknown client", "wrong secret"},
      hint : {"access_token", "refresh_token", "none"} ]

\* The answer of introspection for an access token.  Its hash is in no row of
\* refresh_tokens, so that without a hint the JWT check follows the lookup, and
\* with token_type_hint=refresh_token nothing does.
HandleIntrospect(q, t, base) ==
    CASE q.auth # "ok" -> "refused"
      [] q.auth = "ok" /\ q.hint = "refresh_token" -> "inactive"
      [] OTHER -> IF verifyAccessJWT(t, base) /\ t.client_id = q.client
                  THEN "active" ELSE "inactive"

\* Userinfo returns the profile.
HandleUserinfo(t, base) ==
    /\ t.kid \in published
    /\ ~(t.exp < now)
    /\ ~(t.nbf > now)
    /\ t.iss = base

------------------------------------------------------------------------------
(* The plugin's check of a bearer token *)

\* The grounds on which checkClaims refuses; the code names the first.
checkClaims(s, t, base, drift) ==
    LET clock == now + drift
        refuses == [ iss   |-> t.iss # base,
                     aud   |-> base \notin t.aud /\ base \o <<"">> \notin t.aud,
                     exp   |-> t.exp + Skew < clock,
                     nbf   |-> t.nbf - Skew > clock,
                     scope |-> ~(RequiredScopes[s] \subseteq t.scope) ]
    IN  {g \in DOMAIN refuses : refuses[g]}

\* jwksCache.Get finds a published key (JwksCache) and may still hold an old one.
Lookups(t) == {t.kid \in published, TRUE}

\* The possible outcomes of validateAndForward: sets of grounds, {} to forward.
Verdicts(path, t) ==
    LET s == Route(path)
        base == publicBase(s, path)
    IN  {(IF found THEN {} ELSE {"key"}) \cup checkClaims(s, t, base, drift) :
            found \in Lookups(t), drift \in Drifts}

------------------------------------------------------------------------------
(* The client *)

Idle == [stage |-> "idle", path |-> <<>>, url |-> <<>>, issuer |-> <<>>,
         scope |-> {}, token |-> None]

Init ==
    /\ now = 0
    /\ \E k \in Keys : active = k /\ published = {k}
    /\ session = [c \in Clients |-> Idle]
    /\ minted = {}
    /\ backend = None

Goto(c, x) == session' = [session EXCEPT ![c] = x]

\* An OPTIONS request is answered 204, token or not, and goes no further.
Preflight(p) ==
    /\ backend' = None
    /\ UNCHANGED <<now, active, published, session, minted>>

\* A request without a token, or with one that is refused, is answered 401
\* with the URL of the metadata.  MaxTokens bounds the walks that follow.
Unauthorized(c, p, t) ==
    /\ ~MatchOAuthSuffix(p)
    /\ Cardinality(minted) < MaxTokens
    /\ session[c].stage \in {"idle", "done", "failed"}
    /\ t # None => Verdicts(p, t) # {{}}
    /\ Goto(c, [Idle EXCEPT !.stage = "resource", !.path = p,
                  !.url = publicBase(Route(p), p) \o <<".well-known", "oauth-protected-resource">>])
    /\ backend' = None
    /\ UNCHANGED <<now, active, published, minted>>

\* Protected-resource metadata names the authorization server.
HandleProtectedResource(c, wellKnown) ==
    LET x == session[c]
    IN  /\ x.stage = "resource"
        /\ Served(x.url, <<".well-known", "oauth-protected-resource">>)
        /\ Goto(c, [x EXCEPT !.stage = "server",
                             !.url = FromRequest(x.url).PublicBase \o <<".well-known", wellKnown>>])
        /\ backend' = None
        /\ UNCHANGED <<now, active, published, minted>>

\* Server metadata, under either of its names, gives the endpoints.
HandleAuthorizationServer(c) ==
    LET x == session[c]
    IN  /\ x.stage = "server"
        /\ \E name \in {"oauth-authorization-server", "openid-configuration"} :
              Served(x.url, <<".well-known", name>>)
        /\ LET issuer == FromRequest(x.url).PublicBase
           IN  Goto(c, [x EXCEPT !.stage = "register", !.issuer = issuer,
                                 !.url = issuer \o <<"oauth", "register">>])
        /\ backend' = None
        /\ UNCHANGED <<now, active, published, minted>>

HandleRegister(c) ==
    LET x == session[c]
    IN  /\ x.stage = "register"
        /\ Served(x.url, <<"oauth", "register">>)
        /\ Goto(c, [x EXCEPT !.stage = "authorize", !.url = x.issuer \o <<"oauth", "authorize">>])
        /\ backend' = None
        /\ UNCHANGED <<now, active, published, minted>>

\* The provider sends the browser back to the callback of this request's base.
HandleAuthorize(c, asked) ==
    LET x == session[c]
        rc == FromRequest(x.url)
    IN  /\ x.stage = "authorize"
        /\ Served(x.url, <<"oauth", "authorize">>)
        /\ Goto(c, [x EXCEPT !.stage = "callback", !.url = rc.PublicBase \o <<"oauth", "callback">>,
                             !.scope = IF asked = {} THEN rc.Scopes ELSE asked])
        /\ backend' = None
        /\ UNCHANGED <<now, active, published, minted>>

HandleCallback(c) ==
    LET x == session[c]
    IN  /\ x.stage = "callback"
        /\ Served(x.url, <<"oauth", "callback">>)
        /\ Goto(c, [x EXCEPT !.stage = "token", !.url = x.issuer \o <<"oauth", "token">>])
        /\ backend' = None
        /\ UNCHANGED <<now, active, published, minted>>

\* A code is redeemed, or later a refresh token, bounded by MaxTokens.
HandleToken(c) ==
    LET x == session[c]
        t == MintAccessToken(FromRequest(x.url), c, x.scope)
    IN  /\ x.stage = "token" \/ (x.stage = "done" /\ Cardinality(minted) < MaxTokens)
        /\ Served(x.url, <<"oauth", "token">>)
        /\ minted' = minted \cup {t}
        /\ Goto(c, [x EXCEPT !.stage = "done", !.token = t])
        /\ backend' = None
        /\ UNCHANGED <<now, active, published>>

\* A hop that the plugin does not proxy, or the sidecar answers 400.
HopFails(c) ==
    LET x == session[c]
    IN  /\ x.stage \notin {"idle", "done", "failed"}
        /\ ~Served(x.url, Suffix(x.url))
        /\ Goto(c, [x EXCEPT !.stage = "failed"])
        /\ backend' = None
        /\ UNCHANGED <<now, active, published, minted>>

\* Any token with any MCP path: validateAndForward lets it through.
Forward(p, t) ==
    /\ ~MatchOAuthSuffix(p)
    /\ {} \in Verdicts(p, t)
    /\ backend' = [site |-> Route(p), token |-> t]
    /\ UNCHANGED <<now, active, published, session, minted>>

------------------------------------------------------------------------------
(* Keys and clocks *)

\* The rotator's next key takes over.
Rotate(k) ==
    /\ k \notin published
    /\ active' = k
    /\ published' = published \cup {k}
    /\ backend' = None
    /\ UNCHANGED <<now, session, minted>>

\* KeyRotation!TokenKeyPublished: a key goes when no token of it is accepted.
Retire(k) ==
    /\ k \in published \ {active}
    /\ \A t \in minted : t.kid = k => t.exp + Skew < now
    /\ published' = published \ {k}
    /\ backend' = None
    /\ UNCHANGED <<now, active, session, minted>>

Tick ==
    /\ now < MaxTime
    /\ now' = now + 1
    /\ backend' = None
    /\ UNCHANGED <<active, published, session, minted>>

Next ==
    \/ \E c \in Clients :
        \/ \E p \in Paths, t \in minted \cup {None} : Unauthorized(c, p, t)
        \/ \E w \in {"oauth-authorization-server", "openid-configuration"} :
              HandleProtectedResource(c, w)
        \/ HandleAuthorizationServer(c)
        \/ HandleRegister(c)
        \/ \E asked \in SUBSET ScopeNames : HandleAuthorize(c, asked)
        \/ HandleCallback(c)
        \/ HandleToken(c)
        \/ HopFails(c)
    \/ \E p \in Paths : Preflight(p) \/ \E t \in minted : Forward(p, t)
    \/ \E k \in Keys : Rotate(k) \/ Retire(k)
    \/ Tick

Spec == Init /\ [][Next]_vars

------------------------------------------------------------------------------
(* Properties *)

Segments == Seq(Names)

AccessTokens == [ iss : Segments, aud : SUBSET Segments, client_id : Clients, scope : SUBSET ScopeNames,
                  nbf : Time, exp : Nat, kid : Keys, site : Sites ]

Stages == {"idle", "resource", "server", "register", "authorize", "callback", "token", "done",
           "failed"}

Walks == [ stage : Stages, path : Segments, url : Segments, issuer : Segments,
           scope : SUBSET ScopeNames, token : AccessTokens \cup {None} ]

\* Every variable has its type, and clients and MCP servers hold only tokens
\* that were minted.
TypeOK ==
    /\ now \in Time
    /\ active \in published /\ published \subseteq Keys
    /\ session \in [Clients -> Walks]
    /\ minted \subseteq AccessTokens
    /\ backend \in {None} \cup [site : Sites, token : minted]
    /\ \A c \in Clients : IF session[c].stage = "done" THEN session[c].token \in minted
                                                       ELSE session[c].token = None

(***************************************************************************)
(* Discovery closes: from any MCP path of a site with scopes, the URLs of  *)
(* the 401 and of the metadata documents lead to a token, and until it     *)
(* expires that token opens the very path the client started from, through *)
(* rotations and however the clocks drift, unless the client asked for     *)
(* fewer scopes than the site requires.  Every hop derives the base anew   *)
(* from its own path, behind its own route.                                *)
(***************************************************************************)
ScopesLack(x) == ~(RequiredScopes[Route(x.path)] \subseteq x.scope)

DiscoveryCloses ==
    \A c \in Clients : LET x == session[c] IN
        /\ x.stage = "failed" => Scopes[Route(x.path)] = {}
        /\ x.stage = "done" /\ now <= x.token.exp =>
              Verdicts(x.path, x.token) = IF ScopesLack(x) THEN {{"scope"}} ELSE {{}}

(***************************************************************************)
(* The MCP servers are isolated: what a server receives carries a token    *)
(* minted through the token endpoint of its own site, no later than the    *)
(* skew and the drift of the clocks after it expired.                      *)
(***************************************************************************)
BackendIsolation ==
    backend # None =>
        /\ backend.token.site = backend.site
        /\ now <= backend.token.exp + Skew + MaxDrift

(***************************************************************************)
(* The three implementations of the token check agree: introspection says  *)
(* active only to the token's own client and only when userinfo answers;   *)
(* when userinfo answers, the token's client, once authenticated, is told  *)
(* active too unless it gives the hint refresh_token, and the plugin       *)
(* forwards the token, at every path with that public base, unless a scope *)
(* is missing (introspect.go:118, userinfo.go:111, mcpbouncer.go:273).     *)
(***************************************************************************)
ChecksAgree ==
    \A t \in minted, p \in Paths :
        LET base == publicBase(Route(p), p)
        IN  /\ \A q \in Introspections :
                  HandleIntrospect(q, t, base) = "active" =>
                      HandleUserinfo(t, base) /\ q.client = t.client_id
            /\ HandleUserinfo(t, base) =>
                  /\ \A q \in Introspections :
                        q.auth = "ok" /\ q.client = t.client_id /\ q.hint # "refresh_token" =>
                            HandleIntrospect(q, t, base) = "active"
                  /\ Verdicts(p, t) \subseteq {{}, {"scope"}}
==============================================================================
