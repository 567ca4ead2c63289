------------------------------- MODULE Grants -------------------------------
(***************************************************************************)
(* The token and revocation endpoints of the sidecar: HandleToken with     *)
(* handleAuthorizationCode and handleRefreshToken                          *)
(* (sidecar/internal/as/token.go), HandleRevoke (as/revoke.go), the        *)
(* clients, codes and refresh_tokens tables (store/repos.go) and the       *)
(* janitor's DELETEs on them (store/janitor.go).                           *)
(*                                                                         *)
(* A request is a process that makes one SQL statement per step; requests  *)
(* interleave between statements.  Both grant types look a row up, delete  *)
(* it, check it and insert a new refresh token, so a grant is a row of     *)
(* codes or of refresh_tokens; rows are immutable once inserted, and the   *)
(* row a request holds in memory is the row that was in the table.  What   *)
(* the code verifies of an authorization code besides client and expiry,   *)
(* the redirect_uri and the PKCE verifier, is one value, its binding: S256 *)
(* is injective, so the recomputed challenge matches exactly when the      *)
(* verifier does.                                                          *)
(*                                                                         *)
(* The login that precedes (authorize and callback) appears here as        *)
(* AuthorizeTouch and InsertCode.                                          *)
(***************************************************************************)
EXTENDS Naturals, FiniteSets

CONSTANTS
    Clients,     \* client_ids
    Codes,       \* authorization codes
    Tokens,      \* refresh tokens (by hash)
    Bindings,    \* pairs of redirect_uri and PKCE verifier
    Resources,   \* protected resources: the rc of a request
    Requests,    \* concurrent requests
    None,        \* no client, grant, binding or resource
    CodeTTL,     \* the 60 seconds of callback.go:165
    RefreshTTL,  \* BOUNCER_REFRESH_TOKEN_TTL
    ClientTTL,   \* BOUNCER_CLIENT_TTL_DAYS
    LoginSpan,   \* longest time from authorize's TouchClient to InsertCode
    MaxDelay,    \* longest time one request is under way
    Strict,      \* BOUNCER_STRICT_UPSTREAM_REFRESH
    MaxTime,     \* bound of the clock
    MaxFaults    \* bound on statements that fail while the request goes on

Grants == Codes \cup Tokens

ASSUME DisjointAssumption == Codes \cap Tokens = {} /\ None \notin Clients \cup Grants
ASSUME DurationAssumption ==
    /\ CodeTTL \in Nat /\ RefreshTTL \in Nat /\ ClientTTL \in Nat
    /\ LoginSpan \in Nat /\ MaxDelay \in Nat /\ Strict \in BOOLEAN
ASSUME BoundAssumption == MaxTime \in Nat /\ MaxFaults \in Nat
ASSUME RequestsAssumption == IsFiniteSet(Requests)
\* A client row outlives every grant it was touched for (defaults: 90 days
\* against 30 days and an hour; nothing in the code checks the settings).
ASSUME ClientTTLAssumption ==
    /\ LoginSpan + CodeTTL <= ClientTTL
    /\ MaxDelay + RefreshTTL <= ClientTTL

VARIABLES
    clock,      \* wall-clock time in seconds
    clients,    \* the clients table
    grants,     \* the codes and refresh_tokens tables
    req,        \* requests under way
    uses,       \* history: how often tokens were issued from a grant
    holder,     \* history: the client a refresh token was sent to
    audience,   \* history: the resource of the access token sent with it
    revoked,    \* history: HandleRevoke's 200s, with their time and reason
    undeleted,  \* history: grants on which a DELETE failed
    untouched   \* history: clients on which a TouchClient failed

vars == <<clock, clients, grants, req, uses, holder, audience, revoked, undeleted, untouched>>
history == <<uses, holder, audience, revoked, undeleted, untouched>>

-----------------------------------------------------------------------------
(* Rows *)

Grant(state, client, binding, resource, upstream, exp) ==
    [state |-> state, client |-> client, binding |-> binding, resource |-> resource,
     upstream |-> upstream, exp |-> exp]

NoGrant == Grant("unused", None, None, None, "absent", 0)

\* Mutant: rows are marked instead of deleted.
SoftDeleted(row) == Grant("deleted", row.client, row.binding, row.resource, row.upstream, row.exp)

Removed(row) == Grant("gone", row.client, row.binding, row.resource, row.upstream, row.exp)

Client(state, lastUsed) == [state |-> state, lastUsed |-> lastUsed]

Live(g) == grants[g].state = "live"

\* Mutant: the DELETE matches no row.
DeleteNothing(g) == grants

\* DELETE ... WHERE code=? / token_hash=?
DeleteRow(g) == [grants EXCEPT ![g] = Removed(@)]

\* DELETE ... WHERE expires_at <= now.
Purge(S) == [g \in Grants |->
                IF g \in S /\ Live(g) /\ grants[g].exp <= clock
                THEN Removed(grants[g]) ELSE grants[g]]

\* UPDATE clients SET last_used_at=now: no effect when the row is gone.
TouchClient(c) ==
    clients' = IF clients[c].state = "registered"
               THEN [clients EXCEPT ![c] = Client("registered", clock)] ELSE clients

\* Mutant: last_used_at <= now - ttl.
StaleTooEarly(c) == clients[c].state = "registered" /\ clients[c].lastUsed + ClientTTL <= clock

\* last_used_at < now - ttl.
Stale(c) == clients[c].state = "registered" /\ clients[c].lastUsed + ClientTTL < clock

-----------------------------------------------------------------------------
(* Requests *)

Request(pc, op, client, grant, binding, resource, since) ==
    [pc |-> pc, op |-> op, client |-> client, grant |-> grant, binding |-> binding,
     resource |-> resource, since |-> since]

Idle == Request("idle", "token", None, None, None, None, 0)

Goto(r, pc) == req' = [req EXCEPT ![r].pc = pc]
Respond(r)  == req' = [req EXCEPT ![r] = Idle]

Busy(r) == req[r].pc # "idle"

Init ==
    /\ clock = 0
    /\ clients = [c \in Clients |-> Client("unregistered", 0)]
    /\ grants = [g \in Grants |-> NoGrant]
    /\ req = [r \in Requests |-> Idle]
    /\ uses = [g \in Grants |-> 0]
    /\ holder = [t \in Tokens |-> None]
    /\ audience = [t \in Tokens |-> None]
    /\ revoked = {}
    /\ undeleted = {}
    /\ untouched = {}

Tick ==
    /\ clock < MaxTime
    /\ \A r \in Requests : Busy(r) => clock < req[r].since + MaxDelay
    /\ clock' = clock + 1
    /\ UNCHANGED <<clients, grants, req, history>>

-----------------------------------------------------------------------------
(* Registration and login *)

\* HandleRegister: InsertClient with last_used_at = now.
Register(c) ==
    /\ clients[c].state = "unregistered"
    /\ clients' = [clients EXCEPT ![c] = Client("registered", clock)]
    /\ UNCHANGED <<clock, grants, req, history>>

\* A statement whose error the handlers ignore may fail.
MayFail == Cardinality(undeleted) + Cardinality(untouched) < MaxFaults

\* The client whose TouchClient fails keeps its last_used_at.
TouchFails(c) ==
    /\ MayFail
    /\ untouched' = untouched \cup {c}
    /\ UNCHANGED <<clock, clients, grants, uses, holder, audience, revoked, undeleted>>

\* HandleAuthorize touches the client before it sends the browser upstream.
AuthorizeTouch(c) ==
    /\ clients[c].state = "registered"
    /\ TouchClient(c)
    /\ UNCHANGED <<clock, grants, req, history>>

AuthorizeTouchFails(c) ==
    /\ clients[c].state # "unregistered"
    /\ TouchFails(c)
    /\ UNCHANGED req

\* HandleCallback inserts a code at most LoginSpan after authorize touched the
\* client.  It does not look the client up again: the row may be gone.
InsertCode(g, c, b) ==
    /\ grants[g].state = "unused"
    /\ clients[c].state # "unregistered"
    /\ clients[c].state = "registered" /\ c \notin untouched =>
          clock <= clients[c].lastUsed + LoginSpan
    /\ \E res \in Resources, upstream \in {"absent", "stored"} :
          grants' = [grants EXCEPT ![g] = Grant("live", c, b, res, upstream, clock + CodeTTL)]
    /\ UNCHANGED <<clock, clients, req, history>>

-----------------------------------------------------------------------------
(* HandleToken and HandleRevoke, one action per statement *)

\* GetClient finds the row.  Without one the answer is 401 and nothing changes.
\* HandleToken goes on to touch the client, HandleRevoke does not.
BeginToken(r) ==
    \E c \in Clients, g \in Grants, b \in Bindings, res \in Resources :
        /\ clients[c].state = "registered"
        /\ grants[g].state # "unused"
        /\ req' = [req EXCEPT ![r] = Request("touch", "token", c, g, b, res, clock)]

BeginRevoke(r) ==
    \E c \in Clients, g \in Tokens :
        /\ clients[c].state = "registered"
        /\ grants[g].state # "unused"
        /\ req' = [req EXCEPT ![r] = Request("lookup", "revoke", c, g, None, None, clock)]

Begin(r) ==
    /\ ~Busy(r)
    /\ BeginToken(r) \/ BeginRevoke(r)
    /\ UNCHANGED <<clock, clients, grants, history>>

\* TouchClient, then the secret check: a wrong secret ends the request here.
Touch(r) ==
    /\ req[r].pc = "touch"
    /\ TouchClient(req[r].client)
    /\ Goto(r, "lookup") \/ Respond(r)
    /\ UNCHANGED <<clock, grants, history>>

\* TouchClient fails and the error is ignored.
TokenTouchFails(r) ==
    /\ req[r].pc = "touch"
    /\ TouchFails(req[r].client)
    /\ Goto(r, "lookup") \/ Respond(r)

\* HandleRevoke's 200s.
Reasons == {"hint", "lookup error", "not found", "other client", "deleted", "delete error"}

Answers == [token : Grants, at : Nat, why : Reasons]

Owned(r) == grants[req[r].grant].client = req[r].client

\* The client cannot tell why a 200 was sent; the history can.
Answer(r, why) ==
    /\ Respond(r)
    /\ revoked' = revoked \cup {[token |-> req[r].grant, at |-> clock, why |-> why]}

\* GetCode / GetRefreshTokenByHash finds the row.  HandleRevoke deletes it only
\* for the client it belongs to.
Lookup(r) ==
    /\ req[r].pc = "lookup"
    /\ Live(req[r].grant)
    /\ req[r].op = "revoke" => Owned(r)
    /\ Goto(r, "delete")
    /\ UNCHANGED <<clock, clients, grants, history>>

\* The token endpoint refuses a grant without a row.
NotFound(r) ==
    /\ req[r].pc = "lookup" /\ req[r].op = "token"
    /\ ~ Live(req[r].grant)
    /\ Respond(r)
    /\ UNCHANGED <<clock, clients, grants, history>>

\* HandleRevoke's 200s without a DELETE: for token_type_hint=access_token it
\* does not look the token up, a failing lookup is only logged, a token that is
\* not there passes for revoked, and one of another client is left alone.
AnswerOnly(r) ==
    /\ req[r].pc = "lookup" /\ req[r].op = "revoke"
    /\ \/ Answer(r, "hint") \/ Answer(r, "lookup error")
       \/ ~ Live(req[r].grant) /\ Answer(r, "not found")
       \/ Live(req[r].grant) /\ ~ Owned(r) /\ Answer(r, "other client")
    /\ UNCHANGED <<clock, clients, grants, uses, holder, audience, undeleted, untouched>>

\* DeleteCode / DeleteRefreshTokenByHash; HandleRevoke then answers 200.
AfterDelete(r, why) ==
    \/ req[r].op = "revoke" /\ Answer(r, why)
    \/ req[r].op = "token" /\ Goto(r, "check") /\ UNCHANGED revoked

Delete(r) ==
    /\ req[r].pc = "delete"
    /\ grants' = DeleteRow(req[r].grant)
    /\ AfterDelete(r, "deleted")
    /\ UNCHANGED <<clock, clients, uses, holder, audience, undeleted, untouched>>

\* The DELETE fails and the error is ignored.
DeleteFails(r) ==
    /\ MayFail
    /\ req[r].pc = "delete"
    /\ undeleted' = undeleted \cup {req[r].grant}
    /\ AfterDelete(r, "delete error")
    /\ UNCHANGED <<clock, clients, grants, uses, holder, audience, untouched>>

\* Mutant: the janitor alone is trusted with expiry.
NeverExpired(g, frac) == FALSE

\* time.Now().After(ExpiresAt): rows hold whole seconds, now has a fraction.
Expired(g, frac) == clock + frac > grants[g].exp

\* Mutant: any client may redeem the row.
AcceptsAnyClient(r, frac) ==
    LET g == req[r].grant IN
    ~ Expired(g, frac) /\ (g \in Codes => grants[g].binding = req[r].binding)

\* The checks on the row that was found: client, expiry and, for a code, the
\* redirect_uri and the PKCE verifier.
Accepts(r, frac) ==
    LET g == req[r].grant IN
    /\ grants[g].client = req[r].client
    /\ ~ Expired(g, frac)
    /\ g \in Codes => grants[g].binding = req[r].binding

AfterCheck(r) == IF req[r].grant \in Tokens /\ grants[req[r].grant].upstream = "stored"
                 THEN "upstream" ELSE "issue"

Check(r) ==
    /\ req[r].pc = "check"
    /\ \E frac \in {0, 1} :
          IF Accepts(r, frac) THEN Goto(r, AfterCheck(r)) ELSE Respond(r)
    /\ UNCHANGED <<clock, clients, grants, history>>

\* Discover and RefreshTokens upstream: on failure strict mode refuses, the
\* default goes on.
Upstream(r) ==
    /\ req[r].pc = "upstream"
    /\ Goto(r, "issue") \/ (Strict /\ Respond(r))
    /\ UNCHANGED <<clock, clients, grants, history>>

\* MintAccessToken for the request's resource, MintRefreshToken and
\* InsertRefreshToken with the identity, resource and client of the row.
Issue(r) ==
    LET g == req[r].grant
        row == grants[g] IN
    /\ req[r].pc = "issue"
    /\ \E t \in Tokens :
          /\ grants[t].state = "unused"
          /\ grants' = [grants EXCEPT ![t] =
                 Grant("live", row.client, None, row.resource, row.upstream, clock + RefreshTTL)]
          /\ holder' = [holder EXCEPT ![t] = req[r].client]
          /\ audience' = [audience EXCEPT ![t] = req[r].resource]
    /\ uses' = [uses EXCEPT ![g] = @ + 1]
    /\ Respond(r)
    /\ UNCHANGED <<clock, clients, revoked, undeleted, untouched>>

\* The client's secret is wrong at the revocation endpoint, a statement or a
\* mint fails and is answered with an error, or the process dies: the request
\* ends where it is.  (HandleRevoke's failing lookup and DELETE are no such
\* failures: see AnswerOnly and DeleteFails.)
Abort(r) ==
    /\ Busy(r)
    /\ Respond(r)
    /\ UNCHANGED <<clock, clients, grants, history>>

-----------------------------------------------------------------------------
(* The janitor's statements; each of them runs at any time *)

JanitorCodes ==
    /\ grants' = Purge(Codes)
    /\ UNCHANGED <<clock, clients, req, history>>

JanitorTokens ==
    /\ grants' = Purge(Tokens)
    /\ UNCHANGED <<clock, clients, req, history>>

JanitorClients ==
    /\ clients' = [c \in Clients |->
                      IF Stale(c) THEN Client("gone", clients[c].lastUsed) ELSE clients[c]]
    /\ UNCHANGED <<clock, grants, req, history>>

Serve(r) ==
    \/ Begin(r) \/ Touch(r) \/ TokenTouchFails(r) \/ Lookup(r) \/ NotFound(r)
    \/ AnswerOnly(r) \/ Delete(r) \/ DeleteFails(r) \/ Check(r) \/ Upstream(r) \/ Issue(r) \/ Abort(r)

Next ==
    \/ Tick
    \/ \E c \in Clients : Register(c) \/ AuthorizeTouch(c) \/ AuthorizeTouchFails(c)
    \/ \E g \in Codes, c \in Clients, b \in Bindings : InsertCode(g, c, b)
    \/ \E r \in Requests : Serve(r)
    \/ JanitorCodes \/ JanitorTokens \/ JanitorClients

Spec == Init /\ [][Next]_vars
-----------------------------------------------------------------------------
(* Properties *)

\* Every table, request and history variable keeps its type.
TypeOK ==
    /\ clock \in Nat
    /\ clients \in [Clients -> [state : {"unregistered", "registered", "gone"}, lastUsed : Nat]]
    /\ grants \in [Grants -> [state : {"unused", "live", "gone"}, client : Clients \cup {None},
                              binding : Bindings \cup {None}, resource : Resources \cup {None},
                              upstream : {"absent", "stored"}, exp : Nat]]
    /\ req \in [Requests ->
          [pc : {"idle", "touch", "lookup", "delete", "check", "upstream", "issue"},
           op : {"token", "revoke"}, client : Clients \cup {None}, grant : Grants \cup {None},
           binding : Bindings \cup {None}, resource : Resources \cup {None}, since : Nat]]
    /\ uses \in [Grants -> Nat]
    /\ holder \in [Tokens -> Clients \cup {None}]
    /\ audience \in [Tokens -> Resources \cup {None}]
    /\ revoked \subseteq Answers
    /\ undeleted \subseteq Grants /\ untouched \subseteq Clients

\* A refresh token that has not expired can be presented: its client row still
\* exists.  GetClient and TouchClient are two statements with DeleteStaleClients
\* between them (token.go:53 and :62), and only the lifetimes of the grants keep
\* the janitor from taking the client away under a request.  A TouchClient
\* whose error the handlers ignored voids the promise for its client.
LiveTokenHasClient ==
    \A t \in Tokens :
        LET c == grants[t].client IN
        Live(t) /\ clock <= grants[t].exp /\ c \notin untouched => clients[c].state = "registered"

\* A refresh token is only ever sent to the client its login was for, whoever
\* else presents the code or the token meanwhile (token.go:112 and :211).
HeldByOwner == \A t \in Tokens : Live(t) => holder[t] = grants[t].client

\* Once tokens were issued from a grant its row is gone for good, so a request
\* that looks it up from then on is refused, except when the DELETE whose error
\* the handlers ignore has failed (token.go:110 and :209).
SpentIsGone ==
    \A g \in Grants : uses[g] > 0 /\ g \notin undeleted => grants[g].state = "gone"

\* The requests that found the row of g and are about to issue tokens from it.
Redeeming(g) ==
    {r \in Requests : /\ req[r].op = "token" /\ req[r].grant = g
                      /\ req[r].pc \in {"delete", "check", "upstream", "issue"}}

\* A grant gives tokens more than once only to requests that overlap: each of
\* them looked the row up before the first one deleted it, so together with those
\* still under way they are no more than run at the same time (token.go:99
\* and :198, the SELECT, against :110 and :209, the DELETE).
OnlyOverlapReuses ==
    \A g \in Grants : g \notin undeleted =>
        uses[g] + Cardinality(Redeeming(g)) <= Cardinality(Requests)

\* The 200s that mean what they say: HandleRevoke deleted the token or saw that
\* it was not there.  The others leave a live token behind (revoke.go:64, :73,
\* :85 and, when the DELETE fails, :94).
Effective == {a \in revoked : a.why \in {"deleted", "not found"}}

\* A revocation takes effect within the duration of one request: a refresh that
\* read the row before the revocation deleted it, or deleted it itself before the
\* revocation looked, still issues a successor, which the revocation does not
\* know of, but none does later than MaxDelay after the 200 (token.go:198 and
\* :256 against revoke.go:72 and :94).
RevocationTakesEffect ==
    [][\A a \in Effective : uses'[a.token] > uses[a.token] => clock <= a.at + MaxDelay]_vars

\* Tokens are issued from a grant no later than one request's duration after
\* it expired, although the expiry is checked before the upstream call.
IssuedBeforeExpiry ==
    [][\A g \in Grants : uses'[g] > uses[g] => clock <= grants[g].exp + MaxDelay]_vars

\* A client row is younger than the grants it was touched for are old: as long
\* as it is there it was used recently enough for all of them, and once it is
\* gone none of its refresh tokens is valid.
GrantOK(g) ==
    LET c == grants[g].client IN
    /\ c \in Clients /\ clients[c].state # "unregistered"
    /\ c \notin untouched =>
          /\ clients[c].state = "registered" => grants[g].exp <= clients[c].lastUsed + ClientTTL
          /\ g \in Tokens /\ clients[c].state = "gone" => grants[g].exp < clock

LifetimeInv ==
    /\ \A c \in Clients : clients[c].lastUsed <= clock
    /\ \A g \in Grants : grants[g].state # "unused" => GrantOK(g)

\* What a request under way relies on between its statements: a client that
\* vanished since GetClient takes no valid grant with it, a row past the DELETE
\* is gone, and a row that passed the checks belongs to a client that exists.
RequestOK(r) ==
    LET c == req[r].client
        g == req[r].grant IN
    /\ c \in Clients /\ g \in Grants
    /\ req[r].since <= clock /\ clock <= req[r].since + MaxDelay
    /\ clients[c].state # "unregistered" /\ grants[g].state # "unused"
    /\ req[r].pc \in {"touch", "check", "upstream", "issue"} => req[r].op = "token"
    /\ c \notin untouched =>
          /\ grants[g].client = c /\ clients[c].state = "gone" => grants[g].exp < clock
          /\ req[r].op = "token" /\ req[r].pc # "touch" /\ clients[c].state = "registered"
                => req[r].since <= clients[c].lastUsed
          /\ req[r].pc \in {"upstream", "issue"} => clients[c].state = "registered"
    /\ req[r].pc \in {"check", "upstream", "issue"} =>
          grants[g].state = "gone" \/ g \in undeleted
    /\ req[r].pc \in {"upstream", "issue"} =>
          grants[g].client = c /\ req[r].since <= grants[g].exp

RequestInv == \A r \in Requests : Busy(r) => RequestOK(r)

\* Behind an effective 200 the row is gone, and who redeems it nevertheless began
\* before the 200 was sent.
RevokedInv ==
    \A a \in Effective :
        /\ grants[a.token].state = "gone"
        /\ \A r \in Redeeming(a.token) : req[r].since <= a.at

\* The inductive invariant: lifetimes of clients and grants, and what holds of
\* every request between its statements.  RevokedInv is inductive relative to it.
GrantsInv == LifetimeInv /\ RequestInv

\* token.go:109 and :208, "Single-use: delete immediately." and "Rotate: delete
\* immediately.": tokens are issued from a grant at most once.
SingleUse == \A g \in Grants : uses[g] <= 1

\* docs/THREAT_MODEL.md: an access token is for the resource that its grant was
\* obtained for.
AudienceIsGrantResource ==
    \A t \in Tokens : Live(t) => audience[t] = grants[t].resource
=============================================================================
