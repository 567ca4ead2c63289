------------------------------- MODULE Login -------------------------------
(***************************************************************************)
(* The browser login of the sidecar: HandleRegister (as/dcr.go),           *)
(* HandleAuthorize (as/authorize.go), HandleCallback (as/callback.go), the *)
(* auth_sessions table (store/repos.go), the calls to the upstream         *)
(* provider (oidc/upstream.go) and the janitor's statements.               *)
(*                                                                         *)
(* A request makes one statement or one upstream call per step and         *)
(* requests interleave.  The upstream provider is external: it issues a    *)
(* code when a user logs in with a session's authorization URL and         *)
(* exchanges each code once, for the PKCE verifier of that session.        *)
(*                                                                         *)
(* The clients and codes tables are those of Grants; the module shows that *)
(* the login takes only the steps that Grants allows it.                   *)
(***************************************************************************)
EXTENDS Naturals, FiniteSets

CONSTANTS
    Clients,      \* client_ids
    Uris,         \* redirect URIs that validateRedirectURI accepts
    Challenges,   \* code_challenge values
    Resources,    \* protected resources: the rc of a request
    Sessions,     \* values of upstream_state, the key of auth_sessions
    Logins,       \* authorization codes of the upstream provider
    Users,        \* subjects at the upstream provider
    Unknown,      \* the sub of a user whose claims cannot be read
    Codes,        \* local authorization codes
    Requests,     \* concurrent requests
    None,         \* no client, code, session...
    SessionTTL,   \* the 10 minutes of authorize.go:120
    CodeTTL,      \* the 60 seconds of callback.go:165
    ClientTTL,    \* BOUNCER_CLIENT_TTL_DAYS
    MaxDelay,     \* longest time one request is under way
    MaxLogins,    \* bound on upstream logins per session
    MaxTime,      \* bound of the clock
    MaxFaults     \* bound on TouchClient statements that fail

ASSUME DurationAssumption ==
    /\ SessionTTL \in Nat /\ CodeTTL \in Nat /\ ClientTTL \in Nat
    /\ MaxDelay \in Nat /\ MaxLogins \in Nat /\ MaxTime \in Nat /\ MaxFaults \in Nat
ASSUME FiniteAssumption ==
    IsFiniteSet(Clients) /\ IsFiniteSet(Logins) /\ IsFiniteSet(Codes) /\ IsFiniteSet(Requests)
ASSUME NoneAssumption == None \notin Clients \cup Uris \cup Sessions \cup Logins \cup Users \cup Codes

VARIABLES
    clock,     \* wall-clock time in seconds
    clients,   \* the clients table, as in Grants
    uris,      \* its redirect_uris_json column
    sessions,  \* the auth_sessions table
    logins,    \* the upstream provider's codes
    codes,     \* the codes table, as in Grants
    req,       \* requests under way
    origin,    \* history: the session and the user a code was issued for
    untouched  \* history: clients on which a TouchClient failed

vars == <<clock, clients, uris, sessions, logins, codes, req, origin, untouched>>

\* The login as Grants sees it: no token requests, no refresh tokens.
G == INSTANCE Grants WITH
    Tokens <- {}, Requests <- {}, Bindings <- Uris \X Challenges,
    RefreshTTL <- 0, LoginSpan <- SessionTTL + 2 * MaxDelay, Strict <- FALSE,
    grants <- codes, uses <- [c \in Codes |-> 0], req <- [r \in {} |-> None],
    holder <- [t \in {} |-> None], audience <- [t \in {} |-> None], revoked <- {}, undeleted <- {}

-----------------------------------------------------------------------------
(* Rows and requests *)

Session(state, client, uri, challenge, resource, exp) ==
    [state |-> state, client |-> client, uri |-> uri, challenge |-> challenge,
     resource |-> resource, exp |-> exp]

NoSession == Session("unused", None, None, None, None, 0)

UpstreamLogin(state, session, user) == [state |-> state, session |-> session, user |-> user]

\* A request; for authorize, row is the session it is about to insert.
Request(pc, session, login, row, user, since) ==
    [pc |-> pc, session |-> session, login |-> login, row |-> row, user |-> user, since |-> since]

\* Mutant: the request is not reset completely.
IdleWithoutRow == Request("idle", None, None, None, None, 0)

Idle == Request("idle", None, None, NoSession, None, 0)

Busy(r) == req[r].pc # "idle"

Goto(r, pc) == req' = [req EXCEPT ![r].pc = pc]
Respond(r)  == req' = [req EXCEPT ![r] = Idle]

DeleteAuthSession(s) == sessions' = [sessions EXCEPT ![s].state = "gone"]

Init ==
    /\ clock = 0
    /\ clients = [c \in Clients |-> G!Client("unregistered", 0)]
    /\ uris = [c \in Clients |-> {}]
    /\ sessions = [s \in Sessions |-> NoSession]
    /\ logins = [u \in Logins |-> UpstreamLogin("unused", None, None)]
    /\ codes = [c \in Codes |-> G!NoGrant]
    /\ req = [r \in Requests |-> Idle]
    /\ origin = [c \in Codes |-> <<None, None>>]
    /\ untouched = {}

Tick ==
    /\ clock < MaxTime
    /\ \A r \in Requests : Busy(r) => clock < req[r].since + MaxDelay
    /\ clock' = clock + 1
    /\ UNCHANGED <<clients, uris, sessions, logins, codes, req, origin, untouched>>

-----------------------------------------------------------------------------
(* HandleRegister *)

Register(c) ==
    /\ clients[c].state = "unregistered"
    /\ clients' = [clients EXCEPT ![c] = G!Client("registered", clock)]
    /\ \E U \in SUBSET Uris : U # {} /\ uris' = [uris EXCEPT ![c] = U]
    /\ UNCHANGED <<clock, sessions, logins, codes, req, origin, untouched>>

-----------------------------------------------------------------------------
(* HandleAuthorize *)

\* GetClient finds the row.
Authorize(r) ==
    /\ ~ Busy(r)
    /\ \E c \in Clients, uri \in Uris, challenge \in Challenges, res \in Resources :
          /\ clients[c].state = "registered"
          /\ req' = [req EXCEPT ![r] =
                Request("touch", None, None, Session("live", c, uri, challenge, res, 0), None, clock)]
    /\ UNCHANGED <<clock, clients, uris, sessions, logins, codes, origin, untouched>>

CheckUri(r) ==
    IF req[r].row.uri \in uris[req[r].row.client] THEN Goto(r, "discover") ELSE Respond(r)

\* TouchClient, then the check of redirect_uri on the row read before.
TouchAndCheck(r) ==
    LET row == req[r].row IN
    /\ req[r].pc = "touch"
    /\ G!TouchClient(row.client)
    /\ CheckUri(r)
    /\ UNCHANGED <<clock, uris, sessions, logins, codes, origin, untouched>>

\* TouchClient fails and the error is ignored.
TouchFails(r) ==
    /\ Cardinality(untouched) < MaxFaults
    /\ req[r].pc = "touch"
    /\ untouched' = untouched \cup {req[r].row.client}
    /\ CheckUri(r)
    /\ UNCHANGED <<clock, clients, uris, sessions, logins, codes, origin>>

\* Discover, a fresh state and verifier, InsertAuthSession and the redirect.
InsertAuthSession(r) ==
    /\ req[r].pc = "discover"
    /\ \E s \in Sessions :
          /\ sessions[s].state = "unused"
          /\ sessions' = [sessions EXCEPT ![s] = [req[r].row EXCEPT !.exp = clock + SessionTTL]]
    /\ Respond(r)
    /\ UNCHANGED <<clock, clients, uris, logins, codes, origin, untouched>>

-----------------------------------------------------------------------------
(* The upstream provider *)

LoginsOf(s) == {u \in Logins : logins[u].session = s}

\* A user follows the authorization URL of session s and logs in.
LogIn(s, user) ==
    /\ sessions[s].state # "unused"
    /\ Cardinality(LoginsOf(s)) < MaxLogins
    /\ \E u \in Logins :
          /\ logins[u].state = "unused"
          /\ logins' = [logins EXCEPT ![u] = UpstreamLogin("issued", s, user)]
    /\ UNCHANGED <<clock, clients, uris, sessions, codes, req, origin, untouched>>

\* Mutant: no code_verifier is sent.
RedeemableByAnySession(u, s) == logins[u].state = "issued"

\* The provider redeems a code once, for the verifier of its session.
Redeemable(u, s) == logins[u].state = "issued" /\ logins[u].session = s

-----------------------------------------------------------------------------
(* HandleCallback *)

\* Mutant: the expiry of the session is not checked.
NeverExpired(s, frac) == FALSE

\* time.Now().After(ExpiresAt): rows hold whole seconds, now has a fraction.
Expired(s, frac) == clock + frac > sessions[s].exp

\* GetAuthSession and the expiry check.  The browser may present any state with
\* any code.  An expired session is deleted.
Callback(r) ==
    /\ ~ Busy(r)
    /\ \E s \in Sessions, u \in Logins, frac \in {0, 1} :
          /\ sessions[s].state = "live" /\ logins[u].state # "unused"
          /\ req' = [req EXCEPT ![r] =
                Request(IF Expired(s, frac) THEN "delete" ELSE "exchange",
                        s, u, sessions[s], None, clock)]
    /\ UNCHANGED <<clock, clients, uris, sessions, logins, codes, origin, untouched>>

\* The provider answers with an error: the session is deleted.
CallbackError(r) ==
    /\ ~ Busy(r)
    /\ \E s \in Sessions :
          /\ sessions[s].state = "live"
          /\ req' = [req EXCEPT ![r] = Request("delete", s, None, sessions[s], None, clock)]
    /\ UNCHANGED <<clock, clients, uris, sessions, logins, codes, origin, untouched>>

\* Mutant: the error of the exchange is not returned.
ExchangeErrorIgnored(r) ==
    LET u == req[r].login IN
    /\ req[r].pc = "exchange"
    /\ logins' = [logins EXCEPT ![u].state = IF Redeemable(u, req[r].session) THEN "spent" ELSE @]
    /\ req' = [req EXCEPT ![r].pc = "code", ![r].user = Unknown]
    /\ UNCHANGED <<clock, clients, uris, sessions, codes, origin, untouched>>

\* Discover and ExchangeCode.  The user is the sub of the id_token or of
\* userinfo, or unknown when neither can be read.
ExchangeCode(r) ==
    LET u == req[r].login IN
    /\ req[r].pc = "exchange"
    /\ IF Redeemable(u, req[r].session)
       THEN /\ logins' = [logins EXCEPT ![u].state = "spent"]
            /\ \E user \in {logins[u].user, Unknown} :
                  req' = [req EXCEPT ![r].pc = "code", ![r].user = user]
       ELSE Respond(r) /\ UNCHANGED logins
    /\ UNCHANGED <<clock, clients, uris, sessions, codes, origin, untouched>>

\* Encrypt and InsertCode with the columns of the session read before.
InsertCode(r) ==
    LET row == req[r].row IN
    /\ req[r].pc = "code"
    /\ \E c \in Codes, upstream \in {"absent", "stored"} :
          /\ codes[c].state = "unused"
          /\ codes' = [codes EXCEPT ![c] = G!Grant("live", row.client, <<row.uri, row.challenge>>,
                                                   row.resource, upstream, clock + CodeTTL)]
          /\ origin' = [origin EXCEPT ![c] = <<req[r].session, req[r].user>>]
    /\ Goto(r, "delete")
    /\ UNCHANGED <<clock, clients, uris, sessions, logins, untouched>>

\* DeleteAuthSession, then the answer.
DeleteSession(r) ==
    /\ req[r].pc = "delete"
    /\ DeleteAuthSession(req[r].session)
    /\ Respond(r)
    /\ UNCHANGED <<clock, clients, uris, logins, codes, origin, untouched>>

\* A statement, an upstream call or the process fails: the request ends here.
Abort(r) ==
    /\ Busy(r)
    /\ Respond(r)
    /\ UNCHANGED <<clock, clients, uris, sessions, logins, codes, origin, untouched>>

-----------------------------------------------------------------------------
(* The janitor's statements *)

DeleteExpiredAuthSessions ==
    /\ sessions' = [s \in Sessions |->
          IF sessions[s].state = "live" /\ sessions[s].exp <= clock
          THEN [sessions[s] EXCEPT !.state = "gone"] ELSE sessions[s]]
    /\ UNCHANGED <<clock, clients, uris, logins, codes, req, origin, untouched>>

JanitorClients ==
    /\ clients' = [c \in Clients |->
          IF G!Stale(c) THEN G!Client("gone", clients[c].lastUsed) ELSE clients[c]]
    /\ UNCHANGED <<clock, uris, sessions, logins, codes, req, origin, untouched>>

Serve(r) ==
    \/ Authorize(r) \/ TouchAndCheck(r) \/ TouchFails(r) \/ InsertAuthSession(r)
    \/ Callback(r) \/ CallbackError(r) \/ ExchangeCode(r) \/ InsertCode(r) \/ DeleteSession(r)
    \/ Abort(r)

Next ==
    \/ Tick \/ DeleteExpiredAuthSessions \/ JanitorClients
    \/ \E c \in Clients : Register(c)
    \/ \E s \in Sessions, user \in Users : LogIn(s, user)
    \/ \E r \in Requests : Serve(r)

Spec == Init /\ [][Next]_vars

-----------------------------------------------------------------------------
(* Properties *)

Rows == [state : {"unused", "live", "gone"}, client : Clients \cup {None},
         uri : Uris \cup {None}, challenge : Challenges \cup {None},
         resource : Resources \cup {None}, exp : Nat]

RequestStates ==
    [pc : {"idle", "touch", "discover", "exchange", "code", "delete"},
     session : Sessions \cup {None}, login : Logins \cup {None}, row : Rows,
     user : Users \cup {None, Unknown}, since : Nat]

\* Every table, request and history variable keeps its type.
TypeOK ==
    /\ clock \in Nat
    /\ clients \in [Clients -> [state : {"unregistered", "registered", "gone"}, lastUsed : Nat]]
    /\ uris \in [Clients -> SUBSET Uris]
    /\ sessions \in [Sessions -> Rows]
    /\ logins \in [Logins -> [state : {"unused", "issued", "spent"},
                              session : Sessions \cup {None}, user : Users \cup {None}]]
    /\ codes \in [Codes -> [state : {"unused", "live", "gone"}, client : Clients \cup {None},
                            binding : (Uris \X Challenges) \cup {None},
                            resource : Resources \cup {None},
                            upstream : {"absent", "stored"}, exp : Nat]]
    /\ req \in [Requests -> RequestStates]
    /\ origin \in [Codes -> (Sessions \cup {None}) \X (Users \cup {None, Unknown})]
    /\ untouched \subseteq Clients

CodesOf(s) == {c \in Codes : origin[c][1] = s}

SpentLogins(s) == {u \in LoginsOf(s) : logins[u].state = "spent"}

\* A session yields no more codes than users have logged in with it upstream,
\* whether the callback is repeated, races itself or dies between InsertCode and
\* DeleteAuthSession (callback.go:167 and :173): not the session, which is
\* deleted last, but the upstream code is what makes a callback single-use.
OneCodePerLogin ==
    \A s \in Sessions : Cardinality(CodesOf(s)) <= Cardinality(SpentLogins(s))

\* A code carries the user who logged in with the authorization URL of its own
\* session, even if the browser swaps states and codes of two logins: the
\* upstream PKCE verifier of the session row ties the two (callback.go:84).
CodeHasSessionUser ==
    \A c \in Codes : origin[c][1] # None =>
        \E u \in SpentLogins(origin[c][1]) : origin[c][2] \in {logins[u].user, Unknown}

\* The login takes only the steps that Grants allows it: a code is inserted for
\* a client that authorize touched at most SessionTTL + 2 * MaxDelay ago, unless
\* its row is gone or the TouchClient failed.
ImplementsGrants == G!Spec
=============================================================================
