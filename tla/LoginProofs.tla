---------------------------- MODULE LoginProofs ----------------------------
(***************************************************************************)
(* Proofs about Login, for any number of clients, sessions, upstream       *)
(* logins and concurrent requests: types, what a request under way relies  *)
(* on, that codes carry the user of their session, that a session yields   *)
(* no more codes than upstream logins, and that the login implements what  *)
(* Grants assumes of it.                                                   *)
(***************************************************************************)
EXTENDS Login, TLAPS, FiniteSetTheorems

\* The columns of a session that authorize has filled in.
Columns(row) ==
    /\ row.client \in Clients /\ row.uri \in Uris
    /\ row.challenge \in Challenges /\ row.resource \in Resources

\* A registered client was touched so recently that what it began may last
\* until d and the length of a session, and a request, more.
UsedFor(c, d) ==
    /\ clients[c].state # "unregistered"
    /\ clients[c].state = "registered" /\ c \notin untouched =>
          d <= clients[c].lastUsed + SessionTTL + MaxDelay

\* The user has logged in upstream with the session.
UserKnown(s, user) == \E u \in SpentLogins(s) : user \in {logins[u].user, Unknown}

\* What a request under way relies on between two of its steps.
RequestOK(r) ==
    /\ Busy(r) => req[r].since <= clock /\ clock <= req[r].since + MaxDelay
    /\ req[r].pc \in {"touch", "discover"} => req[r].row.state = "live" /\ Columns(req[r].row)
    /\ req[r].pc = "touch" => clients[req[r].row.client].state # "unregistered"
    /\ req[r].pc = "discover" => UsedFor(req[r].row.client, req[r].since + SessionTTL + MaxDelay)
    /\ req[r].pc \in {"exchange", "code"} =>
          Columns(req[r].row) /\ UsedFor(req[r].row.client, req[r].row.exp)
                              /\ req[r].since <= req[r].row.exp
    /\ req[r].pc \in {"exchange", "code", "delete"} => req[r].session \in Sessions
    /\ req[r].pc = "exchange" => req[r].login \in Logins
    /\ req[r].pc = "code" => UserKnown(req[r].session, req[r].user)

\* The requests that are about to insert a code for session s.
Minters(s) == {r \in Requests : req[r].pc = "code" /\ req[r].session = s}

Counted(s) ==
    Cardinality(CodesOf(s)) + Cardinality(Minters(s)) <= Cardinality(SpentLogins(s))

TablesInv ==
    /\ \A c \in Clients : clients[c].lastUsed <= clock
    /\ \A s \in Sessions : sessions[s].state = "live" =>
          Columns(sessions[s]) /\ UsedFor(sessions[s].client, sessions[s].exp)
    /\ \A c \in Codes : codes[c].state = "unused" => origin[c] = <<None, None>>
    /\ CodeHasSessionUser

RequestInv == \A r \in Requests : RequestOK(r)

CountInv == \A s \in Sessions : Counted(s)

LoginInv == TablesInv /\ RequestInv /\ CountInv

-----------------------------------------------------------------------------
(* Requests *)

\* Answering a request leaves the others alone.
LEMMA RespondFact ==
    ASSUME TypeOK, NEW r \in Requests, Respond(r)
    PROVE  /\ req' \in [Requests -> RequestStates]
           /\ req'[r] = Idle /\ req'[r].pc = "idle"
           /\ \A q \in Requests : q # r => req'[q] = req[q]
<1>1. Idle \in RequestStates /\ Idle.pc = "idle"
  BY DEF Idle, Request, RequestStates, NoSession, Session, Rows
<1> QED
  BY <1>1 DEF TypeOK, Respond

\* Moving a request on keeps what it has in memory.
LEMMA GotoFact ==
    ASSUME TypeOK, NEW r \in Requests, NEW pc \in {"discover", "delete"}, Goto(r, pc)
    PROVE  /\ req' \in [Requests -> RequestStates]
           /\ req'[r].pc = pc /\ req'[r].session = req[r].session
           /\ req'[r].row = req[r].row /\ req'[r].since = req[r].since
           /\ \A q \in Requests : q # r => req'[q] = req[q]
<1>1. req \in [Requests -> RequestStates] /\ req[r] \in RequestStates
  BY DEF TypeOK
<1>2. req' = [req EXCEPT ![r] = [req[r] EXCEPT !.pc = pc]]
  BY <1>1 DEF Goto
<1>3. /\ [req[r] EXCEPT !.pc = pc] \in RequestStates
      /\ [req[r] EXCEPT !.pc = pc].pc = pc
      /\ [req[r] EXCEPT !.pc = pc].session = req[r].session
      /\ [req[r] EXCEPT !.pc = pc].row = req[r].row
      /\ [req[r] EXCEPT !.pc = pc].since = req[r].since
  BY <1>1 DEF RequestStates
<1> QED
  BY <1>1, <1>2, <1>3

\* A new request.
LEMMA RequestFact ==
    ASSUME TypeOK, NEW r \in Requests,
           NEW pc \in {"touch", "exchange", "delete"}, NEW s \in Sessions \cup {None},
           NEW u \in Logins \cup {None}, NEW row \in Rows,
           req' = [req EXCEPT ![r] = Request(pc, s, u, row, None, clock)]
    PROVE  /\ req' \in [Requests -> RequestStates]
           /\ req'[r].pc = pc /\ req'[r].session = s /\ req'[r].login = u
           /\ req'[r].row = row /\ req'[r].since = clock
           /\ \A q \in Requests : q # r => req'[q] = req[q]
<1> DEFINE x == Request(pc, s, u, row, None, clock)
<1>1. /\ x \in RequestStates
      /\ x.pc = pc /\ x.session = s /\ x.login = u /\ x.row = row /\ x.since = clock
  BY DEF Request, RequestStates, TypeOK
<1>2. req \in [Requests -> RequestStates]
  BY DEF TypeOK
<1> HIDE DEF x
<1> QED
  BY <1>1, <1>2 DEF x

\* The provider has redeemed the upstream code.
LEMMA ExchangedFact ==
    ASSUME TypeOK, NEW r \in Requests, NEW user \in Users \cup {None, Unknown},
           req' = [req EXCEPT ![r].pc = "code", ![r].user = user]
    PROVE  /\ req' \in [Requests -> RequestStates]
           /\ req'[r].pc = "code" /\ req'[r].user = user /\ req'[r].session = req[r].session
           /\ req'[r].row = req[r].row /\ req'[r].since = req[r].since
           /\ \A q \in Requests : q # r => req'[q] = req[q]
<1> DEFINE x == [req[r] EXCEPT !.pc = "code"]
           y == [x EXCEPT !.user = user]
<1>1. req \in [Requests -> RequestStates] /\ req[r] \in RequestStates
  BY DEF TypeOK
<1>2. req' = [req EXCEPT ![r] = y]
  BY <1>1
<1>3. /\ x \in RequestStates /\ x.pc = "code" /\ x.session = req[r].session
      /\ x.row = req[r].row /\ x.since = req[r].since
  BY <1>1 DEF RequestStates
<1> HIDE DEF x
<1>4. /\ y \in RequestStates /\ y.pc = "code" /\ y.user = user /\ y.session = req[r].session
      /\ y.row = req[r].row /\ y.since = req[r].since
  BY <1>3 DEF RequestStates
<1> HIDE DEF y
<1> QED
  BY <1>1, <1>2, <1>4

-----------------------------------------------------------------------------
(* Clients and upstream logins *)

\* A client row is inserted once and its last_used_at only grows.
ClientsGrow ==
    /\ \A c \in Clients : clients[c].state # "unregistered" =>
          /\ clients'[c].state # "unregistered"
          /\ clients'[c].state = "registered" =>
                clients[c].state = "registered" /\ clients[c].lastUsed <= clients'[c].lastUsed
    /\ untouched \subseteq untouched'

ClientRows == [Clients -> [state : {"unregistered", "registered", "gone"}, lastUsed : Nat]]

\* A statement on the clients table keeps its type, lets it grow, and writes no
\* last_used_at of the future.
LEMMA ClientStatement ==
    ASSUME TypeOK, TablesInv, NEW c \in Clients, UNCHANGED <<clock, untouched>>,
           clients[c].state \in {"unregistered", "registered"},
           clients' = [clients EXCEPT ![c] = G!Client("registered", clock)]
    PROVE  /\ clients' \in ClientRows /\ ClientsGrow
           /\ \A d \in Clients : clients'[d].lastUsed <= clock'
           /\ clients'[c].state = "registered" /\ clients'[c].lastUsed = clock
<1>1. /\ G!Client("registered", clock) \in [state : {"unregistered", "registered", "gone"}, lastUsed : Nat]
      /\ G!Client("registered", clock).state = "registered"
      /\ G!Client("registered", clock).lastUsed = clock
  BY DEF G!Client, TypeOK
<1>2. \A d \in Clients : clients[d].lastUsed \in Nat /\ clients[d].lastUsed <= clock
  BY DEF TypeOK, TablesInv
<1>3. clock \in Nat /\ clients \in ClientRows
  BY DEF TypeOK, ClientRows
<1> QED
  BY <1>1, <1>2, <1>3 DEF ClientsGrow, ClientRows

\* The janitor's DELETE on clients.
LEMMA JanitorStatement ==
    ASSUME TypeOK, TablesInv, JanitorClients
    PROVE  /\ clients' \in ClientRows /\ ClientsGrow
           /\ \A d \in Clients : clients'[d].lastUsed <= clock'
<1>1. \A c \in Clients :
        /\ clients[c] \in [state : {"unregistered", "registered", "gone"}, lastUsed : Nat]
        /\ clients[c].lastUsed <= clock
  BY DEF TypeOK, TablesInv
<1>2. \A c \in Clients :
        clients'[c] = clients[c] \/ (/\ clients[c].state = "registered"
                                     /\ clients'[c] = G!Client("gone", clients[c].lastUsed))
  BY DEF JanitorClients, G!Stale
<1>3. \A c \in Clients :
        /\ G!Client("gone", clients[c].lastUsed)
              \in [state : {"unregistered", "registered", "gone"}, lastUsed : Nat]
        /\ G!Client("gone", clients[c].lastUsed).state = "gone"
        /\ G!Client("gone", clients[c].lastUsed).lastUsed = clients[c].lastUsed
  BY <1>1 DEF G!Client
<1>4. clients' \in ClientRows
  BY <1>1, <1>2, <1>3 DEF JanitorClients, ClientRows
<1>5. UNCHANGED <<clock, untouched>>
  BY DEF JanitorClients
<1>6. ASSUME NEW c \in Clients
      PROVE  /\ clients'[c].lastUsed <= clock'
             /\ clients[c].state # "unregistered" =>
                  /\ clients'[c].state # "unregistered"
                  /\ clients'[c].state = "registered" =>
                        clients[c].state = "registered" /\ clients[c].lastUsed <= clients'[c].lastUsed
  <2>1. CASE clients'[c] = clients[c]
    BY <1>1, <1>5, <2>1
  <2>2. CASE /\ clients[c].state = "registered"
             /\ clients'[c] = G!Client("gone", clients[c].lastUsed)
    BY <1>1, <1>3, <1>5, <2>2
  <2> QED
    BY <1>2, <2>1, <2>2
<1> QED
  BY <1>4, <1>5, <1>6 DEF ClientsGrow

\* A step that leaves clients alone.
LEMMA ClientsStay ==
    ASSUME TypeOK, TablesInv, UNCHANGED clients, untouched \subseteq untouched',
           clock' \in {clock, clock + 1}
    PROVE  /\ clients' \in ClientRows /\ ClientsGrow
           /\ \A d \in Clients : clients'[d].lastUsed <= clock'
  BY DEF TypeOK, TablesInv, ClientsGrow, ClientRows

\* Every step.
LEMMA ClientsAlwaysGrow ==
    ASSUME TypeOK, LoginInv, [Next]_vars
    PROVE  /\ clients' \in ClientRows /\ ClientsGrow
           /\ \A d \in Clients : clients'[d].lastUsed <= clock'
<1> USE DEF LoginInv
<1>1. CASE UNCHANGED clients /\ untouched \subseteq untouched' /\ clock' \in {clock, clock + 1}
  BY <1>1, ClientsStay
<1>2. CASE JanitorClients
  BY <1>2, JanitorStatement
<1>3. ASSUME NEW c \in Clients, Register(c)
      PROVE  /\ clients' \in ClientRows /\ ClientsGrow
             /\ \A d \in Clients : clients'[d].lastUsed <= clock'
  BY <1>3, ClientStatement DEF Register
<1>4. ASSUME NEW r \in Requests, TouchAndCheck(r)
      PROVE  /\ clients' \in ClientRows /\ ClientsGrow
             /\ \A d \in Clients : clients'[d].lastUsed <= clock'
  <2> DEFINE c == req[r].row.client
  <2>1. c \in Clients
    BY <1>4 DEF TouchAndCheck, RequestInv, RequestOK, Columns
  <2>2. CASE clients[c].state = "registered"
    BY <1>4, <2>1, <2>2, ClientStatement DEF TouchAndCheck, G!TouchClient
  <2>3. CASE clients[c].state # "registered"
    <3>1. UNCHANGED <<clients, clock, untouched>>
      BY <1>4, <2>3 DEF TouchAndCheck, G!TouchClient
    <3> QED
      BY <1>1, <3>1
  <2> QED
    BY <2>2, <2>3
<1>5. ASSUME NEW r \in Requests, Serve(r), ~TouchAndCheck(r)
      PROVE  UNCHANGED <<clients, clock>> /\ untouched \subseteq untouched'
  BY <1>5 DEF Serve, Authorize, TouchFails, InsertAuthSession, Callback, CallbackError,
              ExchangeCode, InsertCode, DeleteSession, Abort
<1>6. CASE Tick \/ DeleteExpiredAuthSessions \/ UNCHANGED vars
  BY <1>1, <1>6 DEF Tick, DeleteExpiredAuthSessions, vars
<1>7. CASE \E s \in Sessions, user \in Users : LogIn(s, user)
  BY <1>1, <1>7 DEF LogIn
<1> QED
  BY <1>1, <1>2, <1>3, <1>4, <1>5, <1>6, <1>7 DEF Next

\* An upstream code that was redeemed stays so, for its session and user.
LoginsGrow ==
    \A s \in Sessions : \A u \in SpentLogins(s) :
        u \in SpentLogins(s)' /\ logins'[u].user = logins[u].user

LoginRows == [Logins -> [state : {"unused", "issued", "spent"},
                         session : Sessions \cup {None}, user : Users \cup {None}]]

\* A login at the provider.
LEMMA LogInFact ==
    ASSUME TypeOK, NEW s \in Sessions, NEW user \in Users, LogIn(s, user)
    PROVE  /\ logins' \in LoginRows /\ LoginsGrow
           /\ \A x \in Sessions : SpentLogins(x)' = SpentLogins(x)
<1>1. PICK u \in Logins :
        logins[u].state = "unused" /\ logins' = [logins EXCEPT ![u] = UpstreamLogin("issued", s, user)]
  BY DEF LogIn
<1>2. /\ UpstreamLogin("issued", s, user) \in [state : {"unused", "issued", "spent"},
            session : Sessions \cup {None}, user : Users \cup {None}]
      /\ UpstreamLogin("issued", s, user).state = "issued"
  BY DEF UpstreamLogin
<1>3. logins \in LoginRows
  BY DEF TypeOK, LoginRows
<1>4. /\ logins' \in LoginRows /\ logins'[u].state = "issued"
      /\ \A v \in Logins : v # u => logins'[v] = logins[v]
  BY <1>1, <1>2, <1>3 DEF LoginRows
<1>5. \A x \in Sessions : SpentLogins(x)' = SpentLogins(x)
  BY <1>1, <1>4 DEF SpentLogins, LoginsOf
<1>6. \A x \in Sessions : \A v \in SpentLogins(x) : logins'[v] = logins[v]
  BY <1>1, <1>4 DEF SpentLogins, LoginsOf
<1> QED
  BY <1>4, <1>5, <1>6 DEF LoginsGrow

\* The provider redeems a code.
LEMMA RedeemFact ==
    ASSUME TypeOK, NEW u \in Logins, NEW s \in Sessions, Redeemable(u, s),
           logins' = [logins EXCEPT ![u].state = "spent"]
    PROVE  /\ logins' \in LoginRows /\ LoginsGrow
           /\ u \notin SpentLogins(s) /\ SpentLogins(s)' = SpentLogins(s) \cup {u}
           /\ logins'[u].user = logins[u].user
           /\ \A x \in Sessions : x # s => SpentLogins(x)' = SpentLogins(x)
<1> DEFINE y == [logins[u] EXCEPT !.state = "spent"]
<1>1. logins \in LoginRows /\ logins[u].state = "issued" /\ logins[u].session = s
  BY DEF TypeOK, LoginRows, Redeemable
<1>2. /\ y \in [state : {"unused", "issued", "spent"}, session : Sessions \cup {None},
                user : Users \cup {None}]
      /\ y.state = "spent" /\ y.session = s /\ y.user = logins[u].user
  BY <1>1 DEF LoginRows
<1>3. logins' = [logins EXCEPT ![u] = y]
  BY <1>1 DEF LoginRows
<1> HIDE DEF y
<1>4. /\ logins' \in LoginRows /\ logins'[u] = y
      /\ \A v \in Logins : v # u => logins'[v] = logins[v]
  BY <1>1, <1>2, <1>3 DEF LoginRows
<1>5. u \notin SpentLogins(s) /\ SpentLogins(s)' = SpentLogins(s) \cup {u}
  BY <1>1, <1>2, <1>4 DEF SpentLogins, LoginsOf
<1>6. \A x \in Sessions : x # s => SpentLogins(x)' = SpentLogins(x)
  BY <1>1, <1>2, <1>4 DEF SpentLogins, LoginsOf
<1>7. \A x \in Sessions : \A v \in SpentLogins(x) : logins'[v].user = logins[v].user
  BY <1>2, <1>4 DEF SpentLogins, LoginsOf
<1> QED
  BY <1>2, <1>4, <1>5, <1>6, <1>7 DEF LoginsGrow

\* Every step.
LEMMA LoginsAlwaysGrow ==
    ASSUME TypeOK, LoginInv, [Next]_vars
    PROVE  logins' \in LoginRows /\ LoginsGrow
<1>1. CASE UNCHANGED logins
  BY <1>1 DEF TypeOK, LoginRows, LoginsGrow, SpentLogins, LoginsOf
<1>2. ASSUME NEW s \in Sessions, NEW user \in Users, LogIn(s, user)
      PROVE  logins' \in LoginRows /\ LoginsGrow
  BY <1>2, LogInFact
<1>3. ASSUME NEW r \in Requests, ExchangeCode(r)
      PROVE  logins' \in LoginRows /\ LoginsGrow
  <2>1. req[r].login \in Logins /\ req[r].session \in Sessions
    BY <1>3 DEF ExchangeCode, LoginInv, RequestInv, RequestOK
  <2>2. CASE Redeemable(req[r].login, req[r].session)
    BY <1>3, <2>1, <2>2, RedeemFact DEF ExchangeCode
  <2>3. CASE ~Redeemable(req[r].login, req[r].session)
    BY <1>1, <1>3, <2>3 DEF ExchangeCode
  <2> QED
    BY <2>2, <2>3
<1>4. ASSUME NEW r \in Requests, Serve(r), ~ExchangeCode(r)
      PROVE  UNCHANGED logins
  BY <1>4 DEF Serve, Authorize, TouchAndCheck, TouchFails, InsertAuthSession, Callback,
              CallbackError, InsertCode, DeleteSession, Abort
<1>5. CASE Tick \/ DeleteExpiredAuthSessions \/ JanitorClients \/ UNCHANGED vars
  BY <1>1, <1>5 DEF Tick, DeleteExpiredAuthSessions, JanitorClients, vars
<1>6. CASE \E c \in Clients : Register(c)
  BY <1>1, <1>6 DEF Register
<1> QED
  BY <1>1, <1>2, <1>3, <1>4, <1>5, <1>6 DEF Next

-----------------------------------------------------------------------------
(* Types *)

\* The requests keep their type: one case per action.
LEMMA RequestTypes ==
    ASSUME TypeOK, LoginInv, [Next]_vars
    PROVE  req' \in [Requests -> RequestStates]
<1>1. CASE UNCHANGED req
  BY <1>1 DEF TypeOK
<1>2. ASSUME NEW r \in Requests, Respond(r) PROVE req' \in [Requests -> RequestStates]
  BY <1>2, RespondFact
<1>3. ASSUME NEW r \in Requests, Authorize(r) PROVE req' \in [Requests -> RequestStates]
  <2>1. PICK c \in Clients, uri \in Uris, challenge \in Challenges, res \in Resources :
          req' = [req EXCEPT ![r] =
             Request("touch", None, None, Session("live", c, uri, challenge, res, 0), None, clock)]
    BY <1>3 DEF Authorize
  <2>2. Session("live", c, uri, challenge, res, 0) \in Rows
    BY DEF Session, Rows
  <2> QED
    BY <2>1, <2>2, RequestFact
<1>4. ASSUME NEW r \in Requests, CheckUri(r) PROVE req' \in [Requests -> RequestStates]
  BY <1>2, <1>4, GotoFact DEF CheckUri
<1>5. ASSUME NEW r \in Requests, Callback(r) PROVE req' \in [Requests -> RequestStates]
  <2>1. PICK s \in Sessions, u \in Logins, frac \in {0, 1} :
          req' = [req EXCEPT ![r] =
             Request(IF Expired(s, frac) THEN "delete" ELSE "exchange", s, u, sessions[s], None, clock)]
    BY <1>5 DEF Callback
  <2>2. sessions[s] \in Rows
    BY DEF TypeOK
  <2>3. CASE Expired(s, frac)
    BY <2>1, <2>2, <2>3, RequestFact
  <2>4. CASE ~Expired(s, frac)
    BY <2>1, <2>2, <2>4, RequestFact
  <2> QED
    BY <2>3, <2>4
<1>6. ASSUME NEW r \in Requests, CallbackError(r) PROVE req' \in [Requests -> RequestStates]
  <2>1. PICK s \in Sessions :
          req' = [req EXCEPT ![r] = Request("delete", s, None, sessions[s], None, clock)]
    BY <1>6 DEF CallbackError
  <2>2. sessions[s] \in Rows
    BY DEF TypeOK
  <2> QED
    BY <2>1, <2>2, RequestFact
<1>7. ASSUME NEW r \in Requests, ExchangeCode(r) PROVE req' \in [Requests -> RequestStates]
  <2>1. req[r].login \in Logins
    BY <1>7 DEF ExchangeCode, LoginInv, RequestInv, RequestOK
  <2>2. logins[req[r].login].user \in Users \cup {None, Unknown}
    BY <2>1 DEF TypeOK
  <2>3. CASE ~Respond(r)
    <3>1. PICK user \in {logins[req[r].login].user, Unknown} :
            req' = [req EXCEPT ![r].pc = "code", ![r].user = user]
      BY <1>7, <2>3 DEF ExchangeCode
    <3> QED
      BY <2>2, <3>1, ExchangedFact
  <2> QED
    BY <1>2, <2>3
<1>8. ASSUME NEW r \in Requests, InsertCode(r) PROVE req' \in [Requests -> RequestStates]
  BY <1>8, GotoFact DEF InsertCode
<1>9. ASSUME NEW r \in Requests, Serve(r) PROVE req' \in [Requests -> RequestStates]
  BY <1>2, <1>3, <1>4, <1>5, <1>6, <1>7, <1>8, <1>9
     DEF Serve, TouchAndCheck, TouchFails, InsertAuthSession, DeleteSession, Abort
<1>10. CASE \/ Tick \/ DeleteExpiredAuthSessions \/ JanitorClients \/ UNCHANGED vars
            \/ \E c \in Clients : Register(c)
            \/ \E s \in Sessions, user \in Users : LogIn(s, user)
  BY <1>1, <1>10 DEF Tick, DeleteExpiredAuthSessions, JanitorClients, vars, Register, LogIn
<1> QED
  BY <1>9, <1>10 DEF Next

\* The sessions keep their type and, as long as they are live, the columns they
\* were inserted with.
LEMMA SessionsStep ==
    ASSUME TypeOK, LoginInv, [Next]_vars
    PROVE  /\ sessions' \in [Sessions -> Rows]
           /\ \A s \in Sessions : sessions'[s].state = "live" =>
                 \/ sessions'[s] = sessions[s]
                 \/ \E r \in Requests :
                       /\ req[r].pc = "discover" /\ clock' = clock
                       /\ sessions'[s] = [req[r].row EXCEPT !.exp = clock + SessionTTL]
<1>1. CASE UNCHANGED sessions
  BY <1>1 DEF TypeOK
<1>2. ASSUME NEW r \in Requests, InsertAuthSession(r)
      PROVE  /\ sessions' \in [Sessions -> Rows]
             /\ \A s \in Sessions : sessions'[s].state = "live" =>
                   \/ sessions'[s] = sessions[s]
                   \/ /\ req[r].pc = "discover" /\ clock' = clock
                      /\ sessions'[s] = [req[r].row EXCEPT !.exp = clock + SessionTTL]
  <2>1. PICK x \in Sessions :
          sessions' = [sessions EXCEPT ![x] = [req[r].row EXCEPT !.exp = clock + SessionTTL]]
    BY <1>2 DEF InsertAuthSession
  <2>2. req[r].row \in Rows
    BY DEF TypeOK, RequestStates
  <2>3. clock + SessionTTL \in Nat
    BY DurationAssumption DEF TypeOK
  <2>4. [req[r].row EXCEPT !.exp = clock + SessionTTL] \in Rows
    BY <2>2, <2>3 DEF Rows
  <2>5. req[r].pc = "discover" /\ clock' = clock
    BY <1>2 DEF InsertAuthSession
  <2> QED
    BY <2>1, <2>4, <2>5 DEF TypeOK
<1>3. ASSUME NEW r \in Requests, DeleteSession(r)
      PROVE  /\ sessions' \in [Sessions -> Rows]
             /\ \A s \in Sessions : sessions'[s].state = "live" => sessions'[s] = sessions[s]
  <2>1. sessions' = [sessions EXCEPT ![req[r].session].state = "gone"]
    BY <1>3 DEF DeleteSession, DeleteAuthSession
  <2>2. req[r].session \in Sessions
    BY <1>3 DEF DeleteSession, LoginInv, RequestInv, RequestOK
  <2>3. sessions[req[r].session] \in Rows
    BY <2>2 DEF TypeOK
  <2>4. /\ [sessions[req[r].session] EXCEPT !.state = "gone"] \in Rows
        /\ [sessions[req[r].session] EXCEPT !.state = "gone"].state = "gone"
    BY <2>3 DEF Rows
  <2>5. sessions' = [sessions EXCEPT ![req[r].session] =
                        [sessions[req[r].session] EXCEPT !.state = "gone"]]
    BY <2>1, <2>2 DEF TypeOK
  <2> QED
    BY <2>2, <2>4, <2>5 DEF TypeOK
<1>4. CASE DeleteExpiredAuthSessions
  <2>1. \A s \in Sessions : /\ [sessions[s] EXCEPT !.state = "gone"] \in Rows
                            /\ [sessions[s] EXCEPT !.state = "gone"].state = "gone"
    <3> TAKE s \in Sessions
    <3>1. sessions[s] \in Rows
      BY DEF TypeOK
    <3> QED
      BY <3>1 DEF Rows
  <2>2. \A s \in Sessions : sessions[s] \in Rows
    BY DEF TypeOK
  <2>3. sessions' = [s \in Sessions |->
          IF sessions[s].state = "live" /\ sessions[s].exp <= clock
          THEN [sessions[s] EXCEPT !.state = "gone"] ELSE sessions[s]]
    BY <1>4 DEF DeleteExpiredAuthSessions
  <2> QED
    BY <2>1, <2>2, <2>3
<1>5. ASSUME NEW r \in Requests, Serve(r), ~InsertAuthSession(r), ~DeleteSession(r)
      PROVE  UNCHANGED sessions
  BY <1>5 DEF Serve, Authorize, TouchAndCheck, TouchFails, Callback, CallbackError,
              ExchangeCode, InsertCode, Abort
<1>6. CASE \/ Tick \/ JanitorClients \/ UNCHANGED vars
           \/ \E c \in Clients : Register(c)
           \/ \E s \in Sessions, user \in Users : LogIn(s, user)
  BY <1>1, <1>6 DEF Tick, JanitorClients, vars, Register, LogIn
<1> QED
  BY <1>1, <1>2, <1>3, <1>4, <1>5, <1>6 DEF Next

CodeRows == [Codes -> [state : {"unused", "live", "gone"}, client : Clients \cup {None},
                       binding : (Uris \X Challenges) \cup {None},
                       resource : Resources \cup {None},
                       upstream : {"absent", "stored"}, exp : Nat]]

Origins == [Codes -> (Sessions \cup {None}) \X (Users \cup {None, Unknown})]

\* The codes table and where its rows come from change by InsertCode only.
LEMMA InsertCodeFact ==
    ASSUME TypeOK, LoginInv, NEW r \in Requests, InsertCode(r)
    PROVE  /\ codes' \in CodeRows /\ origin' \in Origins
           /\ \E c \in Codes : /\ codes[c].state = "unused" /\ codes'[c].state = "live"
                               /\ origin'[c] = <<req[r].session, req[r].user>>
                               /\ \A d \in Codes : d # c => /\ codes'[d] = codes[d]
                                                           /\ origin'[d] = origin[d]
<1> DEFINE row == req[r].row
<1>1. PICK c \in Codes, upstream \in {"absent", "stored"} :
        /\ codes[c].state = "unused"
        /\ codes' = [codes EXCEPT ![c] = G!Grant("live", row.client, <<row.uri, row.challenge>>,
                                                 row.resource, upstream, clock + CodeTTL)]
        /\ origin' = [origin EXCEPT ![c] = <<req[r].session, req[r].user>>]
  BY DEF InsertCode
<1>2. Columns(row) /\ req[r].session \in Sessions /\ req[r].user \in Users \cup {None, Unknown}
  BY DEF InsertCode, LoginInv, RequestInv, RequestOK, TypeOK, RequestStates
<1>3. clock + CodeTTL \in Nat
  BY DurationAssumption DEF TypeOK
<1> HIDE DEF row
<1> DEFINE g == G!Grant("live", row.client, <<row.uri, row.challenge>>, row.resource, upstream,
                        clock + CodeTTL)
<1>4. /\ g \in [state : {"unused", "live", "gone"}, client : Clients \cup {None},
               binding : (Uris \X Challenges) \cup {None}, resource : Resources \cup {None},
               upstream : {"absent", "stored"}, exp : Nat]
      /\ g.state = "live"
  BY <1>2, <1>3 DEF G!Grant, Columns
<1>5. codes \in CodeRows /\ origin \in Origins
  BY DEF TypeOK, CodeRows, Origins
<1>6. codes' = [codes EXCEPT ![c] = g]
  BY <1>1
<1> HIDE DEF g
<1>7. codes' \in CodeRows /\ codes'[c].state = "live" /\ \A d \in Codes : d # c => codes'[d] = codes[d]
  BY <1>4, <1>5, <1>6 DEF CodeRows
<1>8. <<req[r].session, req[r].user>> \in (Sessions \cup {None}) \X (Users \cup {None, Unknown})
  BY <1>2
<1>9. /\ origin' \in Origins /\ origin'[c] = <<req[r].session, req[r].user>>
      /\ \A d \in Codes : d # c => origin'[d] = origin[d]
  BY <1>1, <1>5, <1>8 DEF Origins
<1> QED
  BY <1>1, <1>7, <1>9

\* The types of all variables.
LEMMA TypesKept ==
    ASSUME TypeOK, LoginInv, [Next]_vars
    PROVE  TypeOK'
<1>1. clock' \in Nat
  <2>1. CASE UNCHANGED clock
    BY <2>1 DEF TypeOK
  <2>2. CASE Tick
    BY <2>2 DEF Tick, TypeOK
  <2> QED
    BY <2>1, <2>2 DEF Next, vars, DeleteExpiredAuthSessions, JanitorClients, Register, LogIn, Serve,
        Authorize, TouchAndCheck, TouchFails, InsertAuthSession, Callback, CallbackError, ExchangeCode,
        InsertCode, DeleteSession, Abort
<1>2. uris' \in [Clients -> SUBSET Uris]
  <2>1. CASE UNCHANGED uris
    BY <2>1 DEF TypeOK
  <2>2. CASE \E c \in Clients : Register(c)
    BY <2>2 DEF Register, TypeOK
  <2> QED
    BY <2>1, <2>2 DEF Next, vars, Tick, DeleteExpiredAuthSessions, JanitorClients, LogIn, Serve,
        Authorize, TouchAndCheck, TouchFails, InsertAuthSession, Callback, CallbackError, ExchangeCode,
        InsertCode, DeleteSession, Abort
<1>3. codes' \in CodeRows /\ origin' \in Origins
  <2>1. CASE UNCHANGED <<codes, origin>>
    BY <2>1 DEF TypeOK, CodeRows, Origins
  <2>2. ASSUME NEW r \in Requests, InsertCode(r) PROVE codes' \in CodeRows /\ origin' \in Origins
    BY <2>2, InsertCodeFact
  <2> QED
    BY <2>1, <2>2 DEF Next, vars, Tick, DeleteExpiredAuthSessions, JanitorClients, Register, LogIn,
        Serve, Authorize, TouchAndCheck, TouchFails, InsertAuthSession, Callback, CallbackError,
        ExchangeCode, DeleteSession, Abort
<1>4. untouched' \subseteq Clients
  <2>1. CASE UNCHANGED untouched
    BY <2>1 DEF TypeOK
  <2>2. ASSUME NEW r \in Requests, TouchFails(r) PROVE untouched' \subseteq Clients
    BY <2>2 DEF TouchFails, TypeOK, LoginInv, RequestInv, RequestOK, Columns
  <2> QED
    BY <2>1, <2>2 DEF Next, vars, Tick, DeleteExpiredAuthSessions, JanitorClients, Register, LogIn,
        Serve, Authorize, TouchAndCheck, InsertAuthSession, Callback, CallbackError, ExchangeCode,
        InsertCode, DeleteSession, Abort
<1> QED
  BY <1>1, <1>2, <1>3, <1>4, ClientsAlwaysGrow, LoginsAlwaysGrow, RequestTypes, SessionsStep
     DEF TypeOK, ClientRows, LoginRows, CodeRows, Origins

-----------------------------------------------------------------------------
(* The invariant *)

\* A client that was touched recently enough stays so.
LEMMA UsedForKept ==
    ASSUME TypeOK, clients' \in ClientRows, ClientsGrow, NEW c \in Clients, NEW d \in Nat, UsedFor(c, d)
    PROVE  UsedFor(c, d)'
<1>1. clients[c].lastUsed \in Nat /\ clients'[c].lastUsed \in Nat
  BY DEF TypeOK, ClientRows
<1>2. clients[c].state # "unregistered" /\ clients'[c].state # "unregistered"
  BY DEF UsedFor, ClientsGrow
<1>3. ASSUME clients'[c].state = "registered", c \notin untouched'
      PROVE  d <= clients'[c].lastUsed + SessionTTL + MaxDelay
  <2>1. /\ clients[c].state = "registered" /\ c \notin untouched
        /\ clients[c].lastUsed <= clients'[c].lastUsed
    BY <1>2, <1>3 DEF ClientsGrow
  <2>2. d <= clients[c].lastUsed + SessionTTL + MaxDelay
    BY <2>1 DEF UsedFor
  <2> QED
    BY <1>1, <2>1, <2>2, DurationAssumption
<1> QED
  BY <1>2, <1>3 DEF UsedFor

\* A request that does nothing keeps what it relies on, whatever others do.
LEMMA RequestStays ==
    ASSUME TypeOK, clients' \in ClientRows, ClientsGrow, LoginsGrow,
           NEW r \in Requests, RequestOK(r), req'[r] = req[r],
           Busy(r) => clock <= clock' /\ clock' <= req[r].since + MaxDelay, clock' \in Nat
    PROVE  RequestOK(r)'
<1>1. /\ req[r] \in RequestStates /\ req[r].since \in Nat /\ req[r].row.exp \in Nat
      /\ clock \in Nat
  BY DEF TypeOK, RequestStates, Rows
<1>2. Busy(r)' => req'[r].since <= clock' /\ clock' <= req'[r].since + MaxDelay
  BY <1>1, DurationAssumption DEF RequestOK, Busy
<1>3. req[r].pc = "touch" => clients'[req[r].row.client].state # "unregistered"
  BY DEF RequestOK, Columns, ClientsGrow
<1>4. req[r].pc = "discover" => UsedFor(req[r].row.client, req[r].since + SessionTTL + MaxDelay)'
  <2> SUFFICES ASSUME req[r].pc = "discover"
               PROVE  UsedFor(req[r].row.client, req[r].since + SessionTTL + MaxDelay)'
    OBVIOUS
  <2> DEFINE c == req[r].row.client
             d == req[r].since + SessionTTL + MaxDelay
  <2>1. c \in Clients /\ UsedFor(c, d)
    BY DEF RequestOK, Columns
  <2>2. d \in Nat
    BY <1>1, DurationAssumption
  <2>3. ASSUME NEW x \in Clients, NEW y \in Nat, x = c, y = d
        PROVE  UsedFor(x, y)'
    <3>1. UsedFor(x, y)
      BY <2>1, <2>3
    <3> QED
      BY <3>1, UsedForKept
  <2> QED
    BY <2>1, <2>2, <2>3 DEF UsedFor
<1>5. req[r].pc \in {"exchange", "code"} => UsedFor(req[r].row.client, req[r].row.exp)'
  <2> SUFFICES ASSUME req[r].pc \in {"exchange", "code"}
               PROVE  UsedFor(req[r].row.client, req[r].row.exp)'
    OBVIOUS
  <2> DEFINE c == req[r].row.client
             d == req[r].row.exp
  <2>1. c \in Clients /\ UsedFor(c, d)
    BY DEF RequestOK, Columns
  <2>2. ASSUME NEW x \in Clients, NEW y \in Nat, x = c, y = d
        PROVE  UsedFor(x, y)'
    <3>1. UsedFor(x, y)
      BY <2>1, <2>2
    <3> QED
      BY <3>1, UsedForKept
  <2> QED
    BY <1>1, <2>1, <2>2 DEF UsedFor
<1>6. req[r].pc = "code" => UserKnown(req[r].session, req[r].user)'
  <2> SUFFICES ASSUME req[r].pc = "code" PROVE UserKnown(req[r].session, req[r].user)'
    OBVIOUS
  <2>1. /\ req[r].session \in Sessions
        /\ \E u \in SpentLogins(req[r].session) : req[r].user \in {logins[u].user, Unknown}
    BY DEF RequestOK, UserKnown
  <2>2. PICK u \in SpentLogins(req[r].session) : req[r].user \in {logins[u].user, Unknown}
    BY <2>1
  <2>3. u \in Logins /\ logins'[u].session = req[r].session /\ logins'[u].state = "spent"
        /\ logins'[u].user = logins[u].user
    BY <2>1, <2>2 DEF LoginsGrow, SpentLogins, LoginsOf
  <2> QED
    BY <2>2, <2>3 DEF UserKnown, SpentLogins, LoginsOf
<1>7. /\ req[r].pc \in {"touch", "discover"} => req[r].row.state = "live" /\ Columns(req[r].row)
      /\ req[r].pc \in {"exchange", "code"} => Columns(req[r].row) /\ req[r].since <= req[r].row.exp
      /\ req[r].pc \in {"exchange", "code", "delete"} => req[r].session \in Sessions
      /\ req[r].pc = "exchange" => req[r].login \in Logins
  BY DEF RequestOK
<1> QED
  BY <1>2, <1>3, <1>4, <1>5, <1>6, <1>7 DEF RequestOK, Busy, Columns, UsedFor, UserKnown

\* A request that was answered relies on nothing.
LEMMA AnsweredIsOK == ASSUME NEW r \in Requests, req'[r].pc = "idle" PROVE RequestOK(r)'
  BY DEF RequestOK, Busy

\* authorize after GetClient.
LEMMA AuthorizeKeeps ==
    ASSUME TypeOK, LoginInv, NEW r \in Requests, Authorize(r)
    PROVE  RequestOK(r)' /\ \A q \in Requests : q # r => req'[q] = req[q]
<1>1. PICK c \in Clients, uri \in Uris, challenge \in Challenges, res \in Resources :
        /\ clients[c].state = "registered"
        /\ req' = [req EXCEPT ![r] =
              Request("touch", None, None, Session("live", c, uri, challenge, res, 0), None, clock)]
  BY DEF Authorize
<1> DEFINE row == Session("live", c, uri, challenge, res, 0)
<1>2. row \in Rows /\ row.state = "live" /\ Columns(row) /\ row.client = c
  BY DEF Session, Rows, Columns
<1>5. req' = [req EXCEPT ![r] = Request("touch", None, None, row, None, clock)]
  BY <1>1
<1> HIDE DEF row
<1>3. /\ req'[r].pc = "touch" /\ req'[r].row = row /\ req'[r].since = clock
      /\ \A q \in Requests : q # r => req'[q] = req[q]
  BY <1>5 DEF TypeOK, Request
<1>4. UNCHANGED <<clock, clients>> /\ clock \in Nat
  BY DEF Authorize, TypeOK
<1> QED
  BY <1>1, <1>2, <1>3, <1>4, DurationAssumption DEF RequestOK, Busy, Columns

\* authorize after TouchClient, whether it failed or not: a client that is
\* registered and was touched was used no earlier than the request began.
LEMMA TouchKeeps ==
    ASSUME TypeOK, LoginInv, NEW r \in Requests, TouchAndCheck(r) \/ TouchFails(r)
    PROVE  RequestOK(r)' /\ \A q \in Requests : q # r => req'[q] = req[q]
<1> DEFINE c == req[r].row.client
<1>1. /\ req[r].pc = "touch" /\ req[r].row.state = "live" /\ Columns(req[r].row) /\ c \in Clients
      /\ clients[c].state # "unregistered"
      /\ req[r].since <= clock /\ clock <= req[r].since + MaxDelay
  BY DEF TouchAndCheck, TouchFails, LoginInv, RequestInv, RequestOK, Columns, Busy
<1>2. CheckUri(r) /\ UNCHANGED clock
  BY DEF TouchAndCheck, TouchFails
<1>3. CASE Respond(r)
  BY <1>3, RespondFact, AnsweredIsOK
<1>4. CASE Goto(r, "discover")
  <2>1. /\ req'[r].pc = "discover" /\ req'[r].row = req[r].row /\ req'[r].since = req[r].since
        /\ \A q \in Requests : q # r => req'[q] = req[q]
    BY <1>4, GotoFact
  <2>2. clients'[c].state # "unregistered"
    <3>1. CASE TouchFails(r)
      BY <1>1, <3>1 DEF TouchFails
    <3>2. CASE TouchAndCheck(r)
      BY <1>1, <3>2 DEF TouchAndCheck, G!TouchClient, G!Client, TypeOK
    <3> QED
      BY <3>1, <3>2
  <2>3. ASSUME clients'[c].state = "registered", c \notin untouched'
        PROVE  clients'[c].lastUsed = clock
    <3>1. CASE TouchFails(r)
      BY <2>3, <3>1 DEF TouchFails
    <3>2. CASE TouchAndCheck(r)
      BY <1>1, <2>3, <3>2 DEF TouchAndCheck, G!TouchClient, G!Client, TypeOK
    <3> QED
      BY <3>1, <3>2
  <2>4. req[r].since \in Nat /\ clock \in Nat
    BY DEF TypeOK, RequestStates
  <2>5. clients'[c].state = "registered" /\ c \notin untouched' =>
          req[r].since + SessionTTL + MaxDelay <= clients'[c].lastUsed + SessionTTL + MaxDelay
    BY <1>1, <2>3, <2>4, DurationAssumption
  <2> QED
    BY <1>1, <1>2, <2>1, <2>2, <2>5 DEF RequestOK, Busy, Columns, UsedFor
<1> QED
  BY <1>2, <1>3, <1>4 DEF CheckUri

\* callback after GetAuthSession: the session had not expired.
LEMMA CallbackKeeps ==
    ASSUME TypeOK, LoginInv, NEW r \in Requests, Callback(r) \/ CallbackError(r)
    PROVE  RequestOK(r)' /\ \A q \in Requests : q # r => req'[q] = req[q]
<1>1. UNCHANGED <<clock, clients, untouched>> /\ clock \in Nat
  BY DEF Callback, CallbackError, TypeOK
<1>2. ASSUME NEW s \in Sessions, NEW u \in Logins \cup {None},
             req' = [req EXCEPT ![r] = Request("delete", s, u, sessions[s], None, clock)]
      PROVE  RequestOK(r)' /\ \A q \in Requests : q # r => req'[q] = req[q]
  <2>1. sessions[s] \in Rows
    BY DEF TypeOK
  <2>2. /\ req'[r].pc = "delete" /\ req'[r].session = s /\ req'[r].since = clock
        /\ \A q \in Requests : q # r => req'[q] = req[q]
    BY <1>2, <2>1, RequestFact
  <2> QED
    BY <1>1, <2>2, DurationAssumption DEF RequestOK, Busy
<1>3. ASSUME NEW s \in Sessions, NEW u \in Logins, NEW frac \in {0, 1}, ~Expired(s, frac),
             sessions[s].state = "live",
             req' = [req EXCEPT ![r] = Request("exchange", s, u, sessions[s], None, clock)]
      PROVE  RequestOK(r)' /\ \A q \in Requests : q # r => req'[q] = req[q]
  <2>1. sessions[s] \in Rows /\ sessions[s].exp \in Nat
    BY DEF TypeOK, Rows
  <2>2. /\ req'[r].pc = "exchange" /\ req'[r].session = s /\ req'[r].login = u
        /\ req'[r].row = sessions[s] /\ req'[r].since = clock
        /\ \A q \in Requests : q # r => req'[q] = req[q]
    BY <1>3 DEF TypeOK, Request
  <2>3. Columns(sessions[s]) /\ UsedFor(sessions[s].client, sessions[s].exp)
    BY <1>3 DEF LoginInv, TablesInv
  <2>4. clock <= sessions[s].exp
    BY <1>1, <1>3, <2>1 DEF Expired
  <2> QED
    BY <1>1, <2>2, <2>3, <2>4, DurationAssumption DEF RequestOK, Busy, Columns, UsedFor
<1>4. CASE Callback(r)
  <2>1. PICK s \in Sessions, u \in Logins, frac \in {0, 1} :
          /\ sessions[s].state = "live"
          /\ req' = [req EXCEPT ![r] =
                Request(IF Expired(s, frac) THEN "delete" ELSE "exchange", s, u, sessions[s], None, clock)]
    BY <1>4 DEF Callback
  <2>2. CASE Expired(s, frac)
    BY <1>2, <2>1, <2>2
  <2>3. CASE ~Expired(s, frac)
    BY <1>3, <2>1, <2>3
  <2> QED
    BY <2>2, <2>3
<1>5. CASE CallbackError(r)
  BY <1>2, <1>5 DEF CallbackError
<1> QED
  BY <1>4, <1>5

\* callback after ExchangeCode: the user logged in with this session.
LEMMA ExchangeKeeps ==
    ASSUME TypeOK, LoginInv, NEW r \in Requests, ExchangeCode(r)
    PROVE  RequestOK(r)' /\ \A q \in Requests : q # r => req'[q] = req[q]
<1> DEFINE u == req[r].login
           s == req[r].session
<1>1. /\ req[r].pc = "exchange" /\ u \in Logins /\ s \in Sessions
      /\ Columns(req[r].row) /\ UsedFor(req[r].row.client, req[r].row.exp)
      /\ req[r].since <= req[r].row.exp
      /\ req[r].since <= clock /\ clock <= req[r].since + MaxDelay
  BY DEF ExchangeCode, LoginInv, RequestInv, RequestOK, Busy
<1>2. CASE Respond(r)
  BY <1>2, RespondFact, AnsweredIsOK
<1>3. CASE ~Respond(r)
  <2>1. /\ Redeemable(u, s) /\ logins' = [logins EXCEPT ![u].state = "spent"]
        /\ \E user \in {logins[u].user, Unknown} :
               req' = [req EXCEPT ![r].pc = "code", ![r].user = user]
    BY <1>3 DEF ExchangeCode
  <2>2. PICK user \in {logins[u].user, Unknown} :
          req' = [req EXCEPT ![r].pc = "code", ![r].user = user]
    BY <2>1
  <2>3. user \in Users \cup {None, Unknown}
    BY <1>1 DEF TypeOK
  <2>4. /\ req'[r].pc = "code" /\ req'[r].user = user /\ req'[r].session = s
        /\ req'[r].row = req[r].row /\ req'[r].since = req[r].since
        /\ \A q \in Requests : q # r => req'[q] = req[q]
    BY <2>2, <2>3, ExchangedFact
  <2>5. u \in SpentLogins(s)' /\ logins'[u].user = logins[u].user
    BY <1>1, <2>1 DEF TypeOK, Redeemable, SpentLogins, LoginsOf
  <2>6. UserKnown(req[r].session, req[r].user)'
    BY <1>1, <2>1, <2>2, <2>4, <2>5 DEF UserKnown, TypeOK, Redeemable, SpentLogins, LoginsOf
  <2>7. UNCHANGED <<clock, clients, untouched>>
    BY DEF ExchangeCode
  <2> QED
    BY <1>1, <2>4, <2>6, <2>7 DEF RequestOK, Busy, Columns, UsedFor
<1> QED
  BY <1>2, <1>3

\* callback after InsertCode.
LEMMA InsertCodeKeeps ==
    ASSUME TypeOK, LoginInv, NEW r \in Requests, InsertCode(r)
    PROVE  RequestOK(r)' /\ \A q \in Requests : q # r => req'[q] = req[q]
<1>1. /\ req'[r].pc = "delete" /\ req'[r].session = req[r].session /\ req'[r].since = req[r].since
      /\ \A q \in Requests : q # r => req'[q] = req[q]
  BY GotoFact DEF InsertCode
<1>2. /\ req[r].session \in Sessions /\ req[r].since <= clock /\ clock <= req[r].since + MaxDelay
      /\ clock' = clock
  BY DEF InsertCode, LoginInv, RequestInv, RequestOK, Busy
<1> QED
  BY <1>1, <1>2 DEF RequestOK, Busy

\* All requests, at every step.
LEMMA RequestsKept ==
    ASSUME TypeOK, LoginInv, [Next]_vars
    PROVE  RequestInv'
<1>1. clients' \in ClientRows /\ ClientsGrow /\ LoginsGrow /\ clock' \in Nat
  BY ClientsAlwaysGrow, LoginsAlwaysGrow, TypesKept DEF TypeOK
<1>2. clock \in Nat /\ \A q \in Requests : req[q].since \in Nat
  BY DEF TypeOK, RequestStates
<1>3. ASSUME NEW q \in Requests, req'[q] = req[q], clock' = clock PROVE RequestOK(q)'
  <2>1. RequestOK(q) /\ (Busy(q) => clock <= clock' /\ clock' <= req[q].since + MaxDelay)
    BY <1>2, <1>3 DEF LoginInv, RequestInv, RequestOK
  <2> QED
    BY <1>1, <1>3, <2>1, RequestStays
<1>4. ASSUME NEW r \in Requests, Serve(r) PROVE RequestInv'
  <2>1. RequestOK(r)' /\ \A q \in Requests : q # r => req'[q] = req[q]
    <3>1. CASE Respond(r)
      BY <3>1, RespondFact, AnsweredIsOK
    <3> QED
      BY <1>4, <3>1, AuthorizeKeeps, TouchKeeps, CallbackKeeps, ExchangeKeeps, InsertCodeKeeps
         DEF Serve, InsertAuthSession, DeleteSession, Abort
  <2>2. clock' = clock
    BY <1>4 DEF Serve, Authorize, TouchAndCheck, TouchFails, InsertAuthSession, Callback, CallbackError,
        ExchangeCode, InsertCode, DeleteSession, Abort
  <2> QED
    BY <1>3, <2>1, <2>2 DEF RequestInv
<1>5. CASE Tick
  <2> SUFFICES ASSUME NEW q \in Requests PROVE RequestOK(q)'
    BY DEF RequestInv
  <2>1. RequestOK(q) /\ req'[q] = req[q]
    BY <1>5 DEF Tick, LoginInv, RequestInv
  <2>2. Busy(q) => clock <= clock' /\ clock' <= req[q].since + MaxDelay
    BY <1>2, <1>5, DurationAssumption DEF Tick
  <2> QED
    BY <1>1, <2>1, <2>2, RequestStays
<1>6. CASE UNCHANGED <<req, clock>>
  BY <1>3, <1>6 DEF RequestInv
<1> QED
  BY <1>4, <1>5, <1>6 DEF Next, vars, DeleteExpiredAuthSessions, JanitorClients, Register, LogIn

\* codes and origin change by InsertCode only.
LEMMA OtherwiseCodesStay ==
    ASSUME [Next]_vars, \A r \in Requests : ~InsertCode(r)
    PROVE  UNCHANGED <<codes, origin>>
  BY DEF Next, vars, Tick, DeleteExpiredAuthSessions, JanitorClients, Register, LogIn, Serve, Authorize,
         TouchAndCheck, TouchFails, InsertAuthSession, Callback, CallbackError, ExchangeCode,
         DeleteSession, Abort

\* Clients, sessions and codes, at every step.
LEMMA TablesKept ==
    ASSUME TypeOK, LoginInv, [Next]_vars
    PROVE  TablesInv'
<1>1. /\ clients' \in ClientRows /\ ClientsGrow /\ LoginsGrow
      /\ \A d \in Clients : clients'[d].lastUsed <= clock'
  BY ClientsAlwaysGrow, LoginsAlwaysGrow
<1>2. ASSUME NEW s \in Sessions, sessions'[s].state = "live"
      PROVE  Columns(sessions[s])' /\ UsedFor(sessions[s].client, sessions[s].exp)'
  <2>1. ASSUME NEW c \in Clients, NEW d \in Nat, UsedFor(c, d), c = sessions'[s].client,
               d = sessions'[s].exp
        PROVE  UsedFor(sessions[s].client, sessions[s].exp)'
    <3>1. UsedFor(c, d)'
      BY <1>1, <2>1, UsedForKept
    <3> QED
      BY <2>1, <3>1 DEF UsedFor
  <2>2. CASE sessions'[s] = sessions[s]
    <3>1. Columns(sessions[s]) /\ UsedFor(sessions[s].client, sessions[s].exp)
      BY <1>2, <2>2 DEF LoginInv, TablesInv
    <3>2. sessions[s].client \in Clients /\ sessions[s].exp \in Nat
      BY <3>1 DEF Columns, TypeOK, Rows
    <3> QED
      BY <2>1, <2>2, <3>1, <3>2 DEF Columns
  <2>3. ASSUME NEW r \in Requests, req[r].pc = "discover",
               sessions'[s] = [req[r].row EXCEPT !.exp = clock + SessionTTL]
        PROVE  Columns(sessions[s])' /\ UsedFor(sessions[s].client, sessions[s].exp)'
    <3> DEFINE row == req[r].row
               c == row.client
    <3>1. /\ Columns(row) /\ UsedFor(c, req[r].since + SessionTTL + MaxDelay)
          /\ clock <= req[r].since + MaxDelay
      BY <2>3 DEF LoginInv, RequestInv, RequestOK, Busy
    <3>2. row \in Rows /\ clock + SessionTTL \in Nat /\ clock \in Nat /\ req[r].since \in Nat
      BY DurationAssumption DEF TypeOK, RequestStates
    <3>3. /\ sessions'[s].client = row.client /\ sessions'[s].uri = row.uri
          /\ sessions'[s].challenge = row.challenge /\ sessions'[s].resource = row.resource
          /\ sessions'[s].exp = clock + SessionTTL
      BY <2>3, <3>2 DEF Rows
    <3>4. c \in Clients /\ clients[c].lastUsed \in Nat
      BY <3>1 DEF Columns, TypeOK
    <3>5. clients[c].state # "unregistered"
      BY <3>1 DEF UsedFor
    <3>6. ASSUME clients[c].state = "registered", c \notin untouched
          PROVE  clock + SessionTTL <= clients[c].lastUsed + SessionTTL + MaxDelay
      <4>1. req[r].since + SessionTTL + MaxDelay <= clients[c].lastUsed + SessionTTL + MaxDelay
        BY <3>1, <3>6 DEF UsedFor
      <4> QED
        BY <3>1, <3>2, <3>4, <4>1, DurationAssumption
    <3>7. UsedFor(c, clock + SessionTTL)
      BY <3>5, <3>6 DEF UsedFor
    <3>8. UsedFor(sessions[s].client, sessions[s].exp)'
      BY <2>1, <3>2, <3>3, <3>4, <3>7
    <3> QED
      BY <3>1, <3>3, <3>8 DEF Columns
  <2> QED
    BY <1>2, <2>2, <2>3, SessionsStep
<1>3. ASSUME NEW s \in Sessions, NEW user, UserKnown(s, user)
      PROVE  \E u \in SpentLogins(s)' : user \in {logins'[u].user, Unknown}
  BY <1>1, <1>3 DEF UserKnown, LoginsGrow
<1>4. \A c \in Codes : origin[c][1] # None => origin[c][1] \in Sessions /\ UserKnown(origin[c][1], origin[c][2])
  BY DEF LoginInv, TablesInv, CodeHasSessionUser, UserKnown, TypeOK
<1>5. CASE \A r \in Requests : ~InsertCode(r)
  <2>1. UNCHANGED <<codes, origin>>
    BY <1>5, OtherwiseCodesStay
  <2>2. \A c \in Codes : origin'[c][1] # None =>
          \E u \in SpentLogins(origin[c][1])' : origin[c][2] \in {logins'[u].user, Unknown}
    BY <1>3, <1>4, <2>1 DEF SpentLogins, LoginsOf
  <2>3. CodeHasSessionUser'
    BY <2>1, <2>2 DEF CodeHasSessionUser, SpentLogins, LoginsOf
  <2> QED
    BY <1>1, <1>2, <2>1, <2>3 DEF TablesInv, LoginInv
<1>6. ASSUME NEW r \in Requests, InsertCode(r) PROVE TablesInv'
  <2>1. PICK c \in Codes : /\ codes[c].state = "unused" /\ codes'[c].state = "live"
                           /\ origin'[c] = <<req[r].session, req[r].user>>
                           /\ \A d \in Codes : d # c => codes'[d] = codes[d] /\ origin'[d] = origin[d]
    BY <1>6, InsertCodeFact
  <2>2. req[r].session \in Sessions /\ UserKnown(req[r].session, req[r].user)
    BY <1>6 DEF InsertCode, LoginInv, RequestInv, RequestOK
  <2>3. \A d \in Codes : codes'[d].state = "unused" => origin'[d] = <<None, None>>
    BY <2>1 DEF LoginInv, TablesInv
  <2>4. UNCHANGED logins
    BY <1>6 DEF InsertCode
  <2>5. ASSUME NEW d \in Codes, origin'[d][1] # None
        PROVE  UserKnown(origin'[d][1], origin'[d][2])
    <3>1. CASE d = c
      BY <2>1, <2>2, <3>1
    <3>2. CASE d # c
      BY <1>4, <2>1, <2>5, <3>2
    <3> QED
      BY <3>1, <3>2
  <2>6. CodeHasSessionUser'
    BY <2>4, <2>5 DEF CodeHasSessionUser, UserKnown, SpentLogins, LoginsOf
  <2> QED
    BY <1>1, <1>2, <2>3, <2>6 DEF TablesInv
<1> QED
  BY <1>5, <1>6

-----------------------------------------------------------------------------
(* Counting codes *)

\* The sets that are counted are finite.
LEMMA CountsFinite ==
    ASSUME NEW s \in Sessions
    PROVE  /\ IsFiniteSet(CodesOf(s)) /\ Cardinality(CodesOf(s)) \in Nat
           /\ IsFiniteSet(Minters(s)) /\ Cardinality(Minters(s)) \in Nat
           /\ IsFiniteSet(SpentLogins(s)) /\ Cardinality(SpentLogins(s)) \in Nat
<1>1. CodesOf(s) \subseteq Codes /\ Minters(s) \subseteq Requests /\ SpentLogins(s) \subseteq Logins
  BY DEF CodesOf, Minters, SpentLogins, LoginsOf
<1>2. IsFiniteSet(CodesOf(s)) /\ IsFiniteSet(Minters(s)) /\ IsFiniteSet(SpentLogins(s))
  BY <1>1, FiniteAssumption, FS_Subset
<1> QED
  BY <1>2, FS_CardinalityType

\* Nothing was added: a request may have given up.
LEMMA CountStays ==
    ASSUME NEW s \in Sessions, Counted(s),
           CodesOf(s)' = CodesOf(s), SpentLogins(s)' = SpentLogins(s), Minters(s)' \subseteq Minters(s)
    PROVE  Counted(s)'
<1>1. Cardinality(Minters(s)') \in Nat /\ Cardinality(Minters(s)') <= Cardinality(Minters(s))
  BY CountsFinite, FS_Subset, FS_CardinalityType
<1> QED
  BY <1>1, CountsFinite DEF Counted

\* Every step keeps the codes of a session, with those about to be inserted,
\* within its redeemed upstream logins.
LEMMA CountKept ==
    ASSUME TypeOK, LoginInv, [Next]_vars
    PROVE  CountInv'
<1> SUFFICES ASSUME NEW s \in Sessions PROVE Counted(s)'
  BY DEF CountInv
<1>1. Counted(s)
  BY DEF LoginInv, CountInv
<1>2. CASE UNCHANGED <<req, origin, logins>>
  BY <1>1, <1>2 DEF Counted, CodesOf, Minters, SpentLogins, LoginsOf
<1>3. ASSUME NEW x \in Sessions, NEW user \in Users, LogIn(x, user) PROVE Counted(s)'
  <2>1. SpentLogins(s)' = SpentLogins(s)
    BY <1>3, LogInFact
  <2>2. CodesOf(s)' = CodesOf(s) /\ Minters(s)' = Minters(s)
    BY <1>3 DEF LogIn, CodesOf, Minters
  <2> QED
    BY <1>1, <2>1, <2>2, CountStays
<1>4. ASSUME NEW r \in Requests, req'[r].pc # "code",
             \A q \in Requests : q # r => req'[q] = req[q], UNCHANGED <<origin, logins>>
      PROVE  Counted(s)'
  <2>1. Minters(s)' \subseteq Minters(s)
    BY <1>4 DEF Minters
  <2>2. CodesOf(s)' = CodesOf(s) /\ SpentLogins(s)' = SpentLogins(s)
    BY <1>4 DEF CodesOf, SpentLogins, LoginsOf
  <2> QED
    BY <1>1, <2>1, <2>2, CountStays
<1>5. ASSUME NEW r \in Requests, Respond(r), UNCHANGED <<origin, logins>> PROVE Counted(s)'
  BY <1>4, <1>5, RespondFact
<1>6. ASSUME NEW r \in Requests, Authorize(r) PROVE Counted(s)'
  <2>1. req'[r].pc = "touch" /\ UNCHANGED <<origin, logins>>
    BY <1>6 DEF Authorize, Request, TypeOK
  <2> QED
    BY <1>4, <1>6, <2>1, AuthorizeKeeps
<1>7. ASSUME NEW r \in Requests, TouchAndCheck(r) \/ TouchFails(r) PROVE Counted(s)'
  <2>1. CheckUri(r) /\ UNCHANGED <<origin, logins>>
    BY <1>7 DEF TouchAndCheck, TouchFails
  <2>2. CASE Respond(r)
    BY <1>5, <2>1, <2>2
  <2>3. CASE Goto(r, "discover")
    BY <1>4, <2>1, <2>3, GotoFact
  <2> QED
    BY <2>1, <2>2, <2>3 DEF CheckUri
<1>8. ASSUME NEW r \in Requests, Callback(r) \/ CallbackError(r) PROVE Counted(s)'
  <2>1. req'[r].pc \in {"delete", "exchange"} /\ UNCHANGED <<origin, logins>>
    BY <1>8 DEF Callback, CallbackError, Request, TypeOK
  <2> QED
    BY <1>4, <1>8, <2>1, CallbackKeeps
<1>9. ASSUME NEW r \in Requests, ExchangeCode(r) PROVE Counted(s)'
  <2>1. /\ req[r].pc = "exchange" /\ UNCHANGED origin
        /\ req[r].login \in Logins /\ req[r].session \in Sessions
    BY <1>9 DEF ExchangeCode, LoginInv, RequestInv, RequestOK
  <2>2. CASE ~Redeemable(req[r].login, req[r].session)
    BY <1>5, <1>9, <2>2 DEF ExchangeCode
  <2>3. ASSUME NEW u \in Logins, NEW x \in Sessions, u = req[r].login, x = req[r].session,
               Redeemable(u, x)
        PROVE  Counted(s)'
    <3>1. /\ logins' = [logins EXCEPT ![u].state = "spent"]
          /\ \E user \in {logins[u].user, Unknown} :
                 req' = [req EXCEPT ![r].pc = "code", ![r].user = user]
      BY <1>9, <2>3 DEF ExchangeCode
    <3>2. /\ u \notin SpentLogins(x) /\ SpentLogins(x)' = SpentLogins(x) \cup {u}
          /\ \A y \in Sessions : y # x => SpentLogins(y)' = SpentLogins(y)
      BY <2>3, <3>1, RedeemFact
    <3>3. /\ req'[r].pc = "code" /\ req'[r].session = x
          /\ \A q \in Requests : q # r => req'[q] = req[q]
      <4>1. logins[u].user \in Users \cup {None, Unknown}
        BY DEF TypeOK
      <4> QED
        BY <2>3, <3>1, <4>1, ExchangedFact
    <3>4. CodesOf(s)' = CodesOf(s)
      BY <2>1 DEF CodesOf
    <3>5. CASE s # x
      <4>1. Minters(s)' = Minters(s)
        BY <2>1, <2>3, <3>3, <3>5 DEF Minters
      <4> QED
        BY <1>1, <3>2, <3>4, <3>5, <4>1, CountStays
    <3>6. CASE s = x
      <4>1. r \notin Minters(s) /\ Minters(s)' = Minters(s) \cup {r}
        BY <2>1, <2>3, <3>3, <3>6 DEF Minters
      <4>2. SpentLogins(s)' = SpentLogins(s) \cup {u} /\ u \notin SpentLogins(s)
        BY <3>2, <3>6
      <4>3. Cardinality(Minters(s)') = Cardinality(Minters(s)) + 1
        BY <4>1, CountsFinite, FS_AddElement
      <4>4. Cardinality(SpentLogins(s)') = Cardinality(SpentLogins(s)) + 1
        BY <4>2, CountsFinite, FS_AddElement
      <4> QED
        BY <1>1, <3>4, <4>3, <4>4, CountsFinite DEF Counted
    <3> QED
      BY <3>5, <3>6
  <2> QED
    BY <2>1, <2>2, <2>3
<1>10. ASSUME NEW r \in Requests, InsertCode(r) PROVE Counted(s)'
  <2> DEFINE x == req[r].session
  <2>1. req[r].pc = "code" /\ x \in Sessions /\ UNCHANGED logins
    BY <1>10 DEF InsertCode, LoginInv, RequestInv, RequestOK
  <2>2. PICK c \in Codes : /\ codes[c].state = "unused"
                           /\ origin'[c] = <<x, req[r].user>>
                           /\ \A d \in Codes : d # c => origin'[d] = origin[d]
    BY <1>10, InsertCodeFact
  <2>3. origin[c] = <<None, None>> /\ None \notin Sessions
    BY <2>2, NoneAssumption DEF LoginInv, TablesInv
  <2>4. req'[r].pc = "delete" /\ \A q \in Requests : q # r => req'[q] = req[q]
    BY <1>10, GotoFact DEF InsertCode
  <2>5. SpentLogins(s)' = SpentLogins(s)
    BY <2>1 DEF SpentLogins, LoginsOf
  <2>6. CASE s # x
    <3>1. CodesOf(s)' = CodesOf(s) /\ Minters(s)' = Minters(s)
      BY <2>1, <2>2, <2>3, <2>4, <2>6 DEF CodesOf, Minters
    <3> QED
      BY <1>1, <2>5, <3>1, CountStays
  <2>7. CASE s = x
    <3>1. c \notin CodesOf(s) /\ CodesOf(s)' = CodesOf(s) \cup {c}
      BY <2>2, <2>3, <2>7 DEF CodesOf
    <3>2. r \in Minters(s) /\ Minters(s)' = Minters(s) \ {r}
      BY <2>1, <2>4, <2>7 DEF Minters
    <3>3. Cardinality(CodesOf(s)') = Cardinality(CodesOf(s)) + 1
      BY <3>1, CountsFinite, FS_AddElement
    <3>4. Cardinality(Minters(s)') = Cardinality(Minters(s)) - 1
      BY <3>2, CountsFinite, FS_RemoveElement
    <3> QED
      BY <1>1, <2>5, <3>3, <3>4, CountsFinite DEF Counted
  <2> QED
    BY <2>6, <2>7
<1>11. ASSUME NEW r \in Requests, Serve(r) PROVE Counted(s)'
  BY <1>5, <1>6, <1>7, <1>8, <1>9, <1>10, <1>11 DEF Serve, InsertAuthSession, DeleteSession, Abort
<1> QED
  BY <1>2, <1>3, <1>11 DEF Next, vars, Tick, DeleteExpiredAuthSessions, JanitorClients, Register

-----------------------------------------------------------------------------
(* The theorems *)

\* No session has codes, requests or upstream logins at first.
LEMMA InitOK ==
    ASSUME Init
    PROVE  TypeOK /\ LoginInv
<1>1. NoSession \in Rows
  BY DEF NoSession, Session, Rows
<1>2. Idle \in RequestStates /\ Idle.pc = "idle"
  BY <1>1 DEF Idle, Request, RequestStates
<1>3. TypeOK
  BY <1>1, <1>2 DEF Init, TypeOK, G!Client, G!NoGrant, G!Grant, UpstreamLogin
<1>4. \A c \in Codes : origin[c] = <<None, None>>
  BY DEF Init
<1>5. TablesInv
  <2>1. \A c \in Clients : clients[c].lastUsed <= clock
    BY DEF Init, G!Client
  <2>2. \A s \in Sessions : sessions[s].state # "live"
    BY DEF Init, NoSession, Session
  <2>3. CodeHasSessionUser
    BY <1>4 DEF CodeHasSessionUser
  <2> QED
    BY <1>4, <2>1, <2>2, <2>3 DEF TablesInv
<1>6. RequestInv
  BY <1>2 DEF Init, RequestInv, RequestOK, Busy
<1>7. ASSUME NEW s \in Sessions PROVE Counted(s)
  <2>1. CodesOf(s) = {}
    BY <1>4, NoneAssumption DEF CodesOf
  <2>2. Minters(s) = {}
    BY <1>2 DEF Init, Minters
  <2>3. SpentLogins(s) = {}
    BY DEF Init, SpentLogins, LoginsOf, UpstreamLogin
  <2> QED
    BY <2>1, <2>2, <2>3, FS_EmptySet DEF Counted
<1> QED
  BY <1>3, <1>5, <1>6, <1>7 DEF LoginInv, CountInv

\* The inductive invariant of the login: types, the columns and ages of live
\* sessions, what every request relies on between its statements and upstream
\* calls (authorize.go, callback.go), and the count of codes per session.
THEOREM LoginInvariant == Spec => [](TypeOK /\ LoginInv)
<1>1. Init => TypeOK /\ LoginInv
  BY InitOK
<1>2. TypeOK /\ LoginInv /\ [Next]_vars => (TypeOK /\ LoginInv)'
  BY TypesKept, TablesKept, RequestsKept, CountKept DEF LoginInv
<1> QED
  BY <1>1, <1>2, PTL DEF Spec

\* Every table, request and history variable of the login keeps its type.
THEOREM TypeCorrect == Spec => []TypeOK
BY LoginInvariant, PTL

\* A session yields no more codes than upstream logins were redeemed for it,
\* however callbacks repeat, race or die before DeleteAuthSession.
THEOREM OneCodePerLoginAlways == Spec => []OneCodePerLogin
<1>1. TypeOK /\ LoginInv => OneCodePerLogin
  BY CountsFinite DEF LoginInv, CountInv, Counted, OneCodePerLogin
<1> QED
  BY <1>1, LoginInvariant, PTL

\* A code carries the user who logged in with its own session's authorization
\* URL, even if states and upstream codes of two logins are swapped.
THEOREM CodesHaveSessionUser == Spec => []CodeHasSessionUser
<1>1. TypeOK /\ LoginInv => CodeHasSessionUser
  BY DEF LoginInv, TablesInv
<1> QED
  BY <1>1, LoginInvariant, PTL

-----------------------------------------------------------------------------
(* The login implements what Grants assumes of it *)

\* TouchClient is a touch of Grants when the row is there, and no step when it
\* is gone.
LEMMA TouchStep ==
    ASSUME TypeOK, LoginInv, NEW r \in Requests, TouchAndCheck(r)
    PROVE  [G!Next]_(G!vars)
<1> DEFINE c == req[r].row.client
<1>1. c \in Clients
  BY DEF TouchAndCheck, LoginInv, RequestInv, RequestOK, Columns
<1>2. CASE clients[c].state = "registered"
  <2>1. G!AuthorizeTouch(c)
    BY <1>2 DEF TouchAndCheck, G!AuthorizeTouch, G!history
  <2> QED
    BY <1>1, <2>1 DEF G!Next
<1>3. CASE clients[c].state # "registered"
  BY <1>3 DEF TouchAndCheck, G!TouchClient, G!vars
<1> QED
  BY <1>2, <1>3

\* A TouchClient that fails is one of the statements that Grants lets fail.
LEMMA TouchFailsStep ==
    ASSUME TypeOK, LoginInv, NEW r \in Requests, TouchFails(r)
    PROVE  G!Next
<1> DEFINE c == req[r].row.client
<1>1. c \in Clients /\ clients[c].state # "unregistered"
  BY DEF TouchFails, LoginInv, RequestInv, RequestOK, Columns
<1>2. IsFiniteSet(untouched)
  BY FiniteAssumption, FS_Subset DEF TypeOK
<1>3. Cardinality(untouched) \in Nat /\ Cardinality({}) = 0
  BY <1>2, FS_CardinalityType, FS_EmptySet
<1>4. G!MayFail
  BY <1>3 DEF TouchFails, G!MayFail, G!Cardinality, Cardinality
<1>5. G!AuthorizeTouchFails(c)
  BY <1>1, <1>4 DEF TouchFails, G!AuthorizeTouchFails, G!TouchFails
<1> QED
  BY <1>1, <1>5 DEF G!Next

\* A code is inserted within LoginSpan of the touch that began its login: one
\* request for authorize, the session's ten minutes, one request for callback.
LEMMA InsertCodeStep ==
    ASSUME TypeOK, LoginInv, NEW r \in Requests, InsertCode(r)
    PROVE  G!Next
<1> DEFINE row == req[r].row
           c == row.client
           b == <<row.uri, row.challenge>>
<1>1. /\ c \in Clients /\ row.uri \in Uris /\ row.challenge \in Challenges /\ row.resource \in Resources
      /\ UsedFor(c, row.exp) /\ req[r].since <= row.exp /\ clock <= req[r].since + MaxDelay
  BY DEF InsertCode, LoginInv, RequestInv, RequestOK, Columns, Busy
<1>2. row.exp \in Nat /\ req[r].since \in Nat /\ clock \in Nat
  BY DEF TypeOK, RequestStates, Rows
<1>3. clients[c].lastUsed \in Nat
  BY <1>1 DEF TypeOK
<1>4. ASSUME clients[c].state = "registered", c \notin untouched
      PROVE  clock <= clients[c].lastUsed + (SessionTTL + 2 * MaxDelay)
  <2>1. row.exp <= clients[c].lastUsed + SessionTTL + MaxDelay
    BY <1>1, <1>4 DEF UsedFor
  <2> QED
    BY <1>1, <1>2, <1>3, <2>1, DurationAssumption
<1>5. PICK g \in Codes, upstream \in {"absent", "stored"} :
        /\ codes[g].state = "unused"
        /\ codes' = [codes EXCEPT ![g] = G!Grant("live", c, b, row.resource, upstream, clock + CodeTTL)]
  BY DEF InsertCode
<1>6. clients[c].state # "unregistered"
  BY <1>1 DEF UsedFor
<1>7. UNCHANGED <<clock, clients, untouched>>
  BY DEF InsertCode
<1>8. G!InsertCode(g, c, b)
  BY <1>1, <1>4, <1>5, <1>6, <1>7 DEF G!InsertCode, G!history
<1>9. b \in Uris \X Challenges
  BY <1>1
<1> QED
  BY <1>1, <1>8, <1>9 DEF G!Next

\* Every other step of a request leaves the clients and codes tables alone.
LEMMA OtherSteps ==
    ASSUME NEW r \in Requests, Serve(r), ~TouchAndCheck(r), ~TouchFails(r), ~InsertCode(r)
    PROVE  UNCHANGED G!vars
BY DEF Serve, Authorize, InsertAuthSession, Callback, CallbackError, ExchangeCode, DeleteSession,
       Abort, G!vars

\* The login takes only the steps that Grants allows it: codes are inserted for
\* clients touched recently enough that DeleteStaleClients (store/janitor.go)
\* leaves them alone while their grants are valid.
THEOREM GrantsImplemented == Spec => ImplementsGrants
<1>1. Init => G!Init
  BY DEF Init, G!Init, G!Grants
<1>2. TypeOK /\ LoginInv /\ [Next]_vars => [G!Next]_(G!vars)
  <2> SUFFICES ASSUME TypeOK, LoginInv, [Next]_vars PROVE [G!Next]_(G!vars)
    OBVIOUS
  <2>1. CASE UNCHANGED vars
    BY <2>1 DEF vars, G!vars
  <2>2. CASE Tick
    <3>1. G!Tick
      BY <2>2 DEF Tick, G!Tick, G!history
    <3> QED
      BY <3>1 DEF G!Next
  <2>3. CASE DeleteExpiredAuthSessions
    BY <2>3 DEF DeleteExpiredAuthSessions, G!vars
  <2>4. CASE JanitorClients
    <3>1. G!JanitorClients
      BY <2>4 DEF JanitorClients, G!JanitorClients, G!history
    <3> QED
      BY <3>1 DEF G!Next
  <2>5. ASSUME NEW c \in Clients, Register(c) PROVE G!Next
    <3>1. G!Register(c)
      BY <2>5 DEF Register, G!Register, G!history
    <3> QED
      BY <3>1 DEF G!Next
  <2>6. ASSUME NEW s \in Sessions, NEW user \in Users, LogIn(s, user) PROVE UNCHANGED G!vars
    BY <2>6 DEF LogIn, G!vars
  <2>7. ASSUME NEW r \in Requests, Serve(r) PROVE [G!Next]_(G!vars)
    BY <2>7, TouchStep, TouchFailsStep, InsertCodeStep, OtherSteps
  <2> QED
    BY <2>1, <2>2, <2>3, <2>4, <2>5, <2>6, <2>7 DEF Next
<1> QED
  BY <1>1, <1>2, LoginInvariant, PTL DEF Spec, ImplementsGrants, G!Spec
=============================================================================
