---------------------------- MODULE GrantsProofs ----------------------------
(***************************************************************************)
(* Proofs about Grants for any number of clients, grants and concurrent    *)
(* requests and for every setting of the durations that                    *)
(* ClientTTLAssumption allows.                                             *)
(***************************************************************************)
EXTENDS Grants, FiniteSetTheorems, TLAPS

\* The rows of codes and refresh_tokens, and the requests, as TypeOK has them.
Rows == [state : {"unused", "live", "gone"}, client : Clients \cup {None},
         binding : Bindings \cup {None}, resource : Resources \cup {None},
         upstream : {"absent", "stored"}, exp : Nat]

RequestStates ==
    [pc : {"idle", "touch", "lookup", "delete", "check", "upstream", "issue"},
     op : {"token", "revoke"}, client : Clients \cup {None}, grant : Grants \cup {None},
     binding : Bindings \cup {None}, resource : Resources \cup {None}, since : Nat]

\* Answering a request, or moving it on, keeps the type of the requests and
\* leaves the other requests alone.
LEMMA RespondFact ==
    ASSUME TypeOK, NEW r \in Requests, Respond(r)
    PROVE  /\ req' \in [Requests -> RequestStates]
           /\ req'[r].pc = "idle"
           /\ \A q \in Requests \ {r} : req'[q] = req[q]
BY DEF TypeOK, Respond, Idle, Request, RequestStates

\* Moving a request to its next statement keeps its type and its arguments.
LEMMA GotoFact ==
    ASSUME TypeOK, NEW r \in Requests,
           NEW pc \in {"touch", "lookup", "delete", "check", "upstream", "issue"}, Goto(r, pc)
    PROVE  /\ req' \in [Requests -> RequestStates]
           /\ req'[r].pc = pc /\ req'[r].op = req[r].op
           /\ req'[r].client = req[r].client /\ req'[r].grant = req[r].grant
           /\ req'[r].since = req[r].since
           /\ \A q \in Requests \ {r} : req'[q] = req[q]
<1>1. req \in [Requests -> RequestStates]
  BY DEF TypeOK, RequestStates
<1>2. req' = [req EXCEPT ![r] = [req[r] EXCEPT !.pc = pc]]
  BY <1>1 DEF Goto
<1>3. [req[r] EXCEPT !.pc = pc] \in RequestStates
  BY <1>1 DEF RequestStates
<1>4. /\ [req[r] EXCEPT !.pc = pc].pc = pc /\ [req[r] EXCEPT !.pc = pc].op = req[r].op
      /\ [req[r] EXCEPT !.pc = pc].client = req[r].client
      /\ [req[r] EXCEPT !.pc = pc].grant = req[r].grant
      /\ [req[r] EXCEPT !.pc = pc].since = req[r].since
  BY <1>1 DEF RequestStates
<1>5. req'[r] = [req[r] EXCEPT !.pc = pc]
  BY <1>1, <1>2
<1> QED BY <1>1, <1>2, <1>3, <1>4, <1>5

\* A row built from well-typed columns is a row.
LEMMA GrantFact ==
    ASSUME NEW st \in {"unused", "live", "gone"}, NEW c \in Clients \cup {None},
           NEW b \in Bindings \cup {None}, NEW res \in Resources \cup {None},
           NEW u \in {"absent", "stored"}, NEW e \in Nat
    PROVE  /\ Grant(st, c, b, res, u, e) \in Rows
           /\ Grant(st, c, b, res, u, e).state = st /\ Grant(st, c, b, res, u, e).client = c
           /\ Grant(st, c, b, res, u, e).resource = res
           /\ Grant(st, c, b, res, u, e).exp = e
BY DEF Grant, Rows

\* A deleted row is a row that keeps its columns.
LEMMA RemovedFact ==
    ASSUME NEW row \in Rows
    PROVE  /\ Removed(row) \in Rows /\ Removed(row).state = "gone"
           /\ Removed(row).client = row.client /\ Removed(row).exp = row.exp
BY DEF Removed, Grant, Rows

\* A statement on the tables changes one row, or drops live rows.
LEMMA DeleteRowFact ==
    ASSUME TypeOK, NEW g \in Grants, grants' = DeleteRow(g)
    PROVE  /\ grants' \in [Grants -> Rows]
           /\ grants'[g].state = "gone" /\ grants'[g].client = grants[g].client
           /\ grants'[g].exp = grants[g].exp
           /\ \A h \in Grants \ {g} : grants'[h] = grants[h]
<1>1. grants \in [Grants -> Rows]
  BY DEF TypeOK, Rows
<1>2. grants' = [grants EXCEPT ![g] = Removed(grants[g])]
  BY DEF DeleteRow
<1> QED BY <1>1, <1>2, RemovedFact

\* The janitor's DELETE keeps the rows typed and their columns, and removes only live rows.
LEMMA PurgeFact ==
    ASSUME TypeOK, NEW S, grants' = Purge(S)
    PROVE  /\ grants' \in [Grants -> Rows]
           /\ \A g \in Grants :
                 /\ grants'[g].client = grants[g].client /\ grants'[g].exp = grants[g].exp
                 /\ grants'[g].state = grants[g].state
                       \/ (grants[g].state = "live" /\ grants'[g].state = "gone")
<1>1. grants \in [Grants -> Rows]
  BY DEF TypeOK, Rows
<1>2. \A g \in Grants : (grants'[g] = Removed(grants[g]) /\ grants[g].state = "live")
                         \/ grants'[g] = grants[g]
  BY DEF Purge, Live
<1>3. grants' \in [Grants -> Rows]
  BY <1>1, <1>2, RemovedFact DEF Purge
<1>4. ASSUME NEW g \in Grants
      PROVE  /\ grants'[g].client = grants[g].client /\ grants'[g].exp = grants[g].exp
             /\ grants'[g].state = grants[g].state
                   \/ (grants[g].state = "live" /\ grants'[g].state = "gone")
  <2>1. /\ Removed(grants[g]).state = "gone" /\ Removed(grants[g]).client = grants[g].client
        /\ Removed(grants[g]).exp = grants[g].exp
    BY <1>1, RemovedFact
  <2> QED BY <1>2, <2>1
<1> QED BY <1>3, <1>4

\* TouchClient keeps the clients typed and registered, and sets last_used_at to now.
LEMMA TouchFact ==
    ASSUME TypeOK, NEW c \in Clients, TouchClient(c)
    PROVE  /\ clients' \in [Clients -> [state : {"unregistered", "registered", "gone"}, lastUsed : Nat]]
           /\ \A d \in Clients :
                 /\ clients'[d].state = clients[d].state
                 /\ clients'[d].lastUsed = clients[d].lastUsed \/ clients'[d].lastUsed = clock
           /\ clients[c].state = "registered" => clients'[c].lastUsed = clock
BY DEF TypeOK, TouchClient, Client

-----------------------------------------------------------------------------
(* Types *)

\* Every statement of every request and of the janitor keeps the types.
LEMMA TypeStep == TypeOK /\ RequestInv /\ [Next]_vars => TypeOK'
<1> SUFFICES ASSUME TypeOK, RequestInv, [Next]_vars PROVE TypeOK'
  OBVIOUS
<1> USE DisjointAssumption, DurationAssumption
<1> DEFINE PCs == {"touch", "lookup", "delete", "check", "upstream", "issue"}
<1>0. req \in [Requests -> RequestStates] /\ grants \in [Grants -> Rows]
  BY DEF TypeOK, RequestStates, Rows
<1>1. CASE Tick
  BY <1>1 DEF TypeOK, Tick, history
<1>2. ASSUME NEW c \in Clients, Register(c) PROVE TypeOK'
  BY <1>2 DEF TypeOK, Register, Client, history
<1>3. ASSUME NEW c \in Clients, AuthorizeTouch(c) \/ AuthorizeTouchFails(c) PROVE TypeOK'
  <2>1. CASE AuthorizeTouch(c)
    BY <2>1, TouchFact DEF TypeOK, AuthorizeTouch, history
  <2>2. CASE AuthorizeTouchFails(c)
    BY <2>2 DEF TypeOK, AuthorizeTouchFails, TouchFails
  <2> QED BY <1>3, <2>1, <2>2
<1>4. ASSUME NEW g \in Codes, NEW c \in Clients, NEW b \in Bindings, InsertCode(g, c, b)
      PROVE  TypeOK'
  <2>1. PICK res \in Resources, upstream \in {"absent", "stored"} :
          grants' = [grants EXCEPT ![g] = Grant("live", c, b, res, upstream, clock + CodeTTL)]
    BY <1>4 DEF InsertCode
  <2>2. grants' \in [Grants -> Rows]
    <3>1. Grant("live", c, b, res, upstream, clock + CodeTTL) \in Rows
      BY GrantFact DEF TypeOK
    <3> QED BY <1>0, <2>1, <3>1
  <2> QED BY <1>4, <2>2 DEF TypeOK, InsertCode, history, Rows
<1>5. ASSUME NEW r \in Requests, Begin(r) PROVE TypeOK'
  <2>1. PICK q \in RequestStates : req' = [req EXCEPT ![r] = q]
    BY <1>5 DEF Begin, BeginToken, BeginRevoke, Request, RequestStates, TypeOK, Grants
  <2>2. req' \in [Requests -> RequestStates]
    BY <1>0, <2>1
  <2> QED BY <1>5, <2>2 DEF TypeOK, Begin, history, RequestStates
<1>6. ASSUME NEW r \in Requests, NEW pc \in PCs, Goto(r, pc) \/ Respond(r)
      PROVE  req' \in [Requests -> RequestStates]
  BY <1>6, RespondFact, GotoFact
<1>7. ASSUME NEW r \in Requests, Touch(r) PROVE TypeOK'
  <2>1. req' \in [Requests -> RequestStates]
    BY <1>6, <1>7 DEF Touch
  <2>2. clients' \in [Clients -> [state : {"unregistered", "registered", "gone"}, lastUsed : Nat]]
    BY <1>7 DEF Touch, TouchClient, Client, TypeOK
  <2> QED BY <1>7, <2>1, <2>2 DEF TypeOK, Touch, history, RequestStates
<1>7a. ASSUME NEW r \in Requests, TokenTouchFails(r) PROVE TypeOK'
  <2>1. req' \in [Requests -> RequestStates]
    BY <1>6, <1>7a DEF TokenTouchFails
  <2>2. req[r].client \in Clients
    BY <1>7a DEF TokenTouchFails, RequestInv, RequestOK, Busy
  <2> QED BY <1>7a, <2>1, <2>2 DEF TypeOK, TokenTouchFails, TouchFails, RequestStates
<1>8. ASSUME NEW r \in Requests, Lookup(r) \/ NotFound(r) PROVE TypeOK'
  <2>1. req' \in [Requests -> RequestStates]
    BY <1>6, <1>8 DEF Lookup, NotFound
  <2> QED BY <1>8, <2>1 DEF TypeOK, Lookup, NotFound, history, RequestStates
<1>8a. ASSUME NEW r \in Requests, req[r].grant \in Grants, NEW why \in Reasons, Answer(r, why)
       PROVE  revoked' \subseteq Answers /\ req' \in [Requests -> RequestStates]
  <2>1. [token |-> req[r].grant, at |-> clock, why |-> why] \in Answers
    <3>1. clock \in Nat
      BY DEF TypeOK
    <3> QED BY <1>8a, <3>1 DEF Answers
  <2>2. revoked \subseteq Answers
    BY DEF TypeOK
  <2> QED BY <1>6, <1>8a, <2>1, <2>2 DEF Answer
<1>8b. ASSUME NEW r \in Requests, AnswerOnly(r) PROVE TypeOK'
  <2>1. req[r].grant \in Grants
    BY <1>8b DEF AnswerOnly, RequestInv, RequestOK, Busy
  <2>2. revoked' \subseteq Answers /\ req' \in [Requests -> RequestStates]
    BY <1>8a, <1>8b, <2>1 DEF AnswerOnly, Reasons
  <2> QED BY <1>8b, <2>2 DEF TypeOK, AnswerOnly, RequestStates
<1>9. ASSUME NEW r \in Requests, Delete(r) \/ DeleteFails(r) PROVE TypeOK'
  <2>0. req[r].grant \in Grants
    BY <1>9 DEF Delete, DeleteFails, RequestInv, RequestOK, Busy
  <2>1. req' \in [Requests -> RequestStates] /\ revoked' \subseteq Answers
    <3>1. CASE UNCHANGED revoked /\ Goto(r, "check")
      BY <1>6, <3>1 DEF TypeOK
    <3>2. CASE Answer(r, "deleted") \/ Answer(r, "delete error")
      BY <1>8a, <2>0, <3>2 DEF Reasons
    <3> QED BY <1>9, <3>1, <3>2 DEF Delete, DeleteFails, AfterDelete
  <2>2. grants' \in [Grants -> Rows]
    BY <1>0, <1>9, <2>0, DeleteRowFact DEF Delete, DeleteFails
  <2> QED BY <1>9, <2>0, <2>1, <2>2
          DEF TypeOK, Delete, DeleteFails, Rows, RequestStates
<1>10. ASSUME NEW r \in Requests, Check(r) PROVE TypeOK'
  <2>1. req' \in [Requests -> RequestStates]
    BY <1>6, <1>10 DEF Check, AfterCheck
  <2> QED BY <1>10, <2>1 DEF TypeOK, Check, history, RequestStates
<1>11. ASSUME NEW r \in Requests, Upstream(r) PROVE TypeOK'
  <2>1. req' \in [Requests -> RequestStates]
    BY <1>6, <1>11 DEF Upstream
  <2> QED BY <1>11, <2>1 DEF TypeOK, Upstream, history, RequestStates
<1>12. ASSUME NEW r \in Requests, Issue(r) PROVE TypeOK'
  <2>1. req' \in [Requests -> RequestStates]
    BY <1>12, RespondFact DEF Issue
  <2>0. grants[req[r].grant] \in Rows
    BY <1>0, <1>12 DEF Issue, RequestInv, RequestOK, Busy
  <2>2. PICK t \in Tokens :
          /\ grants' = [grants EXCEPT ![t] =
                 Grant("live", grants[req[r].grant].client, None, grants[req[r].grant].resource,
                       grants[req[r].grant].upstream, clock + RefreshTTL)]
          /\ holder' = [holder EXCEPT ![t] = req[r].client]
          /\ audience' = [audience EXCEPT ![t] = req[r].resource]
    BY <1>12 DEF Issue
  <2>3. grants' \in [Grants -> Rows]
    <3>1. Grant("live", grants[req[r].grant].client, None, grants[req[r].grant].resource,
                grants[req[r].grant].upstream, clock + RefreshTTL) \in Rows
      <4>1. /\ grants[req[r].grant].client \in Clients \cup {None}
            /\ grants[req[r].grant].resource \in Resources \cup {None}
            /\ grants[req[r].grant].upstream \in {"absent", "stored"}
        BY <2>0 DEF Rows
      <4>2. clock + RefreshTTL \in Nat
        BY DEF TypeOK
      <4> QED BY <4>1, <4>2, GrantFact
    <3> QED BY <1>0, <2>2, <3>1 DEF Grants
  <2>4. holder' \in [Tokens -> Clients \cup {None}] /\ audience' \in [Tokens -> Resources \cup {None}]
    <3>1. req[r].client \in Clients \cup {None} /\ req[r].resource \in Resources \cup {None}
      BY <1>0 DEF RequestStates
    <3> QED BY <2>2, <3>1 DEF TypeOK
  <2>5. uses' \in [Grants -> Nat]
    <3>1. uses' = [uses EXCEPT ![req[r].grant] = uses[req[r].grant] + 1] /\ uses \in [Grants -> Nat]
      BY <1>12 DEF TypeOK, Issue
    <3>2. req[r].grant \in Grants
      BY <1>12 DEF Issue, RequestInv, RequestOK, Busy
    <3>3. uses[req[r].grant] + 1 \in Nat
      BY <3>1, <3>2
    <3> QED BY <3>1, <3>3
  <2> QED BY <1>12, <2>1, <2>3, <2>4, <2>5 DEF TypeOK, Issue, Rows, RequestStates
<1>13. ASSUME NEW r \in Requests, Abort(r) PROVE TypeOK'
  <2>1. req' \in [Requests -> RequestStates]
    BY <1>13, RespondFact DEF Abort
  <2> QED BY <1>13, <2>1 DEF TypeOK, Abort, history, RequestStates
<1>14. CASE JanitorCodes \/ JanitorTokens
  <2>1. grants' \in [Grants -> Rows]
    BY <1>14, PurgeFact DEF JanitorCodes, JanitorTokens
  <2> QED BY <1>14, <2>1 DEF TypeOK, JanitorCodes, JanitorTokens, history, Rows
<1>15. CASE JanitorClients
  BY <1>15 DEF TypeOK, JanitorClients, Client, history
<1>16. CASE UNCHANGED vars
  BY <1>16 DEF TypeOK, vars
<1> QED
  BY <1>1, <1>2, <1>3, <1>4, <1>5, <1>7, <1>8, <1>9, <1>10, <1>11, <1>12, <1>13,
     <1>14, <1>15, <1>16, <1>7a, <1>8b DEF Next, Serve
-----------------------------------------------------------------------------
(* The inductive invariant *)

\* What every statement except the clock and DeleteStaleClients does to the
\* tables: registered clients stay and get younger, rows keep their columns.
TablesGrow ==
    /\ clock' = clock
    /\ undeleted \subseteq undeleted' /\ untouched \subseteq untouched'
    /\ \A c \in Clients :
          /\ clients[c].state # "unregistered" => clients'[c].state = clients[c].state
          /\ clients[c].lastUsed <= clients'[c].lastUsed /\ clients'[c].lastUsed <= clock
    /\ \A g \in Grants : grants[g].state # "unused" =>
          /\ grants'[g].client = grants[g].client /\ grants'[g].exp = grants[g].exp
          /\ grants'[g].state = grants[g].state \/ grants'[g].state = "gone"

\* Requests that do not move keep what they rely on.
LEMMA OthersKept ==
    ASSUME TypeOK, TypeOK', RequestInv, TablesGrow,
           NEW q \in Requests, Busy(q), req'[q] = req[q]
    PROVE  RequestOK(q)'
<1> DEFINE c == req[q].client
           g == req[q].grant
<1>1. RequestOK(q)
  BY DEF RequestInv
<1>2. c \in Clients /\ g \in Grants
  BY <1>1 DEF RequestOK
<1>3. /\ clients'[c].state = clients[c].state /\ clients[c].lastUsed <= clients'[c].lastUsed
      /\ clients[c].lastUsed \in Nat /\ clients'[c].lastUsed \in Nat
  BY <1>1, <1>2 DEF RequestOK, TablesGrow, TypeOK
<1>4. /\ grants'[g].client = grants[g].client /\ grants'[g].exp = grants[g].exp
      /\ grants'[g].state = grants[g].state \/ grants'[g].state = "gone"
  BY <1>1, <1>2 DEF RequestOK, TablesGrow
<1>5. req[q].since \in Nat
  BY DEF TypeOK
<1> QED BY <1>1, <1>2, <1>3, <1>4, <1>5 DEF RequestOK, TablesGrow

\* Rows that were there keep their relation to the client's last use.
LEMMA RowsKept ==
    ASSUME TypeOK, TypeOK', LifetimeInv, TablesGrow,
           \A g \in Grants : grants[g].state = "unused" /\ grants'[g].state # "unused" => GrantOK(g)'
    PROVE  LifetimeInv'
<1>1. \A c \in Clients : clients'[c].lastUsed <= clock'
  BY DEF TablesGrow
<1>2. ASSUME NEW g \in Grants, grants[g].state # "unused" PROVE GrantOK(g)'
  <2> DEFINE c == grants[g].client
  <2>1. GrantOK(g) /\ c \in Clients /\ clients[c].state # "unregistered"
    BY <1>2 DEF LifetimeInv, GrantOK
  <2>2. /\ clients'[c].state = clients[c].state /\ clients[c].lastUsed <= clients'[c].lastUsed
        /\ clients[c].lastUsed \in Nat /\ clients'[c].lastUsed \in Nat
    BY <2>1 DEF TablesGrow, TypeOK
  <2>3. grants'[g].client = c /\ grants'[g].exp = grants[g].exp /\ grants[g].exp \in Nat
    BY <1>2 DEF TablesGrow, TypeOK
  <2> QED BY <2>1, <2>2, <2>3, DurationAssumption DEF GrantOK, TablesGrow
<1> QED BY <1>1, <1>2 DEF LifetimeInv

\* A step that leaves the tables alone and moves one request.
LEMMA MoveKeepsInv ==
    ASSUME TypeOK, TypeOK', GrantsInv, TablesGrow, NEW r \in Requests,
           \A g \in Grants : grants[g].state = "unused" /\ grants'[g].state # "unused" => GrantOK(g)',
           \A q \in Requests \ {r} : req'[q] = req[q],
           req'[r].pc = "idle" \/ RequestOK(r)'
    PROVE  GrantsInv'
<1>1. LifetimeInv'
  BY RowsKept DEF GrantsInv
<1>2. RequestInv'
  <2> SUFFICES ASSUME NEW q \in Requests, Busy(q)' PROVE RequestOK(q)'
    BY DEF RequestInv
  <2>1. CASE q = r
    BY <2>1 DEF Busy
  <2>2. CASE q # r
    BY <2>2, OthersKept DEF Busy, GrantsInv
  <2> QED BY <2>1, <2>2
<1> QED BY <1>1, <1>2 DEF GrantsInv
\* Every statement of every request, the janitor and the clock preserves the
\* inductive invariant.
LEMMA InvStep == TypeOK /\ TypeOK' /\ GrantsInv /\ [Next]_vars => GrantsInv'
<1> SUFFICES ASSUME TypeOK, TypeOK', GrantsInv, [Next]_vars PROVE GrantsInv'
  OBVIOUS
<1> USE DisjointAssumption, DurationAssumption, ClientTTLAssumption
<1> DEFINE NoNewRow ==
             \A g \in Grants : grants[g].state = "unused" /\ grants'[g].state # "unused" => GrantOK(g)'
<1>1. ASSUME NEW r \in Requests, Busy(r)
      PROVE  /\ RequestOK(r) /\ req[r].client \in Clients /\ req[r].grant \in Grants
             /\ req[r].since \in Nat /\ req[r].since <= clock
             /\ clock <= req[r].since + MaxDelay
  BY <1>1 DEF GrantsInv, RequestInv, RequestOK, TypeOK
<1>2. ASSUME UNCHANGED <<clock, clients, grants, undeleted>>, untouched \subseteq untouched'
      PROVE  TablesGrow /\ NoNewRow
  BY <1>2 DEF TablesGrow, GrantsInv, LifetimeInv, TypeOK
<1>3. CASE Tick
  <2>1. LifetimeInv'
    BY <1>3 DEF Tick, GrantsInv, LifetimeInv, GrantOK, TypeOK, history
  <2>2. RequestInv'
    BY <1>3 DEF Tick, GrantsInv, RequestInv, RequestOK, Busy, TypeOK, history
  <2> QED BY <2>1, <2>2 DEF GrantsInv
<1>4. ASSUME NEW c \in Clients, Register(c) \/ AuthorizeTouch(c) PROVE GrantsInv'
  <2>1. TablesGrow
    <3>1. /\ \A d \in Clients \ {c} : clients'[d] = clients[d]
          /\ clients[c].state # "unregistered" => clients'[c].state = clients[c].state
          /\ clients'[c].lastUsed = clock \/ clients'[c] = clients[c]
      BY <1>4 DEF Register, AuthorizeTouch, TouchClient, Client, TypeOK
    <3> QED BY <1>4, <3>1
            DEF TablesGrow, Register, AuthorizeTouch, history, GrantsInv, LifetimeInv, TypeOK
  <2>2. LifetimeInv'
    BY <1>4, <2>1, RowsKept DEF Register, AuthorizeTouch, GrantsInv
  <2>3. RequestInv'
    BY <1>4, <2>1, OthersKept DEF Register, AuthorizeTouch, GrantsInv, RequestInv, Busy
  <2> QED BY <2>2, <2>3 DEF GrantsInv
<1>4a. ASSUME NEW c \in Clients, AuthorizeTouchFails(c) PROVE GrantsInv'
  <2>1. TablesGrow /\ NoNewRow
    BY <1>2, <1>4a DEF AuthorizeTouchFails, TouchFails
  <2>2. LifetimeInv'
    BY <2>1, RowsKept DEF GrantsInv
  <2>3. RequestInv'
    BY <1>4a, <2>1, OthersKept DEF AuthorizeTouchFails, GrantsInv, RequestInv, Busy
  <2> QED BY <2>2, <2>3 DEF GrantsInv
<1>5. ASSUME NEW g \in Codes, NEW c \in Clients, NEW b \in Bindings, InsertCode(g, c, b)
      PROVE  GrantsInv'
  <2>1. PICK res \in Resources, up \in {"absent", "stored"} :
          grants' = [grants EXCEPT ![g] = Grant("live", c, b, res, up, clock + CodeTTL)]
    BY <1>5 DEF InsertCode
  <2>2. /\ g \in Grants /\ g \notin Tokens /\ grants[g].state = "unused"
        /\ grants'[g].client = c /\ grants'[g].exp = clock + CodeTTL
        /\ \A h \in Grants \ {g} : grants'[h] = grants[h]
    BY <1>5, <2>1 DEF InsertCode, Grant, Grants, TypeOK
  <2>3. TablesGrow
    BY <1>5, <2>2 DEF TablesGrow, InsertCode, history, GrantsInv, LifetimeInv, TypeOK
  <2>4. GrantOK(g)'
    <3>1. /\ clients'[c] = clients[c] /\ clients[c].state # "unregistered"
          /\ clients[c].state = "registered" /\ c \notin untouched' =>
                clock <= clients[c].lastUsed + LoginSpan
          /\ clients[c].lastUsed \in Nat /\ clock \in Nat
      BY <1>5 DEF InsertCode, TypeOK, history
    <3> QED BY <2>2, <3>1 DEF GrantOK
  <2>5. LifetimeInv'
    BY <2>2, <2>3, <2>4, RowsKept DEF GrantsInv
  <2>6. RequestInv'
    BY <1>5, <2>3, OthersKept DEF InsertCode, GrantsInv, RequestInv, Busy
  <2> QED BY <2>5, <2>6 DEF GrantsInv
<1>6. ASSUME NEW r \in Requests, Begin(r) PROVE GrantsInv'
  <2>1. PICK c \in Clients, g \in Grants, pc \in {"touch", "lookup"}, op \in {"token", "revoke"},
             b \in Bindings \cup {None}, res \in Resources \cup {None} :
          /\ req' = [req EXCEPT ![r] = Request(pc, op, c, g, b, res, clock)]
          /\ clients[c].state = "registered" /\ grants[g].state # "unused"
          /\ pc = "touch" <=> op = "token"
    BY <1>6 DEF Begin, BeginToken, BeginRevoke, Grants
  <2>2. /\ \A q \in Requests \ {r} : req'[q] = req[q]
        /\ req'[r].pc = pc /\ req'[r].op = op /\ req'[r].client = c /\ req'[r].grant = g
        /\ req'[r].since = clock
    BY <2>1 DEF TypeOK, Request
  <2>3. RequestOK(r)'
    BY <1>6, <2>1, <2>2 DEF Begin, RequestOK, history, TypeOK
  <2>4. TablesGrow /\ NoNewRow
    BY <1>2, <1>6 DEF Begin, history
  <2> QED BY <2>2, <2>3, <2>4, MoveKeepsInv
<1>7. ASSUME NEW r \in Requests, Touch(r) PROVE GrantsInv'
  <2> DEFINE c == req[r].client
             g == req[r].grant
  <2>1. RequestOK(r) /\ c \in Clients /\ g \in Grants /\ req[r].since \in Nat /\ req[r].since <= clock
    BY <1>1, <1>7 DEF Touch, Busy
  <2>2. /\ \A d \in Clients :
              /\ clients'[d].state = clients[d].state
              /\ clients'[d].lastUsed = clients[d].lastUsed \/ clients'[d].lastUsed = clock
        /\ clients[c].state = "registered" => clients'[c].lastUsed = clock
    BY <1>7, <2>1, TouchFact DEF Touch
  <2>3. TablesGrow /\ NoNewRow
    BY <1>7, <2>2 DEF TablesGrow, Touch, history, GrantsInv, LifetimeInv, TypeOK
  <2>4. CASE Respond(r)
    BY <2>3, <2>4, RespondFact, MoveKeepsInv
  <2>5. CASE Goto(r, "lookup")
    <3>1. /\ req'[r].pc = "lookup" /\ req'[r].op = req[r].op /\ req'[r].client = c
          /\ req'[r].grant = g /\ req'[r].since = req[r].since
          /\ \A q \in Requests \ {r} : req'[q] = req[q]
      BY <2>5, GotoFact
    <3>2. RequestOK(r)'
      BY <1>7, <2>1, <2>2, <3>1 DEF RequestOK, Touch, history
    <3> QED BY <2>3, <3>1, <3>2, MoveKeepsInv
  <2> QED BY <1>7, <2>4, <2>5 DEF Touch
<1>7a. ASSUME NEW r \in Requests, TokenTouchFails(r) PROVE GrantsInv'
  <2> DEFINE c == req[r].client
             g == req[r].grant
  <2>1. RequestOK(r) /\ c \in Clients /\ g \in Grants
    BY <1>1, <1>7a DEF TokenTouchFails, Busy
  <2>2. TablesGrow /\ NoNewRow
    BY <1>2, <1>7a DEF TokenTouchFails, TouchFails
  <2>3. CASE Respond(r)
    BY <2>2, <2>3, RespondFact, MoveKeepsInv
  <2>4. CASE Goto(r, "lookup")
    <3>1. /\ req'[r].pc = "lookup" /\ req'[r].op = req[r].op /\ req'[r].client = c
          /\ req'[r].grant = g /\ req'[r].since = req[r].since
          /\ \A q \in Requests \ {r} : req'[q] = req[q]
      BY <2>4, GotoFact
    <3>2. c \in untouched'
      BY <1>7a DEF TokenTouchFails, TouchFails
    <3>3. RequestOK(r)'
      BY <1>7a, <2>1, <3>1, <3>2 DEF RequestOK, TokenTouchFails, TouchFails
    <3> QED BY <2>2, <3>1, <3>3, MoveKeepsInv
  <2> QED BY <1>7a, <2>3, <2>4 DEF TokenTouchFails
<1>8. ASSUME NEW r \in Requests, Lookup(r) PROVE GrantsInv'
  <2>1. RequestOK(r)
    BY <1>1, <1>8 DEF Lookup, Busy
  <2>2. TablesGrow /\ NoNewRow
    BY <1>2, <1>8 DEF Lookup, history
  <2>3. /\ req'[r].pc = "delete" /\ req'[r].op = req[r].op /\ req'[r].client = req[r].client
        /\ req'[r].grant = req[r].grant /\ req'[r].since = req[r].since
        /\ \A q \in Requests \ {r} : req'[q] = req[q]
    BY <1>8, GotoFact DEF Lookup
  <2>4. RequestOK(r)'
    BY <1>8, <2>1, <2>3 DEF RequestOK, Lookup, history
  <2> QED BY <2>2, <2>3, <2>4, MoveKeepsInv
<1>8a. ASSUME NEW r \in Requests, NotFound(r) \/ AnswerOnly(r) PROVE GrantsInv'
  <2>1. TablesGrow /\ NoNewRow
    BY <1>2, <1>8a DEF NotFound, AnswerOnly, history
  <2>2. Respond(r)
    BY <1>8a DEF NotFound, AnswerOnly, Answer
  <2> QED BY <2>1, <2>2, RespondFact, MoveKeepsInv
<1>9. ASSUME NEW r \in Requests, Delete(r) \/ DeleteFails(r) PROVE GrantsInv'
  <2> DEFINE g == req[r].grant
  <2>1. RequestOK(r) /\ g \in Grants /\ req[r].pc = "delete"
    BY <1>1, <1>9 DEF Delete, DeleteFails, Busy
  <2>2. /\ clock' = clock /\ clients' = clients /\ undeleted \subseteq undeleted'
        /\ untouched' = untouched
        /\ grants'[g].state = "gone" \/ g \in undeleted'
        /\ \A h \in Grants :
              /\ grants'[h].client = grants[h].client /\ grants'[h].exp = grants[h].exp
              /\ \/ grants'[h].state = grants[h].state
                 \/ h = g /\ grants'[h].state = "gone"
    BY <1>9, <2>1, DeleteRowFact DEF Delete, DeleteFails
  <2>3. grants[g].state # "unused"
    BY <2>1 DEF RequestOK
  <2>4. TablesGrow /\ NoNewRow
    BY <2>2, <2>3 DEF TablesGrow, GrantsInv, LifetimeInv, TypeOK
  <2>5. CASE Respond(r)
    BY <2>4, <2>5, RespondFact, MoveKeepsInv
  <2>6. CASE Goto(r, "check") /\ req[r].op = "token"
    <3>1. /\ req'[r].pc = "check" /\ req'[r].op = req[r].op /\ req'[r].client = req[r].client
          /\ req'[r].grant = g /\ req'[r].since = req[r].since
          /\ \A q \in Requests \ {r} : req'[q] = req[q]
      BY <2>6, GotoFact
    <3>2. RequestOK(r)'
      BY <2>1, <2>2, <2>3, <2>6, <3>1 DEF RequestOK
    <3> QED BY <2>4, <3>1, <3>2, MoveKeepsInv
  <2> QED BY <1>9, <2>5, <2>6 DEF Delete, DeleteFails, AfterDelete, Answer
<1>10. ASSUME NEW r \in Requests, Check(r) PROVE GrantsInv'
  <2> DEFINE c == req[r].client
             g == req[r].grant
  <2>1. /\ RequestOK(r) /\ c \in Clients /\ g \in Grants /\ req[r].pc = "check"
        /\ req[r].since \in Nat /\ req[r].since <= clock
    BY <1>1, <1>10 DEF Check, Busy
  <2>2. TablesGrow /\ NoNewRow
    BY <1>2, <1>10 DEF Check, history
  <2>3. CASE Respond(r)
    BY <2>2, <2>3, RespondFact, MoveKeepsInv
  <2>4. ASSUME NEW frac \in {0, 1}, Accepts(r, frac), Goto(r, AfterCheck(r)) PROVE GrantsInv'
    <3>1. PICK pc \in {"upstream", "issue"} : Goto(r, pc)
      BY <2>4 DEF AfterCheck
    <3>2. /\ req'[r].pc = pc /\ req'[r].op = req[r].op /\ req'[r].client = c
          /\ req'[r].grant = g /\ req'[r].since = req[r].since
          /\ \A q \in Requests \ {r} : req'[q] = req[q]
      BY <3>1, GotoFact
    <3>3. grants[g].client = c /\ clock <= grants[g].exp
      BY <2>1, <2>4 DEF Accepts, Expired, TypeOK
    <3>4. c \notin untouched => clients[c].state = "registered"
      BY <2>1, <3>3 DEF RequestOK, TypeOK
    <3>5. req[r].since <= grants[g].exp
      BY <2>1, <3>3 DEF TypeOK
    <3>6. RequestOK(r)'
      BY <1>10, <2>1, <3>2, <3>3, <3>4, <3>5 DEF RequestOK, Check, history
    <3> QED BY <2>2, <3>2, <3>6, MoveKeepsInv
  <2> QED BY <1>10, <2>3, <2>4 DEF Check
<1>11. ASSUME NEW r \in Requests, Upstream(r) PROVE GrantsInv'
  <2>1. RequestOK(r) /\ req[r].pc = "upstream"
    BY <1>1, <1>11 DEF Upstream, Busy
  <2>2. TablesGrow /\ NoNewRow
    BY <1>2, <1>11 DEF Upstream, history
  <2>3. CASE Respond(r)
    BY <2>2, <2>3, RespondFact, MoveKeepsInv
  <2>4. CASE Goto(r, "issue")
    <3>1. /\ req'[r].pc = "issue" /\ req'[r].op = req[r].op /\ req'[r].client = req[r].client
          /\ req'[r].grant = req[r].grant /\ req'[r].since = req[r].since
          /\ \A q \in Requests \ {r} : req'[q] = req[q]
      BY <2>4, GotoFact
    <3>2. RequestOK(r)'
      BY <1>11, <2>1, <3>1 DEF RequestOK, Upstream, history
    <3> QED BY <2>2, <3>1, <3>2, MoveKeepsInv
  <2> QED BY <1>11, <2>3, <2>4 DEF Upstream
<1>12. ASSUME NEW r \in Requests, Issue(r) PROVE GrantsInv'
  <2> DEFINE c == req[r].client
             g == req[r].grant
  <2>1. /\ c \in Clients /\ g \in Grants /\ grants[g].client = c
        /\ clients[c].state # "unregistered"
        /\ c \notin untouched =>
              clients[c].state = "registered" /\ req[r].since <= clients[c].lastUsed
        /\ req[r].since \in Nat /\ clock <= req[r].since + MaxDelay
    BY <1>1, <1>12 DEF Issue, Busy, RequestOK
  <2>2. PICK t \in Tokens :
          /\ grants[t].state = "unused"
          /\ grants' = [grants EXCEPT ![t] = Grant("live", grants[g].client, None,
                          grants[g].resource, grants[g].upstream, clock + RefreshTTL)]
    BY <1>12 DEF Issue
  <2>3. /\ t \in Grants /\ grants'[t].client = c /\ grants'[t].exp = clock + RefreshTTL
        /\ \A h \in Grants \ {t} : grants'[h] = grants[h]
    BY <2>1, <2>2 DEF Grant, Grants, TypeOK
  <2>4. TablesGrow
    <3>1. UNCHANGED <<clock, clients, undeleted, untouched>>
      BY <1>12 DEF Issue
    <3>2. \A d \in Clients : clients[d].lastUsed \in Nat /\ clients[d].lastUsed <= clock
      BY DEF GrantsInv, LifetimeInv, TypeOK
    <3>3. \A h \in Grants : grants[h].state # "unused" => grants'[h] = grants[h]
      BY <2>2, <2>3
    <3> QED BY <3>1, <3>2, <3>3 DEF TablesGrow
  <2>5. GrantOK(t)'
    <3>1. /\ clients' = clients /\ untouched' = untouched
          /\ clients[c].lastUsed \in Nat /\ clock \in Nat
      BY <1>12, <2>1 DEF Issue, TypeOK
    <3> QED BY <2>1, <2>3, <3>1 DEF GrantOK
  <2>6. NoNewRow
    BY <2>3, <2>5
  <2>7. Respond(r)
    BY <1>12 DEF Issue
  <2> QED BY <2>4, <2>6, <2>7, RespondFact, MoveKeepsInv
<1>13. ASSUME NEW r \in Requests, Abort(r) PROVE GrantsInv'
  <2>1. TablesGrow /\ NoNewRow
    BY <1>2, <1>13 DEF Abort, history
  <2>2. Respond(r)
    BY <1>13 DEF Abort
  <2> QED BY <2>1, <2>2, RespondFact, MoveKeepsInv
<1>14. CASE JanitorCodes \/ JanitorTokens
  <2>1. \A g \in Grants :
          /\ grants'[g].client = grants[g].client /\ grants'[g].exp = grants[g].exp
          /\ \/ grants'[g].state = grants[g].state
             \/ grants[g].state = "live" /\ grants'[g].state = "gone"
    BY <1>14, PurgeFact DEF JanitorCodes, JanitorTokens
  <2>2. TablesGrow /\ NoNewRow
    BY <1>14, <2>1
       DEF TablesGrow, JanitorCodes, JanitorTokens, history, GrantsInv, LifetimeInv, TypeOK
  <2>3. LifetimeInv'
    BY <2>2, RowsKept DEF GrantsInv
  <2>4. RequestInv'
    BY <1>14, <2>2, OthersKept DEF JanitorCodes, JanitorTokens, GrantsInv, RequestInv, Busy
  <2> QED BY <2>3, <2>4 DEF GrantsInv
<1>15. CASE JanitorClients
  <2>1. \A c \in Clients :
          /\ clients'[c].lastUsed = clients[c].lastUsed
          /\ \/ clients'[c].state = clients[c].state
             \/ /\ clients[c].state = "registered" /\ clients'[c].state = "gone"
                /\ clients[c].lastUsed + ClientTTL < clock
    BY <1>15 DEF JanitorClients, Stale, Client, TypeOK
  <2>2. UNCHANGED <<clock, grants, req, undeleted, untouched>>
    BY <1>15 DEF JanitorClients, history
  <2>3. LifetimeInv'
    <3> SUFFICES ASSUME NEW g \in Grants, grants[g].state # "unused" PROVE GrantOK(g)'
      BY <2>1, <2>2 DEF GrantsInv, LifetimeInv
    <3>1. GrantOK(g) /\ grants[g].client \in Clients /\ grants[g].exp \in Nat
      BY DEF GrantsInv, LifetimeInv, GrantOK, TypeOK
    <3>2. clients[grants[g].client].lastUsed \in Nat
      BY <3>1 DEF TypeOK
    <3> QED BY <2>1, <2>2, <3>1, <3>2 DEF GrantOK, TypeOK
  <2>4. RequestInv'
    <3> SUFFICES ASSUME NEW r \in Requests, Busy(r) PROVE RequestOK(r)'
      BY <2>2 DEF RequestInv, Busy
    <3> DEFINE c == req[r].client
               g == req[r].grant
    <3>1. /\ RequestOK(r) /\ c \in Clients /\ g \in Grants /\ req[r].since \in Nat
          /\ clock <= req[r].since + MaxDelay
      BY <1>1
    <3>2. clients[c].lastUsed \in Nat /\ grants[g].exp \in Nat /\ clock \in Nat
      BY <3>1 DEF TypeOK
    <3>3. CASE clients'[c].state = clients[c].state
      BY <2>1, <2>2, <3>1, <3>3 DEF RequestOK
    <3>4. CASE /\ clients[c].state = "registered" /\ clients'[c].state = "gone"
               /\ clients[c].lastUsed + ClientTTL < clock
      <4>1. c \notin untouched => req[r].pc \notin {"upstream", "issue"}
        BY <3>1, <3>2, <3>4 DEF RequestOK
      <4>2. c \notin untouched /\ grants[g].client = c => grants[g].exp < clock
        BY <3>1, <3>2, <3>4 DEF RequestOK, GrantsInv, LifetimeInv, GrantOK
      <4> QED BY <2>1, <2>2, <3>1, <3>4, <4>1, <4>2 DEF RequestOK
    <3> QED BY <2>1, <3>1, <3>3, <3>4
  <2> QED BY <2>3, <2>4 DEF GrantsInv
<1>16. CASE UNCHANGED vars
  BY <1>16 DEF vars, GrantsInv, LifetimeInv, GrantOK, RequestInv, RequestOK, Busy
<1> QED
  BY <1>3, <1>4, <1>5, <1>6, <1>7, <1>8, <1>9, <1>10, <1>11, <1>12, <1>13, <1>14, <1>15,
     <1>16, <1>4a, <1>7a, <1>8a DEF Next, Serve
-----------------------------------------------------------------------------
(* Theorems *)

\* The empty tables satisfy the types and the inductive invariant.
LEMMA InitInv == Init => TypeOK /\ GrantsInv
<1> SUFFICES ASSUME Init PROVE TypeOK /\ GrantsInv
  OBVIOUS
<1>1. NoGrant \in Rows /\ Idle \in RequestStates
  BY DEF NoGrant, Grant, Rows, Idle, Request, RequestStates
<1>2. TypeOK
  <2>1. grants \in [Grants -> Rows] /\ req \in [Requests -> RequestStates]
    BY <1>1 DEF Init
  <2> QED BY <2>1 DEF Init, TypeOK, Client, Rows, RequestStates
<1>3. \A g \in Grants : grants[g].state = "unused"
  BY DEF Init, NoGrant, Grant
<1>4. \A r \in Requests : ~Busy(r)
  BY DEF Init, Idle, Request, Busy
<1>5. LifetimeInv
  BY <1>3 DEF Init, Client, LifetimeInv
<1> QED BY <1>2, <1>4, <1>5 DEF GrantsInv, RequestInv

\* The tables and requests keep their types, and the inductive invariant holds,
\* in every reachable state of the token and revocation endpoints.
THEOREM GrantsInvariant == Spec => [](TypeOK /\ GrantsInv)
<1>1. TypeOK /\ GrantsInv /\ [Next]_vars => (TypeOK /\ GrantsInv)'
  BY TypeStep, InvStep DEF GrantsInv
<1> QED BY <1>1, InitInv, PTL DEF Spec

\* Type correctness of the clients and grants tables and of the requests.
THEOREM TypeCorrect == Spec => []TypeOK
BY GrantsInvariant, PTL

\* No interleaving of requests and janitor takes away the client of a refresh
\* token that has not expired, whatever the number of clients, grants and
\* requests, as long as the client TTL covers the grant TTLs.
THEOREM LiveTokensHaveClients == Spec => []LiveTokenHasClient
<1>1. TypeOK /\ GrantsInv => LiveTokenHasClient
  <2> SUFFICES ASSUME TypeOK, GrantsInv, NEW t \in Tokens, Live(t), clock <= grants[t].exp,
                      grants[t].client \notin untouched
               PROVE  clients[grants[t].client].state = "registered"
    BY DEF LiveTokenHasClient
  <2>1. GrantOK(t) /\ t \in Grants
    BY DEF GrantsInv, LifetimeInv, Live, Grants
  <2>2. clock \in Nat /\ grants[t].exp \in Nat
    BY <2>1 DEF TypeOK
  <2>3. grants[t].client \in Clients
    BY <2>1 DEF GrantOK
  <2>4. clients[grants[t].client].state \in {"unregistered", "registered", "gone"}
    BY <2>3 DEF TypeOK
  <2> QED BY <2>1, <2>2, <2>4 DEF GrantOK
<1> QED BY <1>1, GrantsInvariant, PTL
-----------------------------------------------------------------------------
(* What a step does to the rows and to the record of what was issued *)

\* A 200 of this step; when it is an effective one the row is gone.
SentNow(a) ==
    /\ a.at = clock'
    /\ a.why \in {"deleted", "not found"} => grants'[a.token].state = "gone"

\* A gone row stays gone, a new token goes to its row's client, tokens are issued
\* only from a row past its DELETE, and an effective 200 is sent for a gone row.
StepEffect ==
    /\ undeleted \subseteq undeleted'
    /\ \A g \in Grants : grants[g].state = "gone" => grants'[g].state = "gone"
    /\ \A g \in Grants :
          uses'[g] = uses[g] \/ (\E r \in Requests : req[r].pc = "issue" /\ req[r].grant = g)
    /\ \A t \in Tokens : grants'[t].state = "live" =>
          \/ holder'[t] = grants'[t].client
          \/ /\ grants[t].state = "live" /\ holder'[t] = holder[t]
             /\ grants'[t].client = grants[t].client
    /\ \A a \in revoked' : a \in revoked \/ SentNow(a)

\* Every statement of the endpoints and of the janitor has only these effects.
LEMMA StepHasEffect == TypeOK /\ TypeOK' /\ GrantsInv /\ [Next]_vars => StepEffect
<1> SUFFICES ASSUME TypeOK, TypeOK', GrantsInv, [Next]_vars PROVE StepEffect
  OBVIOUS
<1>1. ASSUME UNCHANGED <<grants, uses, holder, revoked, undeleted>> PROVE StepEffect
  BY <1>1 DEF StepEffect
<1>2. CASE Tick \/ JanitorClients
  BY <1>1, <1>2 DEF Tick, JanitorClients, history
<1>3. ASSUME NEW c \in Clients, Register(c) \/ AuthorizeTouch(c) \/ AuthorizeTouchFails(c)
      PROVE  StepEffect
  BY <1>1, <1>3 DEF Register, AuthorizeTouch, AuthorizeTouchFails, TouchFails, history
<1>4. ASSUME NEW g \in Codes, NEW c \in Clients, NEW b \in Bindings, InsertCode(g, c, b)
      PROVE  StepEffect
  <2>1. /\ grants[g].state = "unused" /\ g \notin Tokens
        /\ \A h \in Grants \ {g} : grants'[h] = grants[h]
    BY <1>4, DisjointAssumption DEF InsertCode, TypeOK
  <2>2. \A t \in Tokens : grants'[t] = grants[t]
    BY <2>1 DEF Grants
  <2>3. UNCHANGED <<uses, holder, revoked, undeleted>>
    BY <1>4 DEF InsertCode, history
  <2> QED BY <2>1, <2>2, <2>3 DEF StepEffect
<1>5. ASSUME NEW r \in Requests,
             \/ Begin(r) \/ Touch(r) \/ TokenTouchFails(r) \/ Lookup(r) \/ NotFound(r)
             \/ Check(r) \/ Upstream(r) \/ Abort(r)
      PROVE  StepEffect
  BY <1>1, <1>5 DEF Begin, Touch, TokenTouchFails, TouchFails, Lookup, NotFound, Check, Upstream,
     Abort, history
<1>5a. ASSUME NEW r \in Requests, AnswerOnly(r) PROVE StepEffect
  <2> DEFINE g == req[r].grant
  <2>1. g \in Grants /\ grants[g].state # "unused"
    BY <1>5a DEF GrantsInv, RequestInv, RequestOK, Busy, AnswerOnly
  <2>2. PICK why \in Reasons : /\ revoked' = revoked \cup {[token |-> g, at |-> clock, why |-> why]}
                               /\ why # "deleted" /\ (why = "not found" => ~ Live(g))
    BY <1>5a DEF AnswerOnly, Answer, Reasons
  <2>3. UNCHANGED <<clock, grants, uses, holder, undeleted>>
    BY <1>5a DEF AnswerOnly
  <2>4. grants[g].state \in {"unused", "live", "gone"}
    BY <2>1 DEF TypeOK
  <2>5. SentNow([token |-> g, at |-> clock, why |-> why])
    BY <2>1, <2>2, <2>3, <2>4 DEF SentNow, Live, Reasons
  <2> QED BY <2>2, <2>3, <2>5 DEF StepEffect
<1>6. ASSUME NEW r \in Requests, Delete(r) \/ DeleteFails(r) PROVE StepEffect
  <2> DEFINE g == req[r].grant
  <2>1. g \in Grants
    BY <1>6 DEF GrantsInv, RequestInv, RequestOK, Busy, Delete, DeleteFails
  <2>2. /\ undeleted \subseteq undeleted' /\ UNCHANGED <<uses, holder>>
        /\ \A h \in Grants :
              /\ grants'[h].client = grants[h].client
              /\ grants'[h].state = grants[h].state \/ grants'[h].state = "gone"
    BY <1>6, <2>1, DeleteRowFact DEF Delete, DeleteFails
  <2>3. CASE Delete(r)
    <3>1. /\ revoked' \subseteq revoked \cup {[token |-> g, at |-> clock, why |-> "deleted"]}
          /\ grants'[g].state = "gone" /\ clock' = clock
      BY <2>1, <2>3, DeleteRowFact DEF Delete, AfterDelete, Answer
    <3>2. SentNow([token |-> g, at |-> clock, why |-> "deleted"])
      BY <3>1 DEF SentNow
    <3> QED BY <2>2, <3>1, <3>2 DEF StepEffect, Grants
  <2>4. CASE DeleteFails(r)
    <3>1. /\ revoked' \subseteq revoked \cup {[token |-> g, at |-> clock, why |-> "delete error"]}
          /\ clock' = clock
      BY <2>4 DEF DeleteFails, AfterDelete, Answer
    <3>2. SentNow([token |-> g, at |-> clock, why |-> "delete error"])
      BY <3>1 DEF SentNow
    <3> QED BY <2>2, <3>1, <3>2 DEF StepEffect, Grants
  <2> QED BY <1>6, <2>3, <2>4
<1>7. ASSUME NEW r \in Requests, Issue(r) PROVE StepEffect
  <2> DEFINE g == req[r].grant
  <2>1. g \in Grants /\ grants[g].client = req[r].client /\ req[r].pc = "issue"
    BY <1>7 DEF GrantsInv, RequestInv, RequestOK, Busy, Issue
  <2>2. PICK t \in Tokens :
          /\ grants[t].state = "unused"
          /\ grants' = [grants EXCEPT ![t] = Grant("live", grants[g].client, None,
                          grants[g].resource, grants[g].upstream, clock + RefreshTTL)]
          /\ holder' = [holder EXCEPT ![t] = req[r].client]
    BY <1>7 DEF Issue
  <2>3. /\ grants'[t].client = req[r].client /\ holder'[t] = req[r].client
        /\ \A h \in Grants \ {t} : grants'[h] = grants[h]
        /\ \A u \in Tokens \ {t} : holder'[u] = holder[u]
    BY <2>1, <2>2 DEF Grant, Grants, TypeOK
  <2>4. \A h \in Grants \ {g} : uses'[h] = uses[h]
    BY <1>7 DEF Issue, TypeOK
  <2>5. UNCHANGED <<revoked, undeleted>>
    BY <1>7 DEF Issue
  <2>6. \A h \in Grants : grants[h].state = "gone" => grants'[h].state = "gone"
    BY <2>2, <2>3
  <2>7. \A u \in Tokens : \/ holder'[u] = grants'[u].client
                          \/ holder'[u] = holder[u] /\ grants'[u] = grants[u]
    BY <2>3 DEF Grants
  <2> QED BY <2>1, <2>4, <2>5, <2>6, <2>7 DEF StepEffect
<1>8. CASE JanitorCodes \/ JanitorTokens
  <2>1. \A g \in Grants :
          /\ grants'[g].client = grants[g].client
          /\ grants'[g].state = grants[g].state \/ grants'[g].state = "gone"
    BY <1>8, PurgeFact DEF JanitorCodes, JanitorTokens
  <2>2. UNCHANGED <<uses, holder, revoked, undeleted>>
    BY <1>8 DEF JanitorCodes, JanitorTokens, history
  <2> QED BY <2>1, <2>2 DEF StepEffect, Grants
<1>9. CASE UNCHANGED vars
  BY <1>1, <1>9 DEF vars
<1> QED
  BY <1>2, <1>3, <1>4, <1>5, <1>5a, <1>6, <1>7, <1>8, <1>9 DEF Next, Serve

\* A refresh token is only held by the client its login was for.
THEOREM TokensHeldByOwner == Spec => []HeldByOwner
<1>1. Init => HeldByOwner
  BY DEF Init, HeldByOwner, Live, NoGrant, Grant, Grants
<1>2. HeldByOwner /\ StepEffect => HeldByOwner'
  BY DEF HeldByOwner, StepEffect, Live
<1> QED BY <1>1, <1>2, GrantsInvariant, StepHasEffect, PTL DEF Spec

\* A grant that tokens were issued from is gone for good unless its DELETE failed.
THEOREM SpentGrantsAreGone == Spec => []SpentIsGone
<1>1. Init => SpentIsGone
  BY DEF Init, SpentIsGone
<1>2. SpentIsGone /\ TypeOK /\ TypeOK' /\ GrantsInv /\ StepEffect => SpentIsGone'
  <2> SUFFICES ASSUME SpentIsGone, GrantsInv, StepEffect, NEW g \in Grants,
                      uses'[g] > 0, g \notin undeleted'
               PROVE  grants'[g].state = "gone"
    BY DEF SpentIsGone
  <2>1. CASE uses'[g] = uses[g]
    BY <2>1 DEF SpentIsGone, StepEffect
  <2>2. ASSUME NEW r \in Requests, req[r].pc = "issue", req[r].grant = g
        PROVE  grants'[g].state = "gone"
    BY <2>2 DEF GrantsInv, RequestInv, RequestOK, Busy, StepEffect
  <2> QED BY <2>1, <2>2 DEF StepEffect
<1> QED BY <1>1, <1>2, GrantsInvariant, StepHasEffect, PTL DEF Spec

\* Tokens are issued from a grant at most MaxDelay after its expiry.
THEOREM IssuedWithinExpiry == Spec => IssuedBeforeExpiry
<1> DEFINE A == \A g \in Grants : uses'[g] > uses[g] => clock <= grants[g].exp + MaxDelay
<1>1. TypeOK /\ TypeOK' /\ GrantsInv /\ StepEffect => A
  <2> SUFFICES ASSUME TypeOK, TypeOK', GrantsInv, StepEffect, NEW g \in Grants, uses'[g] > uses[g]
               PROVE  clock <= grants[g].exp + MaxDelay
    OBVIOUS
  <2>1. PICK r \in Requests : req[r].pc = "issue" /\ req[r].grant = g
    <3>1. uses[g] \in Nat /\ uses'[g] \in Nat
      BY DEF TypeOK
    <3> QED BY <3>1 DEF StepEffect
  <2>2. /\ req[r].since <= grants[g].exp /\ clock <= req[r].since + MaxDelay
    BY <2>1 DEF GrantsInv, RequestInv, RequestOK, Busy
  <2>3. req[r].since \in Nat /\ grants[g].exp \in Nat /\ clock \in Nat
    BY DEF TypeOK
  <2> QED BY <2>2, <2>3, DurationAssumption
<1> QED BY <1>1, GrantsInvariant, StepHasEffect, PTL DEF Spec, IssuedBeforeExpiry

-----------------------------------------------------------------------------
(* Overlapping requests *)

\* What a step does to the uses of g and to the requests that redeem it: no
\* request joins them unless the row is there, and who issues leaves them.
RedeemEffect(g) ==
    \/ uses'[g] = uses[g] /\ (Redeeming(g)' \subseteq Redeeming(g) \/ Live(g))
    \/ /\ uses'[g] = uses[g] + 1
       /\ \E r \in Redeeming(g) : Redeeming(g)' \subseteq Redeeming(g) \ {r}

\* A request that moves on, or answers, joins nobody; the others stay as they are.
LEMMA MoverLeaves ==
    ASSUME NEW g \in Grants, NEW r \in Requests,
           \A q \in Requests \ {r} : req'[q] = req[q],
           r \in Redeeming(g)' => r \in Redeeming(g)
    PROVE  Redeeming(g)' \subseteq Redeeming(g)
BY DEF Redeeming

\* Every statement has only these effects.
LEMMA StepRedeems ==
    ASSUME TypeOK, GrantsInv, [Next]_vars, NEW g \in Grants
    PROVE  RedeemEffect(g)
<1>1. ASSUME UNCHANGED <<req, uses>> PROVE RedeemEffect(g)
  BY <1>1 DEF RedeemEffect, Redeeming
<1>2. CASE Tick \/ JanitorCodes \/ JanitorTokens \/ JanitorClients
  BY <1>1, <1>2 DEF Tick, JanitorCodes, JanitorTokens, JanitorClients, history
<1>3. ASSUME NEW c \in Clients, Register(c) \/ AuthorizeTouch(c) \/ AuthorizeTouchFails(c)
      PROVE  RedeemEffect(g)
  BY <1>1, <1>3 DEF Register, AuthorizeTouch, AuthorizeTouchFails, TouchFails, history
<1>4. ASSUME NEW h \in Codes, NEW c \in Clients, NEW b \in Bindings, InsertCode(h, c, b)
      PROVE  RedeemEffect(g)
  BY <1>1, <1>4 DEF InsertCode, history
<1>5. ASSUME NEW r \in Requests, Respond(r), UNCHANGED uses PROVE RedeemEffect(g)
  <2>1. r \notin Redeeming(g)'
    BY <1>5, RespondFact DEF Redeeming
  <2> QED BY <1>5, <2>1, RespondFact, MoverLeaves DEF RedeemEffect
<1>6. ASSUME NEW r \in Requests, UNCHANGED uses,
             NEW pc \in {"touch", "lookup", "delete", "check", "upstream", "issue"}, Goto(r, pc),
             \/ pc = "lookup"
             \/ req[r].pc \in {"delete", "check", "upstream", "issue"}
      PROVE  RedeemEffect(g)
  <2>1. r \in Redeeming(g)' => r \in Redeeming(g)
    BY <1>6, GotoFact DEF Redeeming
  <2> QED BY <1>6, <2>1, GotoFact, MoverLeaves DEF RedeemEffect
<1>7. ASSUME NEW r \in Requests, Begin(r) PROVE RedeemEffect(g)
  <2>1. PICK x \in RequestStates : /\ req' = [req EXCEPT ![r] = x]
                                   /\ x.pc \in {"touch", "lookup"}
    BY <1>7 DEF Begin, BeginToken, BeginRevoke, Request, RequestStates, TypeOK, Grants
  <2>2. req'[r] = x /\ \A q \in Requests \ {r} : req'[q] = req[q]
    BY <2>1 DEF TypeOK
  <2>3. r \notin Redeeming(g)'
    BY <2>1, <2>2 DEF Redeeming
  <2> QED BY <1>7, <2>2, <2>3, MoverLeaves DEF RedeemEffect, Begin, history
<1>8. ASSUME NEW r \in Requests, Touch(r) \/ TokenTouchFails(r) PROVE RedeemEffect(g)
  BY <1>5, <1>6, <1>8 DEF Touch, TokenTouchFails, TouchFails, history
<1>9. ASSUME NEW r \in Requests, Lookup(r) PROVE RedeemEffect(g)
  <2>1. CASE req[r].grant = g
    BY <1>9, <2>1 DEF Lookup, history, RedeemEffect
  <2>2. CASE req[r].grant # g
    <3>1. r \notin Redeeming(g)'
      BY <1>9, <2>2, GotoFact DEF Lookup, Redeeming
    <3> QED BY <1>9, <3>1, GotoFact, MoverLeaves DEF RedeemEffect, Lookup, history
  <2> QED BY <2>1, <2>2
<1>9a. ASSUME NEW r \in Requests, NotFound(r) \/ AnswerOnly(r) PROVE RedeemEffect(g)
  BY <1>5, <1>9a DEF NotFound, AnswerOnly, Answer, history
<1>10. ASSUME NEW r \in Requests, Delete(r) \/ DeleteFails(r) PROVE RedeemEffect(g)
  BY <1>5, <1>6, <1>10 DEF Delete, DeleteFails, AfterDelete, Answer
<1>11. ASSUME NEW r \in Requests, Check(r) PROVE RedeemEffect(g)
  BY <1>5, <1>6, <1>11 DEF Check, AfterCheck, history
<1>12. ASSUME NEW r \in Requests, Upstream(r) \/ Abort(r) PROVE RedeemEffect(g)
  BY <1>5, <1>6, <1>12 DEF Upstream, Abort, history
<1>13. ASSUME NEW r \in Requests, Issue(r) PROVE RedeemEffect(g)
  <2>1. /\ Respond(r) /\ req[r].grant \in Grants /\ r \in Redeeming(req[r].grant)
        /\ uses \in [Grants -> Nat] /\ uses' = [uses EXCEPT ![req[r].grant] = @ + 1]
    BY <1>13 DEF Issue, GrantsInv, RequestInv, RequestOK, Busy, Redeeming, TypeOK
  <2>2. r \notin Redeeming(g)' /\ Redeeming(g)' \subseteq Redeeming(g)
    BY <2>1, RespondFact, MoverLeaves DEF Redeeming
  <2> QED BY <2>1, <2>2 DEF RedeemEffect
<1>14. CASE UNCHANGED vars
  BY <1>1, <1>14 DEF vars
<1> QED
  BY <1>2, <1>3, <1>4, <1>7, <1>8, <1>9, <1>9a, <1>10, <1>11, <1>12, <1>13, <1>14 DEF Next, Serve

\* A request past its lookup began where it began.
LEMMA SinceKept ==
    ASSUME TypeOK, [Next]_vars, NEW r \in Requests
    PROVE  req'[r].pc \in {"idle", "touch", "lookup"} \/ req'[r].since = req[r].since
<1> DEFINE Kept(q) == req'[q].pc \in {"idle", "touch", "lookup"} \/ req'[q].since = req[q].since
<1>1. ASSUME UNCHANGED req PROVE Kept(r)
  BY <1>1
<1>2. ASSUME NEW q \in Requests, Respond(q) PROVE Kept(r)
  BY <1>2, RespondFact
<1>3. ASSUME NEW q \in Requests,
             NEW pc \in {"touch", "lookup", "delete", "check", "upstream", "issue"}, Goto(q, pc)
      PROVE  Kept(r)
  BY <1>3, GotoFact
<1>4. ASSUME NEW q \in Requests, Begin(q) PROVE Kept(r)
  <2>1. PICK x \in RequestStates : req' = [req EXCEPT ![q] = x] /\ x.pc \in {"touch", "lookup"}
    BY <1>4 DEF Begin, BeginToken, BeginRevoke, Request, RequestStates, TypeOK, Grants
  <2> QED BY <2>1 DEF TypeOK
<1>5. ASSUME NEW q \in Requests, Serve(q) PROVE Kept(r)
  BY <1>2, <1>3, <1>4, <1>5
     DEF Serve, Touch, TokenTouchFails, Lookup, NotFound, AnswerOnly, Answer, Delete, DeleteFails,
         AfterDelete, Check, AfterCheck, Upstream, Issue, Abort
<1> QED
  BY <1>1, <1>5 DEF Next, Tick, Register, AuthorizeTouch, AuthorizeTouchFails, InsertCode,
     JanitorCodes, JanitorTokens, JanitorClients, vars

\* A revocation stops every refresh that has not read the row by then: no statement
\* brings a gone row back, so nobody joins the requests that redeem it.
LEMMA RevokedStep ==
    ASSUME TypeOK, TypeOK', GrantsInv, GrantsInv', StepEffect, RevokedInv, [Next]_vars
    PROVE  RevokedInv'
<1> SUFFICES ASSUME NEW a \in Effective'
             PROVE  /\ grants'[a.token].state = "gone"
                    /\ \A r \in Redeeming(a.token)' : req'[r].since <= a.at
  BY DEF RevokedInv
<1>1. a \in revoked' /\ a.why \in {"deleted", "not found"} /\ a.token \in Grants
  BY DEF Effective, TypeOK, Answers
<1>2. CASE a \in revoked
  <2>1. a \in Effective /\ grants[a.token].state = "gone"
    BY <1>1, <1>2 DEF Effective, RevokedInv
  <2>2. grants'[a.token].state = "gone"
    BY <1>1, <2>1 DEF StepEffect
  <2>3. ASSUME NEW r \in Redeeming(a.token)' PROVE req'[r].since <= a.at
    <3>1. r \in Requests /\ req'[r].since = req[r].since
      BY SinceKept DEF Redeeming
    <3>2. r \in Redeeming(a.token)
      BY <1>1, <2>1, StepRedeems DEF RedeemEffect, Live
    <3> QED BY <2>1, <3>1, <3>2 DEF RevokedInv
  <2> QED BY <2>2, <2>3
<1>3. CASE a \notin revoked
  <2>1. a.at = clock' /\ grants'[a.token].state = "gone"
    BY <1>1, <1>3 DEF StepEffect, SentNow
  <2>2. ASSUME NEW r \in Redeeming(a.token)' PROVE req'[r].since <= a.at
    BY <2>1 DEF Redeeming, GrantsInv, RequestInv, RequestOK, Busy
  <2> QED BY <2>1, <2>2
<1> QED BY <1>2, <1>3

\* A revocation takes effect within the duration of one request.
THEOREM RevocationsTakeEffect == Spec => RevocationTakesEffect
<1> DEFINE A == \A a \in Effective : uses'[a.token] > uses[a.token] => clock <= a.at + MaxDelay
<1>1. Init => RevokedInv
  BY DEF Init, RevokedInv, Effective
<1>2. TypeOK /\ TypeOK' /\ GrantsInv /\ RevokedInv /\ StepEffect => A
  <2> SUFFICES ASSUME TypeOK, TypeOK', GrantsInv, RevokedInv, StepEffect,
                      NEW a \in Effective, uses'[a.token] > uses[a.token]
               PROVE  clock <= a.at + MaxDelay
    OBVIOUS
  <2>1. a.token \in Grants /\ a.at \in Nat
    BY DEF Effective, TypeOK, Answers
  <2>2. PICK r \in Requests : req[r].pc = "issue" /\ req[r].grant = a.token
    <3>1. uses[a.token] \in Nat /\ uses'[a.token] \in Nat
      BY <2>1 DEF TypeOK
    <3> QED BY <2>1, <3>1 DEF StepEffect
  <2>3. r \in Redeeming(a.token) /\ clock <= req[r].since + MaxDelay
    BY <2>2 DEF GrantsInv, RequestInv, RequestOK, Busy, Redeeming
  <2>4. req[r].since <= a.at
    BY <2>3 DEF RevokedInv
  <2>5. req[r].since \in Nat /\ clock \in Nat
    BY DEF TypeOK
  <2> QED BY <2>1, <2>3, <2>4, <2>5, DurationAssumption
<1>3. TypeOK /\ TypeOK' /\ GrantsInv /\ GrantsInv' /\ StepEffect /\ RevokedInv /\ [Next]_vars
        => RevokedInv'
  BY RevokedStep
<1> QED
  BY <1>1, <1>2, <1>3, GrantsInvariant, StepHasEffect, PTL DEF Spec, RevocationTakesEffect

\* The requests that redeem a grant can be counted.
LEMMA RedeemersFinite ==
    ASSUME NEW S \in SUBSET Requests
    PROVE  /\ IsFiniteSet(S) /\ Cardinality(S) \in Nat /\ Cardinality(Requests) \in Nat
           /\ Cardinality(S) <= Cardinality(Requests)
BY RequestsAssumption, FS_Subset, FS_CardinalityType

\* Tokens are issued from a grant no more often than requests overlap.
THEOREM ReuseNeedsOverlap == Spec => []OnlyOverlapReuses
<1>1. Init => OnlyOverlapReuses
  <2> SUFFICES ASSUME Init, NEW g \in Grants
               PROVE  uses[g] + Cardinality(Redeeming(g)) <= Cardinality(Requests)
    BY DEF OnlyOverlapReuses
  <2>1. uses[g] = 0 /\ Redeeming(g) \in SUBSET Requests
    BY DEF Init, Redeeming
  <2> QED BY <2>1, RedeemersFinite
<1>2. TypeOK /\ GrantsInv /\ SpentIsGone /\ StepEffect /\ OnlyOverlapReuses /\ [Next]_vars
        => OnlyOverlapReuses'
  <2> SUFFICES ASSUME TypeOK, GrantsInv, SpentIsGone, StepEffect, OnlyOverlapReuses, [Next]_vars,
                      NEW g \in Grants, g \notin undeleted'
               PROVE  uses'[g] + Cardinality(Redeeming(g)') <= Cardinality(Requests)
    BY DEF OnlyOverlapReuses
  <2> DEFINE R  == Redeeming(g)
             R1 == Redeeming(g)'
  <2>0. g \notin undeleted /\ uses[g] \in Nat
    BY DEF StepEffect, TypeOK
  <2>1. uses[g] + Cardinality(R) <= Cardinality(Requests)
    BY <2>0 DEF OnlyOverlapReuses
  <2>2. R \in SUBSET Requests /\ R1 \in SUBSET Requests
    BY DEF Redeeming
  <2>3. /\ IsFiniteSet(R) /\ Cardinality(R) \in Nat /\ Cardinality(Requests) \in Nat
        /\ IsFiniteSet(R1) /\ Cardinality(R1) \in Nat
        /\ Cardinality(R1) <= Cardinality(Requests)
    BY <2>2, RedeemersFinite
  <2>4. CASE uses'[g] = uses[g] /\ R1 \subseteq R
    <3>1. Cardinality(R1) <= Cardinality(R)
      BY <2>3, <2>4, FS_Subset
    <3> QED BY <2>0, <2>1, <2>3, <2>4, <3>1
  <2>5. CASE uses'[g] = uses[g] /\ Live(g)
    <3>1. uses[g] = 0
      BY <2>0, <2>5 DEF SpentIsGone, Live
    <3> QED BY <2>3, <2>5, <3>1
  <2>6. ASSUME uses'[g] = uses[g] + 1, NEW r \in R, R1 \subseteq R \ {r}
        PROVE  uses'[g] + Cardinality(R1) <= Cardinality(Requests)
    <3>1. IsFiniteSet(R \ {r}) /\ Cardinality(R \ {r}) = Cardinality(R) - 1
      BY <2>3, <2>6, FS_RemoveElement
    <3>2. Cardinality(R1) <= Cardinality(R) - 1
      BY <2>6, <3>1, FS_Subset
    <3> QED BY <2>0, <2>1, <2>3, <2>6, <3>2
  <2>7. RedeemEffect(g)
    BY StepRedeems
  <2> QED BY <2>4, <2>5, <2>6, <2>7 DEF RedeemEffect
<1> QED BY <1>1, <1>2, GrantsInvariant, SpentGrantsAreGone, StepHasEffect, PTL DEF Spec

\* Handled one at a time, requests would get tokens from a grant at most once:
\* SingleUse fails only by the overlap (and by a DELETE that fails).
THEOREM SerialIsSingleUse ==
    ASSUME Cardinality(Requests) <= 1
    PROVE  Spec => [](\A g \in Grants : g \notin undeleted => uses[g] <= 1)
<1>1. TypeOK /\ OnlyOverlapReuses => \A g \in Grants : g \notin undeleted => uses[g] <= 1
  <2> SUFFICES ASSUME TypeOK, OnlyOverlapReuses, NEW g \in Grants, g \notin undeleted
               PROVE  uses[g] <= 1
    OBVIOUS
  <2>1. Redeeming(g) \in SUBSET Requests /\ uses[g] \in Nat
    BY DEF Redeeming, TypeOK
  <2> QED BY <2>1, RedeemersFinite DEF OnlyOverlapReuses
<1> QED BY <1>1, GrantsInvariant, ReuseNeedsOverlap, PTL
=============================================================================
