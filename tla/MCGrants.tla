------------------------------ MODULE MCGrants ------------------------------
(* Model-checking instance of Grants. *)
EXTENDS Grants, TLC

\* Names of clients, codes, tokens and requests are interchangeable.
Symmetry ==
    Permutations(Clients) \cup Permutations(Codes) \cup Permutations(Tokens)
    \cup Permutations(Bindings) \cup Permutations(Resources) \cup Permutations(Requests)

\* Two questions in one state space: clients racing each other while the clock
\* stands at 0, and one client with one binding against the clock.
Registered == {c \in Clients : clients[c].state # "unregistered"}
InUse ==
    ({grants[g].binding : g \in Grants} \cup {req[r].binding : r \in Requests}) \ {None}
RaceOrClock == clock = 0 \/ (Cardinality(Registered) <= 1 /\ Cardinality(InUse) <= 1)

\* What the fingerprint of a state leaves out.  While the clock stands at 0 only
\* the reasons of the 200s; once it runs, also uses, holder and audience, and the
\* 200s for tokens that are neither live nor being redeemed.  The two action
\* properties read the change of uses and no other value that is left out; the
\* invariants over uses and holder are then checked on one representative of
\* each class of states only.
Revocations == {<<a.token, a.at>> : a \in Effective}
Relevant ==
    <<clock, clients, grants, req, undeleted, untouched,
      IF clock = 0 THEN <<uses, holder, audience, Revocations>>
      ELSE {p \in Revocations : Live(p[1]) \/ Redeeming(p[1]) # {}} >>
=============================================================================
