------------------------------ MODULE MCLogin ------------------------------
(* Model-checking instance of Login. *)
EXTENDS Login, TLC

\* Names of one kind are interchangeable.
Symmetry ==
    Permutations(Clients) \cup Permutations(Uris) \cup Permutations(Sessions)
    \cup Permutations(Logins) \cup Permutations(Users) \cup Permutations(Codes)
    \cup Permutations(Requests)

\* Two questions in one state space: two logins mixed up while the clock stands
\* at 0, and one login against the clock.
SessionsInUse ==
    {s \in Sessions : sessions[s].state # "unused" \/ \E r \in Requests : req[r].session = s}
LoginsInUse == {u \in Logins : logins[u].state # "unused"}
UrisInUse == UNION {uris[c] : c \in Clients}
MixupOrClock ==
    \/ clock = 0 /\ untouched = {}
    \/ \A S \in {SessionsInUse, LoginsInUse, UrisInUse} : Cardinality(S) <= 1
=============================================================================
