------------------------------ MODULE RateQuota ------------------------------
(***************************************************************************)
(* What the limiter in front of /oauth/register promises: every address    *)
(* has one window at a time, a window admits at most Limit requests, and   *)
(* the next one opens only when the last one is over.  Nothing is ever     *)
(* forgotten; the limiter, which evicts idle buckets, must not be told     *)
(* apart from this.                                                        *)
(***************************************************************************)
EXTENDS Integers

CONSTANTS
    Addresses,  \* client addresses
    Requests,   \* HTTP requests in flight
    Limit,      \* requests admitted per window
    Window,     \* length of a window
    Times       \* the times a request may carry

VARIABLES
    ledger,     \* address -> its latest window, for the addresses seen
    reply       \* request -> what the limiter answered

vars == <<ledger, reply>>

\* The latest window of a is over at time t, or there was none.
Over(a, t) == a \in DOMAIN ledger => t - ledger[a].start >= Window

Record(a, w) ==
    ledger' = [x \in DOMAIN ledger \cup {a} |-> IF x = a THEN w ELSE ledger[x]]

Init ==
    /\ ledger = [x \in {} |-> 0]
    /\ reply = [r \in Requests |-> "none"]

Arrive(r) ==
    /\ reply' = [reply EXCEPT ![r] = "none"]
    /\ UNCHANGED ledger

\* A request dated t opens a window and is its first.
Open(r, a, t) ==
    /\ Over(a, t)
    /\ Record(a, [start |-> t, used |-> 1])
    /\ reply' = [reply EXCEPT ![r] = "next"]

\* A request is admitted to the open window.
Admit(r, a, t) ==
    /\ ~Over(a, t)
    /\ ledger[a].used < Limit
    /\ Record(a, [ledger[a] EXCEPT !.used = @ + 1])
    /\ reply' = [reply EXCEPT ![r] = "next"]

\* A request is refused: the open window has admitted Limit requests.
Refuse(r, a, t) ==
    /\ ~Over(a, t)
    /\ ledger[a].used = Limit
    /\ reply' = [reply EXCEPT ![r] = "429"]
    /\ UNCHANGED ledger

Next ==
    \E r \in Requests :
        \/ Arrive(r)
        \/ \E a \in Addresses, t \in Times : Open(r, a, t) \/ Admit(r, a, t) \/ Refuse(r, a, t)

Spec == Init /\ [][Next]_vars
==============================================================================
