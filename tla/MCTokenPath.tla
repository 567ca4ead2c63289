---------------------------- MODULE MCTokenPath ----------------------------
(* Model-checking instance of TokenPath. *)
EXTENDS TokenPath, Integers, TLC

\* Keys and requests are interchangeable.
Symmetry == Permutations(Kids) \cup Permutations(Minters)
\* The rules depend on time differences only: let the first boot be at time 0.
\* One mishap, a crash or a failing statement.
BootAtZeroOneMishap ==
    /\ clock > 0 => \E k \in Kids : keys[k].status # "unused"
    /\ crashes + faults <= 1
\* How long ago t was, as far as a deadline of the instance can tell.
Horizon == Overlap + CacheTTL
Ago(t) == IF clock - t > Horizon THEN Horizon ELSE clock - t
\* What the cache can tell of its last fetch.
Fetched == IF JC!OlderThan(MinGap) /\ JC!OlderThan(CacheTTL) THEN "old"
           ELSE Ago(cache.lastFetch)
\* What some step or property reads: not retires_at before a key retires, not
\* the expiry of tokens that no verifier accepts, not which mishap it was, not
\* the key a hung exchange was to find.
Relevant ==
    <<clock, rot, mint, crashes + faults, mu, ensured, unknown,
      [v \in Verifiers |-> IF JC!Hung(v) THEN "hung" ELSE get[v]],
      <<cache.state, cache.keys, Fetched>>,
      [k \in Kids |-> <<keys[k].status, Ago(keys[k].created),
                        IF keys[k].status = "retiring" THEN Ago(keys[k].retires) ELSE 0>>],
      [k \in Kids |-> IF Accepted(k) THEN lastExp[k] ELSE 0]>>
=============================================================================
