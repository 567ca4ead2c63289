--------------------------- MODULE MCKeyRotation ---------------------------
(* Model-checking instance of KeyRotation. *)
EXTENDS KeyRotation, TLC

\* Key identifiers and requests are interchangeable (safety runs only).
Symmetry == Permutations(Kids) \cup Permutations(Minters)
\* The rules depend on time differences only: let the first boot be at time 0.
FirstBootAtZero == clock > 0 => \E k \in Kids : keys[k].status # "unused"
\* Two states that differ only in what nothing reads any more have the same
\* future: retires_at before a key retires, created_at after, and the expiry of
\* tokens that no verifier accepts.
Relevant ==
    <<clock, rot, mint, crashes, faults,
      [k \in Kids |->
          CASE keys[k].status = "retiring"          -> <<"retiring", keys[k].retires>>
            [] keys[k].status \in {"active", "next"} -> <<keys[k].status, keys[k].created>>
            [] OTHER                                -> <<keys[k].status>>],
      [k \in Kids |-> IF Accepted(k) THEN lastExp[k] ELSE 0]>>
=============================================================================
