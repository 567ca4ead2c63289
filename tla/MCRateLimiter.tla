---------------------------- MODULE MCRateLimiter ----------------------------
EXTENDS RateLimiter, TLC

\* Addresses and requests are interchangeable.
Symmetry == Permutations(Addresses) \cup Permutations(Requests)
==============================================================================
