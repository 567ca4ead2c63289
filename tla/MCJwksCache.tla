---------------------------- MODULE MCJwksCache ----------------------------
(* Model-checking instance of JwksCache; all constants are given in the cfg. *)
EXTENDS JwksCache
=============================================================================
