------------------------------ MODULE MCSidecar ------------------------------
(* Model-checking instance of Sidecar. *)
EXTENDS Sidecar
==============================================================================
