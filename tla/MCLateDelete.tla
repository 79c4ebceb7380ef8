---------------------------- MODULE MCLateDelete ----------------------------
(* Model values for LateDelete. *)
EXTENDS LateDelete

CONSTANTS c1, gc, m1
=============================================================================
