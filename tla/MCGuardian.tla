----------------------------- MODULE MCGuardian -----------------------------
(* Small instances of Guardian for TLC. *)
EXTENDS Guardian

CONSTANTS a1, a2, r1, r2, s1, m1, m2
=============================================================================
