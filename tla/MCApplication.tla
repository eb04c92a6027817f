--------------------------- MODULE MCApplication ----------------------------
(***************************************************************************)
(* Two sessions, so that one opens while another closes or fails; two      *)
(* threads that register, and two handlers, so that one is replaced.       *)
(***************************************************************************)
EXTENDS Application, TLC

CONSTANTS s1, s2, r1, r2, d1, d2

Symmetry == Permutations({s1, s2}) \cup Permutations({r1, r2}) \cup Permutations({d1, d2})
=============================================================================
