---------------------------- MODULE MCStateFile ----------------------------
(* A small instance of StateFile: up to three processes, two ids, two values. *)
EXTENDS StateFile, TLC

CONSTANTS p1, p2, p3, a, b, r1, r2

MCSymmetry == Permutations({p1, p2, p3}) \cup Permutations({a, b}) \cup Permutations({r1, r2})
=============================================================================
