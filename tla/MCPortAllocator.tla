-------------------------- MODULE MCPortAllocator --------------------------
(* A small instance of PortAllocator: two processes, two environments with
   two slots each, and more slots than ports, so that pins collide and the
   range runs out. *)
EXTENDS PortAllocator, TLC

CONSTANTS p1, p2, o1, o2, s1, s2

MCSymmetry == Permutations({p1, p2}) \cup Permutations({o1, o2}) \cup Permutations({s1, s2})
=============================================================================
