--------------------------- MODULE MCQueryRunner ---------------------------
(* Instances of QueryRunner for TLC.                                       *)
EXTENDS QueryRunner, TLC

(* Connections are interchangeable; so are the calls that no constant      *)
(* tells apart.  Only used by runs without liveness.                       *)
ConnSymmetry == Permutations(Conns)
CallSymmetry == Permutations(Calls \ MemoryCalls)
Symmetry == ConnSymmetry \cup CallSymmetry
=============================================================================
