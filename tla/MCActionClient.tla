--------------------------- MODULE MCActionClient ---------------------------
(* ActionClient and ServiceClient for TLC: the skills send two goals to the  *)
(* action, or make two calls of the service.                                 *)
EXTENDS ServiceClient

MCSkills == {[goals |-> 2, calls |-> 0], [goals |-> 0, calls |-> 2]}
=============================================================================
