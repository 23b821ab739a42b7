---------------------------- MODULE MCEntityStore ----------------------------
(* A small instance of EntityStore for TLC: model values for its loads,       *)
(* changes and codes, without symmetry, as it is checked for liveness too.    *)
EXTENDS EntityStore
=============================================================================
