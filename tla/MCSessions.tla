----------------------------- MODULE MCSessions -----------------------------
(* A small instance of Sessions for TLC. *)
EXTENDS Sessions, TLC

\* A route for everybody, one for the operator, one for the reviewer.
MCRoutes == {{"operator", "reviewer"}, {"operator"}, {"reviewer"}}
=============================================================================
