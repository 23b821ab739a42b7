---------------------------- MODULE MCTransaction ----------------------------
(* A small instance of Transaction for TLC. *)
EXTENDS Transaction

CONSTANTS c1, d1, g1, w1, w2

MCDirectiveOf == [c \in Confirmations |-> d1]
MCGateOf == [d \in Directives |-> g1]
=============================================================================
