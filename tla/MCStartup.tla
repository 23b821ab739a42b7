------------------------------ MODULE MCStartup ------------------------------
(* A small instance of Startup for TLC: the seed rows that behave alike are   *)
(* one or two.                                                                *)
EXTENDS Startup

MCTables == <<"users", "reservoirs", "gates", "directives", "receipts">>
MCSeedCodes == [users |-> {"admin"}, reservoirs |-> {"R-001", "R-002"},
                gates |-> {"GU-001"}, directives |-> {"OD-001", "OD-003"},
                receipts |-> {"EC-001"}]
=============================================================================
