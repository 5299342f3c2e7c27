--------------------------- MODULE MCToDDiscovery ---------------------------
(* Two discoveries; a node whose table of two blocks loses one. *)
EXTENDS ToDDiscovery
CONSTANTS u1, u2
MCTables == {{u1}, {u1, u2}}
=============================================================================
