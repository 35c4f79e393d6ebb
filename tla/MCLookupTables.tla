--------------------------- MODULE MCLookupTables --------------------------
(***************************************************************************)
(* Two packets, up to four tables, and three faults of any kind.            *)
(***************************************************************************)
EXTENDS LookupTables
=============================================================================
