---------------------------- MODULE MCPositions ----------------------------
(* Instances of Positions for TLC. *)
EXTENDS Positions

CONSTANTS creator, treasury

MCUsers == {creator, treasury}
=============================================================================
