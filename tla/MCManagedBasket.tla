-------------------------- MODULE MCManagedBasket ---------------------------
(***************************************************************************)
(* A managed basket small enough for TLC: two holders, trades of one raw   *)
(* unit, two proposals in a row.                                           *)
(***************************************************************************)
EXTENDS ManagedBasket

CONSTANTS usdc, spy, alice, creator, guardian, outsider

MCAssets == {usdc, spy}
MCHolders == {creator, alice}
MCActors == {creator, guardian, outsider}
MCVault == [a \in MCAssets |-> 2]
MCWeights == [a \in MCAssets |-> IF a = usdc THEN 1 ELSE 2]
=============================================================================
