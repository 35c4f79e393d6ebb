---------------------------- MODULE ManagedMath -----------------------------
(***************************************************************************)
(* Fee-free share arithmetic of the two-asset managed basket               *)
(* (programs/managed_basket/src/math.rs).  Assets are priced against live  *)
(* raw vault balances only; target weights never enter.                    *)
(***************************************************************************)
EXTENDS Integers

CONSTANTS
    Assets,               \* the constituent pair
    WEIGHTS_DENOMINATOR,  \* 10 000 basis points
    TOLERANCE_SCALE,      \* (max - min) * scale <= min, i.e. 1% (100)
    U64_MAX

ASSUME PairAssumption == \E a, b \in Assets : a # b /\ Assets = {a, b}
ASSUME MathAssumption ==
    /\ WEIGHTS_DENOMINATOR \in Nat
    /\ TOLERANCE_SCALE \in Nat
    /\ U64_MAX \in Nat

Other(a) == CHOOSE b \in Assets : b # a

Implied(deposit, balance, supply) == (deposit * supply) \div balance

\* gross_shares: the smaller leg, within the tolerance; empty where the code
\* returns an error (no supply, an empty vault, a zero leg, a lopsided deposit)
GrossShares(deposits, balances, supply) ==
    LET leg(a) == Implied(deposits[a], balances[a], supply) IN
    IF supply > 0 /\ \A a \in Assets : deposits[a] > 0 /\ balances[a] > 0
    THEN {g \in {leg(a) : a \in Assets} :
            g > 0 /\ \A a \in Assets :
                       /\ g <= leg(a) /\ leg(a) <= U64_MAX
                       /\ (leg(a) - g) * TOLERANCE_SCALE <= g}
    ELSE {}

\* redeem_amounts, one leg; variant: rounded up
RedeemAmountUp(balance, n, supply) == (balance * n + supply - 1) \div supply
RedeemAmount(balance, n, supply) == (balance * n) \div supply

\* validate_weights
ValidWeights ==
    {w \in [Assets -> 1..WEIGHTS_DENOMINATOR] :
        \A a \in Assets : w[a] + w[Other(a)] = WEIGHTS_DENOMINATOR}
=============================================================================
