----------------------------- MODULE BasketMath -----------------------------
(***************************************************************************)
(* The pure arithmetic of programs/basket (module `math`, the decision     *)
(* helpers compute_mint_gross and fee_split_amounts).  Every division of   *)
(* the program is a u128 floor division, which is \div here; the checked   *)
(* conversions back to u64 are the U64_MAX conjuncts.  The operators take  *)
(* no state, so that the state machine and the lemmas share them.          *)
(***************************************************************************)
EXTENDS Integers

CONSTANTS
    BPS_DENOM,              \* basis points in a whole (10 000)
    SECONDS_PER_YEAR,       \* accounting year (31 536 000)
    CREATOR_FEE_SPLIT_BPS,  \* the creator's part of every fee (9 000)
    GENESIS_SHARES,         \* shares minted into an empty basket (1 000 000)
    TOLERANCE_SCALE,        \* (max - min) * scale <= min, i.e. 1% (100)
    U64_MAX                 \* largest share amount (2^64 - 1)

ASSUME BpsAssumption ==
    /\ BPS_DENOM \in Nat \ {0}
    /\ CREATOR_FEE_SPLIT_BPS \in 0..BPS_DENOM
ASSUME YearAssumption == SECONDS_PER_YEAR \in Nat \ {0}
ASSUME GenesisAssumption ==
    /\ U64_MAX \in Nat
    /\ GENESIS_SHARES \in 1..U64_MAX
    /\ TOLERANCE_SCALE \in Nat

MANAGEMENT_FEE_DENOMINATOR == BPS_DENOM * SECONDS_PER_YEAR

(***************************************************************************)
(* Fees                                                                    *)
(***************************************************************************)
\* checked_bps_fee: entry fee of a mint, exit fee of a redemption
BpsFee(amount, bps) == (amount * bps) \div BPS_DENOM

\* split_fee at the canonical split: the floor goes to the creator, all that
\* is left of the fee to the treasury
CreatorFee(fee) == (fee * CREATOR_FEE_SPLIT_BPS) \div BPS_DENOM
\* variant: both parts rounded down, the dust of the split is lost
TreasuryFeeFloored(fee) == (fee * (BPS_DENOM - CREATOR_FEE_SPLIT_BPS)) \div BPS_DENOM
TreasuryFee(fee) == fee - CreatorFee(fee)

\* management_fee_with_remainder
FeeNumerator(supply, bps, elapsed, carried) == supply * bps * elapsed + carried
ManagementFee(supply, bps, elapsed, carried) ==
    FeeNumerator(supply, bps, elapsed, carried) \div MANAGEMENT_FEE_DENOMINATOR
\* variant: the numerator is carried over unreduced
NextRemainderUnreduced(supply, bps, elapsed, carried) ==
    FeeNumerator(supply, bps, elapsed, carried)
NextRemainder(supply, bps, elapsed, carried) ==
    FeeNumerator(supply, bps, elapsed, carried) % MANAGEMENT_FEE_DENOMINATOR

(***************************************************************************)
(* Mint                                                                    *)
(***************************************************************************)
\* shares one deposit leg is worth at the present backing
LegShares(deposit, balance, supply) == (deposit * supply) \div balance

\* variant: the largest leg decides
GrossSharesLargest(deposits, balances, supply) ==
    LET leg(m) == LegShares(deposits[m], balances[m], supply) IN
    IF \A m \in DOMAIN deposits : deposits[m] > 0 /\ balances[m] > 0
    THEN {g \in {leg(m) : m \in DOMAIN deposits} :
            g > 0 /\ \A m \in DOMAIN deposits : g >= leg(m) /\ g <= U64_MAX}
    ELSE {}

\* gross_shares: the smallest leg, provided that it is worth a share and no
\* leg is more than the tolerance above it.  A set: empty where the code
\* returns an error, one value where it returns Ok.
GrossShares(deposits, balances, supply) ==
    LET leg(m) == LegShares(deposits[m], balances[m], supply) IN
    IF \A m \in DOMAIN deposits : deposits[m] > 0 /\ balances[m] > 0
    THEN {g \in {leg(m) : m \in DOMAIN deposits} :
            /\ g > 0
            /\ \A m \in DOMAIN deposits :
                 /\ g <= leg(m)
                 /\ leg(m) <= U64_MAX
                 /\ (leg(m) - g) * TOLERANCE_SCALE <= g}
    ELSE {}

\* compute_mint_gross: an empty basket mints the fixed genesis amount
MintGross(deposits, balances, supply) ==
    IF supply = 0 THEN {GENESIS_SHARES}
                  ELSE GrossShares(deposits, balances, supply)

(***************************************************************************)
(* Redeem                                                                  *)
(***************************************************************************)
\* redeem_amounts: pro rata, rounded down in favour of those who stay
\* variants: rounded up; with one virtual share added to the supply
RedeemAmountUp(balance, burn, supply) == (balance * burn + supply - 1) \div supply
RedeemAmountVirtual(balance, burn, supply) == (balance * burn) \div (supply + 1)
RedeemAmount(balance, burn, supply) == (balance * burn) \div supply
=============================================================================
