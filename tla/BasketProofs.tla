---------------------------- MODULE BasketProofs ----------------------------
(***************************************************************************)
(* Theorems about Basket, for every value of the constants.  The inductive *)
(* invariant is BasketInv: types, the exact fee stream, and backing; with  *)
(* it, Conserved is inductive too.                                         *)
(***************************************************************************)
EXTENDS Basket, AmountLemmas, TLAPS

(***************************************************************************)
(* Fees                                                                    *)
(***************************************************************************)
LEMMA DenominatorPositive == MANAGEMENT_FEE_DENOMINATOR \in Nat \ {0}
  BY BpsAssumption, YearAssumption DEF MANAGEMENT_FEE_DENOMINATOR

\* checked_bps_fee at an admissible rate never exceeds the amount.
LEMMA BpsFeeBound ==
    ASSUME NEW amount \in Nat, NEW bps \in 0..BPS_DENOM
    PROVE  BpsFee(amount, bps) \in 0..amount
  <1>1. /\ (amount * bps) \div BPS_DENOM \in Nat
        /\ (amount * bps) \div BPS_DENOM <= amount
    BY DivFraction, BpsAssumption
  <1>2. QED
    BY <1>1 DEF BpsFee

\* split_fee pays out the whole fee, in two non-negative parts.
LEMMA SplitFee ==
    ASSUME NEW fee \in Nat
    PROVE  /\ CreatorFee(fee) \in Nat
           /\ TreasuryFee(fee) \in Nat
           /\ CreatorFee(fee) + TreasuryFee(fee) = fee
  <1>1. /\ (fee * CREATOR_FEE_SPLIT_BPS) \div BPS_DENOM \in Nat
        /\ (fee * CREATOR_FEE_SPLIT_BPS) \div BPS_DENOM <= fee
    BY DivFraction, BpsAssumption
  <1>2. QED
    BY <1>1 DEF CreatorFee, TreasuryFee

\* management_fee_with_remainder: fee * denominator + next remainder is exactly
\* the streamed numerator plus the carried remainder (lib.rs:175-177).
LEMMA ManagementFeeExact ==
    ASSUME NEW sup \in Nat, NEW bps \in Nat, NEW dt \in Nat, NEW carried \in Nat
    PROVE  /\ ManagementFee(sup, bps, dt, carried) \in Nat
           /\ NextRemainder(sup, bps, dt, carried) \in 0..(MANAGEMENT_FEE_DENOMINATOR - 1)
           /\ sup * bps * dt + carried
                = ManagementFee(sup, bps, dt, carried) * MANAGEMENT_FEE_DENOMINATOR
                  + NextRemainder(sup, bps, dt, carried)
  <1>1. sup * bps * dt + carried \in Nat
    OBVIOUS
  <1>2. QED
    BY <1>1, DivFloor, DenominatorPositive
    DEF ManagementFee, NextRemainder, FeeNumerator

\* Paying a fee lowers nobody's balance.
LEMMA PayFeeMonotone ==
    ASSUME NEW balances \in [Holders -> Nat], NEW fee \in Nat
    PROVE  /\ PayFee(balances, fee) \in [Holders -> Nat]
           /\ \A h \in Holders : PayFee(balances, fee)[h] >= balances[h]
  <1>1. CreatorFee(fee) \in Nat /\ TreasuryFee(fee) \in Nat
    BY SplitFee
  <1>2. ASSUME NEW h \in Holders
        PROVE  PayFee(balances, fee)[h] \in Nat /\ PayFee(balances, fee)[h] >= balances[h]
    BY <1>1 DEF PayFee
  <1>3. QED
    BY <1>2 DEF PayFee

(***************************************************************************)
(* The inductive invariant.  FeeStreamExact is inductive only with the     *)
(* types (the remainder is a proper fraction) and with the fact that a     *)
(* basket without management fee never carries a remainder.                *)
(***************************************************************************)
NoFeeNoRemainder == MANAGEMENT_FEE_BPS = 0 => remainder = 0
BasketInv == TypeOK /\ FeeStreamExact /\ BackedShares /\ NoFeeNoRemainder

\* What accrue_fee_internal leaves for the rest of an instruction: it lowers no
\* balance, mints nothing into an empty basket, and settles the streamed fee
\* down to the remainder it stores.
LEMMA AccrualSettles ==
    ASSUME BasketInv
    PROVE  /\ AccruedFee \in Nat
           /\ AccruedSupply \in Nat
           /\ AccruedSupply = supply + AccruedFee
           /\ supply = 0 => AccruedSupply = 0
           /\ AccruedShares \in [Holders -> Nat]
           /\ \A h \in Holders : AccruedShares[h] >= shares[h]
           /\ AccruedRemainder \in 0..(MANAGEMENT_FEE_DENOMINATOR - 1)
           /\ AccruedOwed = AccruedRemainder
           /\ MANAGEMENT_FEE_BPS = 0 => AccruedRemainder = 0
  <1>1. /\ Elapsed \in Nat /\ supply \in Nat /\ remainder \in Nat
        /\ MANAGEMENT_FEE_BPS \in Nat /\ MANAGEMENT_FEE_DENOMINATOR \in Nat \ {0}
    BY DenominatorPositive, FeesAssumption, BpsAssumption, GenesisAssumption, SeedAssumption
    DEF Elapsed, BasketInv, TypeOK
  <1> DEFINE fee == ManagementFee(supply, MANAGEMENT_FEE_BPS, Elapsed, remainder)
             rest == NextRemainder(supply, MANAGEMENT_FEE_BPS, Elapsed, remainder)
  <1>2. /\ fee \in Nat
        /\ rest \in 0..(MANAGEMENT_FEE_DENOMINATOR - 1)
        /\ supply * MANAGEMENT_FEE_BPS * Elapsed + remainder
             = fee * MANAGEMENT_FEE_DENOMINATOR + rest
    <2>1. supply \in Nat /\ MANAGEMENT_FEE_BPS \in Nat /\ Elapsed \in Nat /\ remainder \in Nat
      BY <1>1
    <2>2. QED
      BY <2>1, ManagementFeeExact
  <1>3. AccruedFee \in Nat
    BY <1>2 DEF AccruedFee
  <1>4. AccruedShares \in [Holders -> Nat] /\ \A h \in Holders : AccruedShares[h] >= shares[h]
    BY <1>3, PayFeeMonotone DEF AccruedShares, BasketInv, TypeOK
  <1>5. AccruedRemainder \in 0..(MANAGEMENT_FEE_DENOMINATOR - 1)
    BY <1>1, <1>2 DEF AccruedRemainder, BasketInv, TypeOK
  <1>6. AccruedOwed = AccruedRemainder
    <2>1. CASE Elapsed = 0
      BY <2>1, <1>1 DEF AccruedOwed, AccruedFee, AccruedRemainder, FeeStreamExact, BasketInv
    <2>2. CASE Elapsed > 0 /\ supply = 0
      BY <2>2, <1>1 DEF AccruedOwed, AccruedRemainder, NoFeeBase
    <2>3. CASE Elapsed > 0 /\ supply > 0 /\ MANAGEMENT_FEE_BPS = 0
      <3>1. supply * MANAGEMENT_FEE_BPS * Elapsed = 0
        BY <2>3, <1>1
      <3>2. owed = 0
        BY <2>3, <3>1, <1>1 DEF FeeStreamExact, NoFeeNoRemainder, BasketInv, TypeOK
      <3>3. AccruedFee * MANAGEMENT_FEE_DENOMINATOR = 0
        BY <2>3, <1>1 DEF AccruedFee, NoFeeBase
      <3>4. QED
        BY <2>3, <3>2, <3>3, <1>1 DEF AccruedOwed, AccruedRemainder, NoFeeBase
    <2>4. CASE Elapsed > 0 /\ supply > 0 /\ MANAGEMENT_FEE_BPS > 0
      BY <2>4, <1>1, <1>2 DEF AccruedOwed, AccruedFee, AccruedRemainder, NoFeeBase, FeeStreamExact, BasketInv
    <2>5. QED
      BY <1>1, <2>1, <2>2, <2>3, <2>4
  <1>7. MANAGEMENT_FEE_BPS = 0 => AccruedRemainder = 0
    BY DEF AccruedRemainder, NoFeeBase, NoFeeNoRemainder, BasketInv
  <1>8. supply = 0 => AccruedSupply = 0
    BY DEF AccruedSupply, AccruedFee, NoFeeBase
  <1>9. AccruedSupply \in Nat /\ AccruedSupply = supply + AccruedFee
    BY <1>1, <1>3 DEF AccruedSupply
  <1>10. QED
    BY <1>3, <1>4, <1>5, <1>6, <1>7, <1>8, <1>9

\* Whatever else an instruction does, its checkpoint re-establishes the parts
\* of the invariant that speak of the fee clock.
LEMMA AccrueCheckpoints ==
    ASSUME BasketInv, Accrue, now' = now, supply' \in Nat
    PROVE  /\ last_fee_accrual_ts' \in 0..now'
           /\ remainder' \in 0..(MANAGEMENT_FEE_DENOMINATOR - 1)
           /\ owed' \in Nat
           /\ FeeStreamExact'
           /\ NoFeeNoRemainder'
  <1>1. last_fee_accrual_ts' = now
    BY DEF BasketInv, TypeOK, Accrue, Elapsed
  <1>2. /\ remainder' = AccruedRemainder
        /\ owed' = AccruedRemainder
        /\ AccruedRemainder \in 0..(MANAGEMENT_FEE_DENOMINATOR - 1)
        /\ MANAGEMENT_FEE_BPS = 0 => AccruedRemainder = 0
    BY AccrualSettles DEF Accrue
  <1>3. MANAGEMENT_FEE_BPS \in Nat /\ MANAGEMENT_FEE_DENOMINATOR \in Nat \ {0}
    BY FeesAssumption, BpsAssumption, DenominatorPositive
  <1>4. now' - last_fee_accrual_ts' = 0
    BY <1>1 DEF BasketInv, TypeOK
  <1>5. supply' * MANAGEMENT_FEE_BPS * (now' - last_fee_accrual_ts') = 0
    BY <1>3, <1>4
  <1>6. FeeStreamExact'
    BY <1>2, <1>3, <1>5 DEF FeeStreamExact, Elapsed
  <1>7. QED
    BY <1>1, <1>2, <1>3, <1>6 DEF BasketInv, TypeOK, NoFeeNoRemainder

(***************************************************************************)
(* Pricing of a mint and of a redemption                                   *)
(***************************************************************************)
\* compute_mint_gross never credits more than a deposit leg is worth.
LEMMA GrossSharesPriced ==
    ASSUME NEW deposits \in [Mints -> Nat], NEW balances \in [Mints -> Nat],
           NEW sup \in Nat, NEW gross \in MintGross(deposits, balances, sup)
    PROVE  /\ gross \in Nat \ {0}
           /\ sup > 0 => \A m \in Mints :
                balances[m] > 0 /\ gross * balances[m] <= deposits[m] * sup
  <1>1. CASE sup = 0
    BY <1>1, GenesisAssumption DEF MintGross
  <1>2. CASE sup > 0
    <2>1. gross \in GrossShares(deposits, balances, sup)
      BY <1>2 DEF MintGross
    <2>2. \A m \in Mints : balances[m] > 0
      BY <2>1 DEF GrossShares
    <2>3. PICK k \in Mints : gross = LegShares(deposits[k], balances[k], sup)
      BY <2>1 DEF GrossShares
    <2>4. \A m \in Mints : gross <= LegShares(deposits[m], balances[m], sup)
      BY <2>1 DEF GrossShares
    <2>5. gross > 0
      BY <2>1 DEF GrossShares
    <2>6. ASSUME NEW m \in Mints
          PROVE  /\ LegShares(deposits[m], balances[m], sup) \in Nat
                 /\ LegShares(deposits[m], balances[m], sup) * balances[m] <= deposits[m] * sup
      <3>1. deposits[m] * sup \in Nat /\ balances[m] \in Nat /\ balances[m] > 0
        BY <2>2
      <3>2. QED
        BY <3>1, DivFloor DEF LegShares
    <2>7. gross \in Nat
      BY <2>3, <2>6
    <2>8. ASSUME NEW m \in Mints
          PROVE  gross * balances[m] <= deposits[m] * sup
      <3>1. LegShares(deposits[m], balances[m], sup) \in Nat
        BY <2>6
      <3>2. gross * balances[m] <= LegShares(deposits[m], balances[m], sup) * balances[m]
        BY <2>4, <2>7, <3>1
      <3>3. QED
        BY <2>6, <2>7, <3>1, <3>2
    <2>9. QED
      BY <2>2, <2>5, <2>7, <2>8
  <1>3. QED
    BY <1>1, <1>2

\* redeem_amounts pays at most the pro-rata part, everything when the whole
\* supply is burned, and never the last unit before that.
LEMMA RedeemPriced ==
    ASSUME NEW balance \in Nat, NEW sup \in Nat, sup > 0, NEW burn \in 0..sup
    PROVE  /\ RedeemAmount(balance, burn, sup) \in 0..balance
           /\ RedeemAmount(balance, burn, sup) * sup <= balance * burn
           /\ burn = sup => RedeemAmount(balance, burn, sup) = balance
           /\ burn < sup /\ balance > 0 => RedeemAmount(balance, burn, sup) < balance
  BY ProRata DEF RedeemAmount

(***************************************************************************)
(* The three instructions.  Each lemma gives what its instruction does to  *)
(* the invariant and to the two action properties.                         *)
(***************************************************************************)
StepOK == BasketInv' /\ BackingPerShareKept /\ LastShareTakesAll

LEMMA TypesOfParts ==
    ASSUME BasketInv
    PROVE  /\ supply \in Nat /\ now \in Nat /\ U64_MAX \in Nat /\ MaxTime \in Nat
           /\ ENTRY_FEE_BPS \in 0..BPS_DENOM /\ EXIT_FEE_BPS \in 0..BPS_DENOM
           /\ MANAGEMENT_FEE_BPS \in Nat
  BY GenesisAssumption, SeedAssumption, FeesAssumption, BpsAssumption DEF BasketInv, TypeOK

\* A mint adds at least as much of each constituent as its gross shares claim.
LEMMA MintStep ==
    ASSUME BasketInv, NEW user \in Holders, NEW amounts \in Deposits,
           MintInKind(user, amounts, vault)
    PROVE  StepOK
  <1>1. /\ amounts \in [Mints -> Nat]
        /\ \A m \in Mints : amounts[m] > 0 /\ amounts[m] <= wallet[user][m]
    BY SeedAssumption DEF Deposits, MintInKind
  <1>2. /\ vault \in [Mints -> Nat] /\ wallet \in [Holders -> [Mints -> Nat]]
        /\ vault' = [m \in Mints |-> vault[m] + amounts[m]]
        /\ wallet' = [wallet EXCEPT ![user] = [m \in Mints |-> @[m] - amounts[m]]]
        /\ status' = status /\ held' = held /\ taken' = taken /\ now' = now
        /\ Accrue
    BY DEF MintInKind, issuer_vars, BasketInv, TypeOK
  <1>3. PICK gross \in MintGross(amounts, vault, AccruedSupply) :
          /\ AccruedSupply + gross <= U64_MAX
          /\ supply' = AccruedSupply + gross
          /\ shares' = PayFee(Credit(AccruedShares, user, gross - BpsFee(gross, ENTRY_FEE_BPS)),
                              BpsFee(gross, ENTRY_FEE_BPS))
    BY DEF MintInKind
  <1>4. /\ AccruedSupply \in Nat /\ AccruedShares \in [Holders -> Nat]
        /\ AccruedSupply >= supply
    BY AccrualSettles, TypesOfParts
  <1>5. /\ gross \in Nat \ {0}
        /\ AccruedSupply > 0 => \A m \in Mints :
             vault[m] > 0 /\ gross * vault[m] <= amounts[m] * AccruedSupply
    BY <1>1, <1>2, <1>4, GrossSharesPriced
  <1>6. supply' \in 1..U64_MAX
    BY <1>3, <1>4, <1>5, TypesOfParts
  <1>7. shares' \in [Holders -> Nat]
    <2>1. BpsFee(gross, ENTRY_FEE_BPS) \in 0..gross
      BY <1>5, BpsFeeBound, TypesOfParts
    <2>2. Credit(AccruedShares, user, gross - BpsFee(gross, ENTRY_FEE_BPS)) \in [Holders -> Nat]
      BY <1>4, <1>5, <2>1 DEF Credit
    <2>3. QED
      BY <1>3, <1>5, <2>1, <2>2, PayFeeMonotone
  <1>8. vault' \in [Mints -> Nat] /\ \A m \in Mints : vault'[m] > 0
    BY <1>1, <1>2
  <1>9. wallet' \in [Holders -> [Mints -> Nat]]
    BY <1>1, <1>2
  <1>10. /\ last_fee_accrual_ts' \in 0..now'
         /\ remainder' \in 0..(MANAGEMENT_FEE_DENOMINATOR - 1)
         /\ owed' \in Nat /\ FeeStreamExact' /\ NoFeeNoRemainder'
    BY <1>2, <1>6, AccrueCheckpoints
  <1>11. BasketInv'
    BY <1>2, <1>6, <1>7, <1>8, <1>9, <1>10 DEF BasketInv, TypeOK, BackedShares
  <1>12. BackingPerShareKept
    <2>1. ASSUME supply > 0, NEW m \in Mints
          PROVE  vault'[m] * AccruedSupply >= vault[m] * supply'
      <3>1. gross * vault[m] <= amounts[m] * AccruedSupply
        BY <1>4, <1>5, <2>1, TypesOfParts
      <3>2. /\ (vault[m] + amounts[m]) * AccruedSupply
                 = vault[m] * AccruedSupply + amounts[m] * AccruedSupply
            /\ vault[m] * (AccruedSupply + gross)
                 = vault[m] * AccruedSupply + gross * vault[m]
        BY <1>1, <1>2, <1>4, <1>5
      <3>3. vault'[m] = vault[m] + amounts[m]
        BY <1>2
      <3>4. /\ vault[m] \in Nat /\ amounts[m] \in Nat /\ gross \in Nat
            /\ vault[m] * AccruedSupply \in Nat /\ gross * vault[m] \in Nat
            /\ amounts[m] * AccruedSupply \in Nat
        BY <1>1, <1>2, <1>4, <1>5
      <3>5. QED
        BY <1>3, <3>1, <3>2, <3>3, <3>4
    <2>2. QED
      BY <2>1 DEF BackingPerShareKept
  <1>13. LastShareTakesAll
    BY <1>6 DEF LastShareTakesAll
  <1>14. QED
    BY <1>11, <1>12, <1>13 DEF StepOK

\* A redemption takes at most its part of each constituent.
LEMMA RedeemStep ==
    ASSUME BasketInv, NEW user \in Holders, NEW n \in Nat,
           RedeemInKind(user, n, vault)
    PROVE  StepOK
  <1> DEFINE burn == BurnAmount(n)
             out == AmountsOut(vault, n)
  <1>1. /\ vault \in [Mints -> Nat] /\ wallet \in [Holders -> [Mints -> Nat]]
        /\ shares \in [Holders -> Nat]
        /\ vault' = [m \in Mints |-> vault[m] - out[m]]
        /\ wallet' = [wallet EXCEPT ![user] = [m \in Mints |-> @[m] + out[m]]]
        /\ supply' = AccruedSupply - burn
        /\ shares' = PayFee(Debit(AccruedShares, user, n), ExitFee(n))
        /\ n <= shares[user]
        /\ AccruedSupply > 0 /\ burn <= AccruedSupply
        /\ status' = status /\ held' = held /\ taken' = taken /\ now' = now
        /\ Accrue
    BY DEF RedeemInKind, issuer_vars, MayRedeem, ShareBalanceSnapshot, BasketInv, TypeOK
  <1>2. /\ AccruedSupply \in Nat /\ AccruedShares \in [Holders -> Nat]
        /\ AccruedSupply <= U64_MAX
        /\ supply = 0 => AccruedSupply = 0
        /\ AccruedShares[user] >= shares[user]
    BY <1>1, AccrualSettles DEF Accrue, MayAccrue
  <1>3. ExitFee(n) \in 0..n
    BY BpsFeeBound, TypesOfParts DEF ExitFee
  <1>4. burn \in 0..AccruedSupply
    BY <1>1, <1>2, <1>3 DEF BurnAmount
  <1>5. ASSUME NEW m \in Mints
        PROVE  /\ out[m] \in 0..vault[m]
               /\ out[m] * AccruedSupply <= vault[m] * burn
               /\ burn = AccruedSupply => out[m] = vault[m]
               /\ burn < AccruedSupply /\ vault[m] > 0 => out[m] < vault[m]
    <2>1. vault[m] \in Nat
      BY <1>1
    <2>2. out[m] = RedeemAmount(vault[m], burn, AccruedSupply)
      BY DEF AmountsOut
    <2>3. AccruedSupply \in Nat /\ AccruedSupply > 0 /\ burn \in 0..AccruedSupply
      BY <1>1, <1>2, <1>4
    <2> HIDE DEF burn, out
    <2>4. QED
      BY <2>1, <2>2, <2>3, RedeemPriced
  <1>6. supply' \in 0..U64_MAX
    BY <1>1, <1>2, <1>4, TypesOfParts
  <1>7. shares' \in [Holders -> Nat]
    <2>1. AccruedShares \in [Holders -> Nat] /\ AccruedShares[user] - n \in Nat
      <3>1. shares \in [Holders -> Nat] /\ n <= shares[user]
        BY <1>1
      <3>2. AccruedShares \in [Holders -> Nat] /\ AccruedShares[user] >= shares[user]
        BY <1>2
      <3>3. QED
        BY <3>1, <3>2
    <2>2. Debit(AccruedShares, user, n) \in [Holders -> Nat]
      BY <2>1 DEF Debit
    <2>3. ExitFee(n) \in Nat /\ shares' = PayFee(Debit(AccruedShares, user, n), ExitFee(n))
      BY <1>1, <1>3
    <2>4. QED
      BY <2>2, <2>3, PayFeeMonotone
  <1>8. vault' \in [Mints -> Nat]
    BY <1>1, <1>5
  <1>9. wallet' \in [Holders -> [Mints -> Nat]]
    BY <1>1, <1>5
  <1>10. /\ last_fee_accrual_ts' \in 0..now'
         /\ remainder' \in 0..(MANAGEMENT_FEE_DENOMINATOR - 1)
         /\ owed' \in Nat /\ FeeStreamExact' /\ NoFeeNoRemainder'
    BY <1>1, <1>6, AccrueCheckpoints
  <1>11. supply > 0
    BY <1>1, <1>2, TypesOfParts
  <1>12. BackedShares'
    <2>1. ASSUME supply' > 0, NEW m \in Mints, ~(taken'[m] > 0) PROVE vault'[m] > 0
      <3>1. vault[m] \in Nat /\ vault[m] > 0
        BY <1>1, <1>11, <2>1 DEF BasketInv, BackedShares
      <3>2. burn < AccruedSupply
        BY <1>1, <1>2, <1>4, <2>1
      <3>3. out[m] \in Nat /\ out[m] < vault[m]
        BY <1>5, <3>1, <3>2
      <3>4. QED
        BY <1>1, <3>1, <3>3
    <2>2. QED
      BY <2>1 DEF BackedShares
  <1>13. BasketInv'
    BY <1>1, <1>6, <1>7, <1>8, <1>9, <1>10, <1>12 DEF BasketInv, TypeOK
  <1>14. BackingPerShareKept
    <2>1. ASSUME NEW m \in Mints
          PROVE  vault'[m] * AccruedSupply >= vault[m] * supply'
      <3>1. /\ vault[m] \in Nat /\ out[m] \in Nat
            /\ out[m] * AccruedSupply <= vault[m] * burn
        BY <1>1, <1>5
      <3>2. /\ (vault[m] - out[m]) * AccruedSupply
                 = vault[m] * AccruedSupply - out[m] * AccruedSupply
            /\ vault[m] * (AccruedSupply - burn)
                 = vault[m] * AccruedSupply - vault[m] * burn
        BY <1>2, <1>4, <3>1
      <3>3. /\ vault[m] * AccruedSupply \in Nat /\ out[m] * AccruedSupply \in Nat
            /\ vault[m] * burn \in Nat
        BY <1>2, <1>4, <3>1
      <3>4. QED
        BY <1>1, <3>1, <3>2, <3>3
    <2>2. QED
      BY <2>1 DEF BackingPerShareKept
  <1>15. LastShareTakesAll
    <2>1. ASSUME supply' = 0, NEW m \in Mints PROVE vault'[m] = 0
      <3>1. burn = AccruedSupply
        <4>1. /\ supply' = AccruedSupply - burn
              /\ AccruedSupply \in Nat /\ burn \in 0..AccruedSupply
          BY <1>1, <1>2, <1>4
        <4> HIDE DEF burn
        <4>2. QED
          BY <4>1, <2>1
      <3>2. out[m] = vault[m] /\ vault[m] \in Nat
        BY <1>1, <1>5, <3>1
      <3>3. QED
        BY <1>1, <3>2
    <2>2. QED
      BY <2>1 DEF LastShareTakesAll
  <1>16. QED
    BY <1>13, <1>14, <1>15 DEF StepOK

\* The crank mints the accrued fee and touches no vault.
LEMMA CrankStep ==
    ASSUME BasketInv, AccrueManagementFee
    PROVE  StepOK
  <1>1. /\ supply' = AccruedSupply /\ shares' = AccruedShares
        /\ vault' = vault /\ wallet' = wallet /\ status' = status /\ now' = now
        /\ held' = held /\ taken' = taken
        /\ Accrue
    BY DEF AccrueManagementFee, issuer_vars
  <1>2. /\ AccruedSupply \in 0..U64_MAX /\ AccruedSupply >= supply
        /\ supply = 0 => AccruedSupply = 0
        /\ AccruedShares \in [Holders -> Nat]
    BY <1>1, AccrualSettles, TypesOfParts DEF Accrue, MayAccrue
  <1>3. /\ last_fee_accrual_ts' \in 0..now'
        /\ remainder' \in 0..(MANAGEMENT_FEE_DENOMINATOR - 1)
        /\ owed' \in Nat /\ FeeStreamExact' /\ NoFeeNoRemainder'
    BY <1>1, <1>2, AccrueCheckpoints
  <1>4. BackedShares'
    BY <1>1, <1>2, TypesOfParts DEF BasketInv, BackedShares
  <1>5. BasketInv'
    BY <1>1, <1>2, <1>3, <1>4 DEF BasketInv, TypeOK
  <1>6. BackingPerShareKept
    BY <1>1, <1>2 DEF BackingPerShareKept, BasketInv, TypeOK
  <1>7. LastShareTakesAll
    BY <1>1, <1>2, TypesOfParts DEF LastShareTakesAll
  <1>8. QED
    BY <1>5, <1>6, <1>7 DEF StepOK

(***************************************************************************)
(* Steps around the program                                                *)
(***************************************************************************)
\* With no more shares and no lower vaults than before, no share loses backing.
LEMMA NothingTaken ==
    ASSUME BasketInv, supply' \in Nat, supply' <= supply, taken' = taken,
           vault' \in [Mints -> Nat], \A m \in Mints : vault'[m] >= vault[m]
    PROVE  /\ BackingPerShareKept /\ BackedShares'
           /\ supply' = supply => LastShareTakesAll
  <1>1. AccruedSupply \in Nat /\ AccruedSupply >= supply /\ supply \in Nat
    BY AccrualSettles, TypesOfParts
  <1>2. ASSUME NEW m \in Mints
        PROVE  vault'[m] * AccruedSupply >= vault[m] * supply'
    <2>1. vault[m] \in Nat /\ vault'[m] \in Nat /\ vault'[m] >= vault[m]
      BY DEF BasketInv, TypeOK
    <2>2. vault'[m] * AccruedSupply >= vault[m] * AccruedSupply
      BY <1>1, <2>1
    <2>3. vault[m] * AccruedSupply >= vault[m] * supply'
      <3>1. supply' \in Nat /\ supply' <= AccruedSupply
        BY <1>1
      <3>2. QED
        BY <1>1, <2>1, <3>1
    <2>4. /\ vault'[m] * AccruedSupply \in Nat /\ vault[m] * AccruedSupply \in Nat
          /\ vault[m] * supply' \in Nat
      BY <1>1, <2>1
    <2>5. QED
      BY <2>2, <2>3, <2>4
  <1>3. ASSUME supply' > 0, NEW m \in Mints PROVE vault'[m] > 0 \/ taken'[m] > 0
    <2>1. supply > 0
      BY <1>1, <1>3
    <2>2. vault[m] > 0 \/ taken[m] > 0
      BY <2>1 DEF BasketInv, BackedShares
    <2>3. QED
      BY <2>2 DEF BasketInv, TypeOK
  <1>4. QED
    BY <1>1, <1>2, <1>3 DEF BackingPerShareKept, LastShareTakesAll, BackedShares

LEMMA PauseStep ==
    ASSUME BasketInv, NEW m \in Mints, PauseMint(m) \/ UnpauseMint(m)
    PROVE  StepOK
  <1>1. /\ UNCHANGED <<supply, shares, vault, wallet, held, taken, now,
                       last_fee_accrual_ts, remainder, owed>>
        /\ status' \in [Mints -> Status]
    BY DEF PauseMint, UnpauseMint, fee_vars, issuer_vars, BasketInv, TypeOK, Status
  <1>2. BackingPerShareKept /\ LastShareTakesAll /\ BackedShares'
    <2>1. \A k \in Mints : vault[k] >= vault[k]
      BY DEF BasketInv, TypeOK
    <2>2. supply' \in Nat /\ supply' = supply /\ supply' <= supply
      BY <1>1 DEF BasketInv, TypeOK
    <2>3. QED
      BY <1>1, <2>1, <2>2, NothingTaken DEF BasketInv, TypeOK
  <1>3. FeeStreamExact' /\ NoFeeNoRemainder'
    BY <1>1 DEF BasketInv, FeeStreamExact, NoFeeNoRemainder, Elapsed
  <1>4. QED
    BY <1>1, <1>2, <1>3 DEF StepOK, BasketInv, TypeOK

LEMMA DonateStep ==
    ASSUME BasketInv, NEW h \in Holders, NEW m \in Mints, NEW amount \in DepositSizes,
           Donate(h, m, amount)
    PROVE  StepOK
  <1>1. /\ UNCHANGED <<supply, shares, status, held, taken, now,
                       last_fee_accrual_ts, remainder, owed>>
        /\ wallet' = [wallet EXCEPT ![h][m] = @ - amount]
        /\ vault' = [vault EXCEPT ![m] = @ + amount]
        /\ amount \in Nat /\ amount <= wallet[h][m]
    BY SeedAssumption DEF Donate, fee_vars, issuer_vars
  <1>2. /\ wallet' \in [Holders -> [Mints -> Nat]] /\ vault' \in [Mints -> Nat]
        /\ \A k \in Mints : vault'[k] >= vault[k]
    BY <1>1 DEF BasketInv, TypeOK
  <1>3. BackingPerShareKept /\ LastShareTakesAll /\ BackedShares'
    <2>1. supply' \in Nat /\ supply' = supply /\ supply' <= supply
      BY <1>1 DEF BasketInv, TypeOK
    <2>2. QED
      BY <1>1, <1>2, <2>1, NothingTaken
  <1>4. FeeStreamExact' /\ NoFeeNoRemainder'
    BY <1>1 DEF BasketInv, FeeStreamExact, NoFeeNoRemainder, Elapsed
  <1>5. QED
    BY <1>1, <1>2, <1>3, <1>4 DEF StepOK, BasketInv, TypeOK

LEMMA TransferStep ==
    ASSUME BasketInv, NEW from \in Holders, NEW to \in Holders, NEW n \in TransferSizes,
           TransferShares(from, to, n)
    PROVE  StepOK
  <1>1. /\ UNCHANGED <<supply, vault, wallet, status, held, taken, now,
                       last_fee_accrual_ts, remainder, owed>>
        /\ shares' = Credit(Debit(shares, from, n), to, n)
        /\ n \in Nat /\ n <= shares[from]
    BY SeedAssumption DEF TransferShares, fee_vars, issuer_vars
  <1>2. shares' \in [Holders -> Nat]
    <2>1. Debit(shares, from, n) \in [Holders -> Nat]
      BY <1>1 DEF Debit, BasketInv, TypeOK
    <2>2. QED
      BY <1>1, <2>1 DEF Credit
  <1>3. BackingPerShareKept /\ LastShareTakesAll /\ BackedShares'
    <2>1. \A k \in Mints : vault[k] >= vault[k]
      BY DEF BasketInv, TypeOK
    <2>2. supply' \in Nat /\ supply' = supply /\ supply' <= supply
      BY <1>1 DEF BasketInv, TypeOK
    <2>3. QED
      BY <1>1, <2>1, <2>2, NothingTaken DEF BasketInv, TypeOK
  <1>4. FeeStreamExact' /\ NoFeeNoRemainder'
    BY <1>1 DEF BasketInv, FeeStreamExact, NoFeeNoRemainder, Elapsed
  <1>5. QED
    BY <1>1, <1>2, <1>3, <1>4 DEF StepOK, BasketInv, TypeOK

\* Burned shares leave the fee stream together with what they owed it, and
\* leave their backing to the others.
LEMMA BurnStep ==
    ASSUME BasketInv, NEW h \in Holders, NEW n \in TransferSizes, BurnShares(h, n)
    PROVE  StepOK
  <1>1. /\ UNCHANGED <<vault, wallet, status, held, taken, now, last_fee_accrual_ts, remainder>>
        /\ shares' = Debit(shares, h, n) /\ supply' = supply - n
        /\ owed' = owed - n * MANAGEMENT_FEE_BPS * Elapsed
        /\ n \in Nat /\ n <= shares[h] /\ n <= supply
    BY SeedAssumption DEF BurnShares, issuer_vars
  <1>2. shares' \in [Holders -> Nat]
    BY <1>1 DEF Debit, BasketInv, TypeOK
  <1>3. supply' \in 0..U64_MAX /\ supply' \in Nat /\ supply' <= supply
    BY <1>1, TypesOfParts DEF BasketInv, TypeOK
  <1>4. BackingPerShareKept /\ BackedShares'
    <2>1. \A k \in Mints : vault[k] >= vault[k]
      BY DEF BasketInv, TypeOK
    <2>2. QED
      BY <1>1, <1>3, <2>1, NothingTaken DEF BasketInv, TypeOK
  <1>5. LastShareTakesAll
    <2>1. supply' = 0 => n = supply
      BY <1>1, TypesOfParts
    <2>2. supply' = 0 => BurnShares(h, supply)
      BY <2>1
    <2>3. QED
      BY <2>2 DEF LastShareTakesAll
  <1>6. FeeStreamExact' /\ owed' \in Nat
    <2> DEFINE rate == MANAGEMENT_FEE_BPS
               dt == Elapsed
    <2>1. /\ rate \in Nat /\ dt \in Nat /\ remainder \in Nat /\ supply \in Nat
          /\ owed = supply * rate * dt + remainder
      BY TypesOfParts, DenominatorPositive DEF BasketInv, TypeOK, FeeStreamExact, Elapsed
    <2>2. owed' = owed - n * rate * dt /\ supply' = supply - n /\ supply' \in Nat
      BY <1>1, <1>3
    <2>3. Elapsed' = dt /\ remainder' = remainder
      BY <1>1 DEF Elapsed
    <2> HIDE DEF rate, dt
    <2>4. (supply - n) * rate * dt = supply * rate * dt - n * rate * dt
      <3>1. (supply - n) * rate = supply * rate - n * rate
        BY <1>1, <2>1
      <3>2. supply * rate \in Int /\ n * rate \in Int
        BY <1>1, <2>1
      <3>3. QED
        BY <2>1, <3>1, <3>2
    <2>5. supply * rate * dt \in Int /\ n * rate * dt \in Int
      BY <1>1, <2>1
    <2>6. owed' = supply' * rate * dt + remainder
      BY <2>1, <2>2, <2>4, <2>5
    <2>7. supply' * rate * dt \in Nat
      BY <2>1, <2>2
    <2>8. QED
      BY <2>1, <2>3, <2>6, <2>7 DEF FeeStreamExact, rate
  <1>7. NoFeeNoRemainder'
    BY <1>1 DEF BasketInv, NoFeeNoRemainder
  <1>8. QED
    BY <1>1, <1>2, <1>3, <1>4, <1>5, <1>6, <1>7 DEF StepOK, BasketInv, TypeOK

LEMMA HoldStep ==
    ASSUME BasketInv, NEW m \in Freezable, Hold(m) \/ Release(m)
    PROVE  StepOK
  <1>1. /\ UNCHANGED <<supply, shares, vault, wallet, status, taken, now,
                       last_fee_accrual_ts, remainder, owed>>
        /\ held' \subseteq Freezable
    BY DEF Hold, Release, fee_vars, BasketInv, TypeOK
  <1>2. BackingPerShareKept /\ LastShareTakesAll /\ BackedShares'
    <2>1. \A k \in Mints : vault[k] >= vault[k]
      BY DEF BasketInv, TypeOK
    <2>2. supply' \in Nat /\ supply' = supply /\ supply' <= supply
      BY <1>1 DEF BasketInv, TypeOK
    <2>3. QED
      BY <1>1, <2>1, <2>2, NothingTaken DEF BasketInv, TypeOK
  <1>3. FeeStreamExact' /\ NoFeeNoRemainder'
    BY <1>1 DEF BasketInv, FeeStreamExact, NoFeeNoRemainder, Elapsed
  <1>4. QED
    BY <1>1, <1>2, <1>3 DEF StepOK, BasketInv, TypeOK

\* A seizure shows in taken, and spares the other constituents.
LEMMA SeizeStep ==
    ASSUME BasketInv, NEW m \in Delegated, NEW amount \in DepositSizes, Seize(m, amount)
    PROVE  StepOK
  <1>1. /\ UNCHANGED <<supply, shares, wallet, status, held, now,
                       last_fee_accrual_ts, remainder, owed>>
        /\ vault' = [vault EXCEPT ![m] = @ - amount]
        /\ taken' = [taken EXCEPT ![m] = @ + amount]
        /\ amount \in Nat /\ amount > 0 /\ amount <= vault[m] /\ m \in Mints
        /\ vault \in [Mints -> Nat] /\ taken \in [Mints -> Nat]
    BY SeedAssumption, IssuersAssumption DEF Seize, fee_vars, BasketInv, TypeOK
  <1>2. vault' \in [Mints -> Nat] /\ taken' \in [Mints -> Nat] /\ taken'[m] > taken[m]
    BY <1>1
  <1>3. \A k \in Mints : k # m => vault'[k] = vault[k] /\ taken'[k] = taken[k]
    BY <1>1
  <1>4. BackingPerShareKept
    <2>1. AccruedSupply \in Nat /\ AccruedSupply >= supply /\ supply \in Nat
      BY AccrualSettles, TypesOfParts
    <2>2. ASSUME NEW k \in Mints, k # m
          PROVE  vault'[k] * AccruedSupply >= vault[k] * supply'
      BY <1>1, <1>3, <2>1, <2>2
    <2>3. taken'[m] # taken[m]
      BY <1>1, <1>2
    <2>4. QED
      BY <2>2, <2>3 DEF BackingPerShareKept
  <1>5. LastShareTakesAll
    BY <1>1, TypesOfParts DEF LastShareTakesAll
  <1>6. BackedShares'
    <2>1. ASSUME supply > 0, NEW k \in Mints PROVE vault'[k] > 0 \/ taken'[k] > 0
      <3>1. CASE k = m
        BY <1>1, <1>2, <3>1
      <3>2. CASE k # m
        BY <1>3, <2>1, <3>2 DEF BasketInv, BackedShares
      <3>3. QED
        BY <3>1, <3>2
    <2>2. QED
      BY <1>1, <2>1 DEF BackedShares
  <1>7. FeeStreamExact' /\ NoFeeNoRemainder'
    BY <1>1 DEF BasketInv, FeeStreamExact, NoFeeNoRemainder, Elapsed
  <1>8. QED
    BY <1>1, <1>2, <1>4, <1>5, <1>6, <1>7 DEF StepOK, BasketInv, TypeOK

\* A second adds supply * rate to both sides of the fee stream.
LEMMA TickStep ==
    ASSUME BasketInv, Tick
    PROVE  StepOK
  <1>1. /\ UNCHANGED <<supply, shares, vault, wallet, status, held, taken,
                       last_fee_accrual_ts, remainder>>
        /\ now < MaxTime /\ now' = now + 1
        /\ owed' = owed + supply * MANAGEMENT_FEE_BPS
    BY DEF Tick, issuer_vars
  <1>2. BackingPerShareKept /\ LastShareTakesAll /\ BackedShares'
    <2>1. \A k \in Mints : vault[k] >= vault[k]
      BY DEF BasketInv, TypeOK
    <2>2. supply' \in Nat /\ supply' = supply /\ supply' <= supply
      BY <1>1 DEF BasketInv, TypeOK
    <2>3. QED
      BY <1>1, <2>1, <2>2, NothingTaken DEF BasketInv, TypeOK
  <1>3. /\ supply \in Nat /\ MANAGEMENT_FEE_BPS \in Nat /\ now \in Nat /\ MaxTime \in Nat
        /\ last_fee_accrual_ts \in 0..now /\ owed \in Nat
        /\ remainder \in 0..(MANAGEMENT_FEE_DENOMINATOR - 1)
        /\ owed = supply * MANAGEMENT_FEE_BPS * (now - last_fee_accrual_ts) + remainder
    BY TypesOfParts DEF BasketInv, TypeOK, FeeStreamExact, Elapsed
  <1>4. FeeStreamExact'
    <2> DEFINE rate == supply * MANAGEMENT_FEE_BPS
               dt == now - last_fee_accrual_ts
    <2>1. rate \in Nat /\ dt \in Nat /\ remainder \in Int
      BY <1>3, DenominatorPositive
    <2>2. rate * (dt + 1) = rate * dt + rate
      BY <2>1
    <2>3. owed' = rate * dt + rate + remainder
      <3>1. rate * dt \in Nat
        BY <2>1
      <3>2. owed = rate * dt + remainder /\ owed' = owed + rate
        BY <1>1, <1>3
      <3> HIDE DEF rate, dt
      <3>3. QED
        BY <2>1, <3>1, <3>2
    <2>4. now' - last_fee_accrual_ts' = dt + 1
      BY <1>1, <1>3
    <2>5. QED
      BY <1>1, <2>2, <2>3, <2>4 DEF FeeStreamExact, Elapsed
  <1>5. /\ now' \in 0..MaxTime /\ last_fee_accrual_ts' \in 0..now'
        /\ owed' \in Nat /\ NoFeeNoRemainder'
    BY <1>1, <1>3 DEF BasketInv, NoFeeNoRemainder
  <1>6. QED
    BY <1>1, <1>2, <1>4, <1>5 DEF StepOK, BasketInv, TypeOK

LEMMA StutterStep ==
    ASSUME BasketInv, UNCHANGED vars
    PROVE  BasketInv'
  BY DEF vars, fee_vars, issuer_vars, BasketInv, TypeOK, FeeStreamExact, BackedShares, NoFeeNoRemainder, Elapsed

(***************************************************************************)
(* Theorems                                                                *)
(***************************************************************************)
LEMMA InitInv == Init => BasketInv
  <1> SUFFICES ASSUME Init PROVE BasketInv
    OBVIOUS
  <1>1. /\ supply \in 0..U64_MAX /\ supply \in Nat
        /\ shares \in [Holders -> Nat]
    BY GenesisAssumption DEF Init
  <1>2. /\ vault \in [Mints -> Nat] /\ \A m \in Mints : vault[m] > 0
        /\ wallet \in [Holders -> [Mints -> Nat]]
    BY SeedAssumption DEF Init
  <1>3. /\ status \in [Mints -> Status]
        /\ now \in 0..MaxTime /\ last_fee_accrual_ts \in 0..now
        /\ remainder \in 0..(MANAGEMENT_FEE_DENOMINATOR - 1) /\ owed \in Nat
        /\ held \subseteq Freezable /\ taken \in [Mints -> Nat]
    BY SeedAssumption, DenominatorPositive DEF Init, Status
  <1>4. FeeStreamExact
    BY <1>1, FeesAssumption, BpsAssumption DEF Init, FeeStreamExact, Elapsed
  <1>5. QED
    BY <1>1, <1>2, <1>3, <1>4 DEF Init, BasketInv, TypeOK, BackedShares, NoFeeNoRemainder

\* Every step of the basket and of its surroundings.
LEMMA EveryStep ==
    ASSUME BasketInv, Next
    PROVE  StepOK
  <1>1. ASSUME NEW user \in Holders, NEW amounts \in Deposits,
               MintInKind(user, amounts, vault)
        PROVE  StepOK
    BY <1>1, MintStep
  <1>2. ASSUME NEW user \in Holders, NEW n \in 1..U64_MAX, RedeemInKind(user, n, vault)
        PROVE  StepOK
    <2>1. n \in Nat
      BY GenesisAssumption
    <2>2. QED
      BY <1>2, <2>1, RedeemStep
  <1>3. CASE AccrueManagementFee
    BY <1>3, CrankStep
  <1>4. ASSUME NEW m \in Mints, PauseMint(m) \/ UnpauseMint(m)
        PROVE  StepOK
    BY <1>4, PauseStep
  <1>5. ASSUME NEW h \in Holders, NEW m \in Mints, NEW amount \in DepositSizes,
               Donate(h, m, amount)
        PROVE  StepOK
    BY <1>5, DonateStep
  <1>6. ASSUME NEW from \in Holders, NEW to \in Holders, NEW n \in TransferSizes,
               TransferShares(from, to, n)
        PROVE  StepOK
    BY <1>6, TransferStep
  <1>7. ASSUME NEW h \in Holders, NEW n \in TransferSizes, BurnShares(h, n)
        PROVE  StepOK
    BY <1>7, BurnStep
  <1>8. ASSUME NEW m \in Freezable, Hold(m) \/ Release(m)
        PROVE  StepOK
    BY <1>8, HoldStep
  <1>9. ASSUME NEW m \in Delegated, NEW amount \in DepositSizes, Seize(m, amount)
        PROVE  StepOK
    BY <1>9, SeizeStep
  <1>10. CASE Tick
    BY <1>10, TickStep
  <1>11. QED
    BY <1>1, <1>2, <1>3, <1>4, <1>5, <1>6, <1>7, <1>8, <1>9, <1>10 DEF Next

\* The invariant holds in every reachable state of every basket.
THEOREM Invariance == Spec => []BasketInv
  <1>1. Init => BasketInv
    BY InitInv
  <1>2. BasketInv /\ [Next]_vars => BasketInv'
    BY EveryStep, StutterStep DEF StepOK
  <1>3. QED
    BY <1>1, <1>2, PTL DEF Spec

\* Amounts are never negative, the share supply always fits a u64, and the
\* remainder always fits the bytes it is stored in.
THEOREM TypeCorrect == Spec => []TypeOK
  <1>1. BasketInv => TypeOK
    BY DEF BasketInv
  <1>2. QED
    BY <1>1, Invariance, PTL

\* However often and by whomever the fee is accrued, what has been charged is
\* the exact stream less the carried remainder (management_fee_with_remainder)
\* and less what directly burned shares streamed since their last checkpoint.
THEOREM ExactFees == Spec => []FeeStreamExact
  <1>1. BasketInv => FeeStreamExact
    BY DEF BasketInv
  <1>2. QED
    BY <1>1, Invariance, PTL

\* While shares are outstanding, no vault is empty unless its issuer has taken
\* from it (no ZeroVault dead end that the basket makes itself).
THEOREM AlwaysBacked == Spec => []BackedShares
  <1>1. BasketInv => BackedShares
    BY DEF BasketInv
  <1>2. QED
    BY <1>1, Invariance, PTL

\* Apart from the accrued fee and an issuer's seizure no step lowers what a share
\* represents.
THEOREM NeverDiluted == Spec => NoDilution
  <1>1. BasketInv /\ [Next]_vars => [BackingPerShareKept]_vars
    BY EveryStep DEF StepOK
  <1>2. QED
    BY <1>1, Invariance, PTL DEF Spec, NoDilution

\* The redemption of the last share empties every vault; only its direct burn
\* does not.
THEOREM NeverStranded == Spec => NothingStranded
  <1>1. BasketInv /\ [Next]_vars => [LastShareTakesAll]_vars
    BY EveryStep DEF StepOK
  <1>2. QED
    BY <1>1, Invariance, PTL DEF Spec, NothingStranded

\* Whatever the roundings, a mint redeemed at once returns no more than the
\* deposit: with gross * V <= D * S, the redeemed part of V + D is at most
\* (V + D) * gross / (S + gross) <= D.
LEMMA RoundTripBound ==
    ASSUME BasketInv, supply > 0, NEW amounts \in Deposits,
           NEW gross \in MintGross(amounts, vault, AccruedSupply), NEW m \in Mints
    PROVE  RoundTripOut(m, amounts[m], gross) <= amounts[m]
  <1> DEFINE V == vault[m]
             D == amounts[m]
             S == AccruedSupply
             net == gross - BpsFee(gross, ENTRY_FEE_BPS)
             burn == BurnAmount(net)
  <1>1. /\ amounts \in [Mints -> Nat] /\ vault \in [Mints -> Nat]
        /\ S \in Nat /\ S > 0
    <2>1. amounts \in [Mints -> Nat]
      BY SeedAssumption DEF Deposits
    <2>2. AccruedSupply \in Nat /\ AccruedSupply = supply + AccruedFee /\ AccruedFee \in Nat
      BY AccrualSettles
    <2>3. AccruedSupply > 0
      BY <2>2, TypesOfParts
    <2>4. QED
      BY <2>1, <2>2, <2>3 DEF BasketInv, TypeOK
  <1>2. gross \in Nat \ {0} /\ gross * V <= D * S
    BY <1>1, GrossSharesPriced
  <1>3. net \in 0..gross
    BY <1>2, BpsFeeBound, TypesOfParts
  <1>4. burn \in 0..gross
    <2>1. net \in Nat
      BY <1>2, <1>3
    <2>2. ExitFee(net) \in 0..net
      BY <2>1, BpsFeeBound, TypesOfParts DEF ExitFee
    <2> HIDE DEF net
    <2>3. QED
      BY <1>2, <1>3, <2>1, <2>2 DEF BurnAmount
  <1> HIDE DEF net, burn
  <1>5. V \in Nat /\ D \in Nat /\ gross \in Nat /\ burn \in Nat /\ burn <= gross
    BY <1>1, <1>2, <1>4
  <1> HIDE DEF V, D, S
  <1>6. (V + D) * burn <= D * (S + gross)
    <2>1. (V + D) * burn <= (V + D) * gross
      BY <1>5
    <2>2. (V + D) * gross = gross * V + D * gross /\ D * (S + gross) = D * S + D * gross
      BY <1>1, <1>5
    <2>3. /\ (V + D) * burn \in Nat /\ gross * V \in Nat
          /\ D * gross \in Nat /\ D * S \in Nat
      BY <1>1, <1>5
    <2>4. QED
      BY <1>2, <2>1, <2>2, <2>3
  <1>7. ((V + D) * burn) \div (S + gross) <= D
    <2>1. (V + D) * burn \in Nat /\ S + gross \in Nat /\ S + gross > 0
      BY <1>1, <1>5
    <2> DEFINE x == (V + D) * burn
               y == S + gross
               q == x \div y
    <2>2. q \in Nat /\ q * y <= x
      BY <2>1, DivFloor
    <2>3. x <= D * y /\ x \in Nat /\ y \in Nat /\ y > 0 /\ D \in Nat
      BY <1>5, <1>6, <2>1
    <2> HIDE DEF x, y, q
    <2>4. q * y <= D * y
      BY <2>2, <2>3
    <2>5. q <= D
      BY <2>2, <2>3, <2>4
    <2>6. QED
      BY <2>5 DEF q, x, y
  <1>8. RoundTripOut(m, amounts[m], gross) = ((V + D) * burn) \div (S + gross)
    BY DEF RoundTripOut, RedeemAmount, V, D, S, net, burn
  <1>9. QED
    BY <1>7, <1>8 DEF D

\* No reachable basket lets a wallet profit from a mint and its redemption.
THEOREM NoFreeRoundTrip == Spec => []NoRoundTripProfit
  <1>1. BasketInv => NoRoundTripProfit
    BY RoundTripBound DEF NoRoundTripProfit
  <1>2. QED
    BY <1>1, Invariance, PTL

(***************************************************************************)
(* Conservation.  What each instruction does to the sum of the share       *)
(* balances and to the sum of the holdings of one constituent.             *)
(***************************************************************************)
\* A fee of n shares adds n to the balances, however it is split.
LEMMA PayFeeTotal ==
    ASSUME NEW balances \in [Holders -> Nat], NEW fee \in Nat
    PROVE  Total(PayFee(balances, fee)) = Total(balances) + fee
  <1> DEFINE paid == [h \in Holders |->
                        IF h = Creator THEN balances[h] + CreatorFee(fee) ELSE balances[h]]
             both == PayFee(balances, fee)
  <1>1. /\ CreatorFee(fee) \in Nat /\ TreasuryFee(fee) \in Nat
        /\ CreatorFee(fee) + TreasuryFee(fee) = fee
    BY SplitFee
  <1>2. IsFiniteSet(Holders) /\ Creator \in Holders /\ Treasury \in Holders
    BY PartiesAssumption
  <1>3. paid \in [Holders -> Nat] /\ both \in [Holders -> Nat]
    BY <1>1, PayFeeMonotone
  <1>4. Total(paid) = Total(balances) + CreatorFee(fee)
    <2>1. \A h \in Holders : h # Creator => paid[h] = balances[h]
      OBVIOUS
    <2>2. balances[Creator] \in Nat /\ paid[Creator] = balances[Creator] + CreatorFee(fee)
      BY <1>2
    <2> HIDE DEF paid
    <2>3. Total(paid) = Total(balances) - balances[Creator] + paid[Creator]
      BY <1>2, <1>3, <2>1, TotalMoves
    <2>4. Total(balances) \in Nat
      BY <1>2, TotalType
    <2>5. QED
      BY <1>1, <2>2, <2>3, <2>4
  <1>5. Total(both) = Total(paid) + TreasuryFee(fee)
    <2>1. \A h \in Holders : both[h] =
            IF h = Treasury THEN paid[h] + TreasuryFee(fee) ELSE paid[h]
      BY <1>1 DEF PayFee
    <2> HIDE DEF paid, both
    <2>2. QED
      BY <1>1, <1>2, <1>3, <2>1, TotalCredit
  <1>6. Total(balances) \in Nat
    BY <1>2, TotalType
  <1>7. QED
    BY <1>1, <1>4, <1>5, <1>6

\* mint_to and the receiving end of a share transfer
LEMMA CreditTotal ==
    ASSUME NEW balances \in [Holders -> Nat], NEW h \in Holders, NEW n \in Nat
    PROVE  /\ Credit(balances, h, n) \in [Holders -> Nat]
           /\ Total(Credit(balances, h, n)) = Total(balances) + n
  <1>1. /\ Credit(balances, h, n) \in [Holders -> Nat]
        /\ \A x \in Holders : Credit(balances, h, n)[x] =
             IF x = h THEN balances[x] + n ELSE balances[x]
    BY DEF Credit
  <1>2. IsFiniteSet(Holders)
    BY PartiesAssumption
  <1>3. Total(Credit(balances, h, n)) = Total(balances) + n
    BY <1>1, <1>2, TotalCredit
  <1>4. QED
    BY <1>1, <1>3

\* burn and the paying end of a share transfer
LEMMA DebitTotal ==
    ASSUME NEW balances \in [Holders -> Nat], NEW h \in Holders, NEW n \in Nat,
           n <= balances[h]
    PROVE  /\ Debit(balances, h, n) \in [Holders -> Nat]
           /\ Total(Debit(balances, h, n)) = Total(balances) - n
  <1>1. /\ Debit(balances, h, n) \in [Holders -> Nat]
        /\ \A x \in Holders : Debit(balances, h, n)[x] =
             IF x = h THEN balances[x] - n ELSE balances[x]
    BY DEF Debit
  <1>2. IsFiniteSet(Holders)
    BY PartiesAssumption
  <1>3. Total(Debit(balances, h, n)) = Total(balances) - n
    BY <1>1, <1>2, TotalDebit
  <1>4. QED
    BY <1>1, <1>3

\* The accrual keeps the supply and the balances in step.
LEMMA AccruedTotal ==
    ASSUME BasketInv, SharesConserved
    PROVE  Total(AccruedShares) = AccruedSupply
  <1>1. shares \in [Holders -> Nat] /\ AccruedFee \in Nat /\ AccruedSupply = supply + AccruedFee
    BY AccrualSettles DEF BasketInv, TypeOK
  <1>2. QED
    BY <1>1, PayFeeTotal DEF AccruedShares, SharesConserved

\* Constituents that a wallet pays to the vault, or the vault to a wallet, stay
\* in the sum.
LEMMA PaidIn ==
    ASSUME BasketInv, BasketInv', NEW m \in Mints, NEW user \in Holders, NEW d \in Nat,
           d <= wallet[user][m], vault'[m] = vault[m] + d,
           \A h \in Holders : wallet'[h][m] =
             IF h = user THEN wallet[h][m] - d ELSE wallet[h][m],
           taken'[m] = taken[m], MintConserved(m)
    PROVE  MintConserved(m)'
  <1> DEFINE column == [h \in Holders |-> wallet[h][m]]
             next == [h \in Holders |-> wallet'[h][m]]
  <1>1. column \in [Holders -> Nat] /\ next \in [Holders -> Nat]
        /\ vault[m] \in Nat /\ taken[m] \in Nat
    BY DEF BasketInv, TypeOK
  <1>2. d <= column[user] /\ \A h \in Holders : next[h] =
          IF h = user THEN column[h] - d ELSE column[h]
    OBVIOUS
  <1> HIDE DEF column, next
  <1>3. Total(next) = Total(column) - d
    <2>1. \A h \in Holders : h # user => next[h] = column[h]
      BY <1>2
    <2>2. column[user] \in Nat /\ next[user] = column[user] - d
      BY <1>1, <1>2
    <2>3. Total(next) = Total(column) - column[user] + next[user]
      BY <1>1, <2>1, TotalMoves, PartiesAssumption
    <2>4. Total(column) \in Nat
      BY <1>1, TotalType, PartiesAssumption
    <2>5. QED
      BY <2>2, <2>3, <2>4
  <1>4. Total(column) \in Nat
    BY <1>1, TotalType, PartiesAssumption
  <1>5. vault'[m] + taken'[m] + Total(next) = vault[m] + taken[m] + Total(column)
    BY <1>1, <1>3, <1>4
  <1>6. QED
    BY <1>5 DEF MintConserved, column, next

LEMMA PaidOut ==
    ASSUME BasketInv, BasketInv', NEW m \in Mints, NEW user \in Holders, NEW d \in Nat,
           vault'[m] = vault[m] - d,
           \A h \in Holders : wallet'[h][m] =
             IF h = user THEN wallet[h][m] + d ELSE wallet[h][m],
           taken'[m] = taken[m], MintConserved(m)
    PROVE  MintConserved(m)'
  <1> DEFINE column == [h \in Holders |-> wallet[h][m]]
             next == [h \in Holders |-> wallet'[h][m]]
  <1>1. column \in [Holders -> Nat] /\ next \in [Holders -> Nat]
        /\ vault[m] \in Nat /\ taken[m] \in Nat
    BY DEF BasketInv, TypeOK
  <1>2. \A h \in Holders : next[h] = IF h = user THEN column[h] + d ELSE column[h]
    OBVIOUS
  <1> HIDE DEF column, next
  <1>3. Total(next) = Total(column) + d
    <2>1. IsFiniteSet(Holders)
      BY PartiesAssumption
    <2>2. QED
      BY <1>1, <1>2, <2>1, TotalCredit
  <1>4. Total(column) \in Nat
    BY <1>1, TotalType, PartiesAssumption
  <1>5. vault'[m] + taken'[m] + Total(next) = vault[m] + taken[m] + Total(column)
    BY <1>1, <1>3, <1>4
  <1>6. QED
    BY <1>5 DEF MintConserved, column, next

LEMMA MintConserves ==
    ASSUME BasketInv, BasketInv', Conserved, NEW user \in Holders, NEW amounts \in Deposits,
           MintInKind(user, amounts, vault)
    PROVE  Conserved'
  <1>1. /\ amounts \in [Mints -> Nat]
        /\ \A m \in Mints : amounts[m] <= wallet[user][m]
        /\ vault' = [m \in Mints |-> vault[m] + amounts[m]]
        /\ wallet' = [wallet EXCEPT ![user] = [m \in Mints |-> @[m] - amounts[m]]]
        /\ wallet \in [Holders -> [Mints -> Nat]] /\ vault \in [Mints -> Nat]
        /\ taken' = taken
    BY SeedAssumption DEF Deposits, MintInKind, issuer_vars, BasketInv, TypeOK
  <1>2. PICK gross \in MintGross(amounts, vault, AccruedSupply) :
          /\ supply' = AccruedSupply + gross
          /\ shares' = PayFee(Credit(AccruedShares, user, gross - BpsFee(gross, ENTRY_FEE_BPS)),
                              BpsFee(gross, ENTRY_FEE_BPS))
    BY DEF MintInKind
  <1>3. AccruedSupply \in Nat /\ AccruedShares \in [Holders -> Nat]
    BY AccrualSettles
  <1>4. gross \in Nat /\ BpsFee(gross, ENTRY_FEE_BPS) \in 0..gross
    <2>1. gross \in Nat
      BY <1>1, <1>3, GrossSharesPriced
    <2>2. QED
      BY <2>1, BpsFeeBound, TypesOfParts
  <1>5. SharesConserved'
    <2> DEFINE fee == BpsFee(gross, ENTRY_FEE_BPS)
               credited == Credit(AccruedShares, user, gross - fee)
    <2>1. fee \in Nat /\ gross - fee \in Nat
      BY <1>4
    <2>2. /\ credited \in [Holders -> Nat]
          /\ Total(credited) = Total(AccruedShares) + (gross - fee)
      BY <1>3, <2>1, CreditTotal
    <2>3. shares' = PayFee(credited, fee)
      BY <1>2
    <2> HIDE DEF fee, credited
    <2>4. Total(shares') = Total(credited) + fee
      BY <2>1, <2>2, <2>3, PayFeeTotal
    <2>5. Total(AccruedShares) = AccruedSupply
      BY AccruedTotal DEF Conserved
    <2>6. QED
      BY <1>2, <1>3, <1>4, <2>1, <2>2, <2>4, <2>5 DEF SharesConserved
  <1>6. ASSUME NEW m \in Mints PROVE MintConserved(m)'
    <2>1. /\ amounts[m] \in Nat /\ amounts[m] <= wallet[user][m]
          /\ vault'[m] = vault[m] + amounts[m]
      BY <1>1
    <2>2. \A h \in Holders : wallet'[h][m] =
            IF h = user THEN wallet[h][m] - amounts[m] ELSE wallet[h][m]
      BY <1>1
    <2>3. QED
      BY <1>1, <2>1, <2>2, PaidIn DEF Conserved
  <1>7. QED
    BY <1>5, <1>6 DEF Conserved

LEMMA RedeemConserves ==
    ASSUME BasketInv, BasketInv', Conserved, NEW user \in Holders, NEW n \in Nat,
           RedeemInKind(user, n, vault)
    PROVE  Conserved'
  <1> DEFINE out == AmountsOut(vault, n)
             fee == ExitFee(n)
             left == Debit(AccruedShares, user, n)
  <1>1. /\ wallet \in [Holders -> [Mints -> Nat]] /\ vault \in [Mints -> Nat]
        /\ shares \in [Holders -> Nat]
        /\ vault' = [m \in Mints |-> vault[m] - out[m]]
        /\ wallet' = [wallet EXCEPT ![user] = [m \in Mints |-> @[m] + out[m]]]
        /\ supply' = AccruedSupply - BurnAmount(n)
        /\ shares' = PayFee(left, fee)
        /\ n <= shares[user]
        /\ AccruedSupply > 0 /\ BurnAmount(n) <= AccruedSupply
        /\ taken' = taken
    BY DEF RedeemInKind, issuer_vars, MayRedeem, ShareBalanceSnapshot, BasketInv, TypeOK
  <1>2. /\ AccruedSupply \in Nat /\ AccruedShares \in [Holders -> Nat]
        /\ AccruedShares[user] >= shares[user]
    BY AccrualSettles
  <1>3. fee \in 0..n
    BY BpsFeeBound, TypesOfParts DEF ExitFee
  <1>4. BurnAmount(n) = n - fee
    BY DEF BurnAmount
  <1> HIDE DEF fee
  <1>5. SharesConserved'
    <2>1. n <= AccruedShares[user]
      <3>1. shares[user] \in Nat /\ AccruedShares[user] \in Nat
        BY <1>1, <1>2
      <3>2. QED
        BY <1>1, <1>2, <3>1
    <2>2. left \in [Holders -> Nat] /\ Total(left) = Total(AccruedShares) - n
      BY <1>2, <2>1, DebitTotal
    <2> HIDE DEF left
    <2>3. Total(shares') = Total(left) + fee
      BY <1>1, <1>3, <2>2, PayFeeTotal
    <2>4. Total(AccruedShares) = AccruedSupply
      BY AccruedTotal DEF Conserved
    <2>5. QED
      BY <1>1, <1>2, <1>3, <1>4, <2>2, <2>3, <2>4 DEF SharesConserved
  <1>6. ASSUME NEW m \in Mints PROVE MintConserved(m)'
    <2>1. out[m] \in Nat
      <3>1. BurnAmount(n) \in 0..AccruedSupply
        BY <1>1, <1>2, <1>3, <1>4
      <3>2. RedeemAmount(vault[m], BurnAmount(n), AccruedSupply) \in 0..vault[m]
        BY <1>1, <1>2, <3>1, RedeemPriced
      <3>3. QED
        BY <1>1, <3>2 DEF AmountsOut
    <2> HIDE DEF out
    <2>2. vault'[m] = vault[m] - out[m]
      BY <1>1
    <2>3. \A h \in Holders : wallet'[h][m] =
            IF h = user THEN wallet[h][m] + out[m] ELSE wallet[h][m]
      BY <1>1
    <2>4. QED
      BY <1>1, <2>1, <2>2, <2>3, PaidOut DEF Conserved
  <1>7. QED
    BY <1>5, <1>6 DEF Conserved

\* Steps that leave vault and wallets alone keep the second half.
LEMMA HoldingsUntouched ==
    ASSUME Conserved, UNCHANGED <<vault, wallet, taken>>, SharesConserved'
    PROVE  Conserved'
  BY DEF Conserved, MintConserved

LEMMA DonateConserves ==
    ASSUME BasketInv, BasketInv', Conserved, NEW h \in Holders, NEW m \in Mints,
           NEW amount \in DepositSizes, Donate(h, m, amount)
    PROVE  Conserved'
  <1>1. /\ UNCHANGED <<supply, shares, taken>>
        /\ wallet' = [wallet EXCEPT ![h][m] = @ - amount]
        /\ vault' = [vault EXCEPT ![m] = @ + amount]
        /\ wallet \in [Holders -> [Mints -> Nat]] /\ vault \in [Mints -> Nat]
        /\ amount \in Nat /\ amount <= wallet[h][m]
    BY SeedAssumption DEF Donate, issuer_vars, BasketInv, TypeOK
  <1>2. ASSUME NEW k \in Mints PROVE MintConserved(k)'
    <2> DEFINE d == IF k = m THEN amount ELSE 0
    <2>1. /\ d \in Nat /\ d <= wallet[h][k] /\ vault'[k] = vault[k] + d
          /\ wallet[h][k] \in Nat
      BY <1>1
    <2>2. \A x \in Holders : wallet'[x][k] = IF x = h THEN wallet[x][k] - d ELSE wallet[x][k]
      BY <1>1
    <2> HIDE DEF d
    <2>3. QED
      BY <1>1, <2>1, <2>2, PaidIn DEF Conserved
  <1>3. QED
    BY <1>1, <1>2 DEF Conserved, SharesConserved

LEMMA TransferConserves ==
    ASSUME BasketInv, Conserved, NEW from \in Holders, NEW to \in Holders,
           NEW n \in TransferSizes, TransferShares(from, to, n)
    PROVE  Conserved'
  <1>1. /\ UNCHANGED <<supply, vault, wallet, taken>>
        /\ shares' = Credit(Debit(shares, from, n), to, n)
        /\ shares \in [Holders -> Nat] /\ n \in Nat /\ n <= shares[from]
    BY SeedAssumption DEF TransferShares, issuer_vars, BasketInv, TypeOK
  <1>2. /\ Debit(shares, from, n) \in [Holders -> Nat]
        /\ Total(Debit(shares, from, n)) = Total(shares) - n
    BY <1>1, DebitTotal
  <1>3. Total(shares') = Total(Debit(shares, from, n)) + n
    BY <1>1, <1>2, CreditTotal
  <1>4. Total(shares) \in Nat
    BY <1>1, TotalType, PartiesAssumption
  <1>5. SharesConserved'
    BY <1>1, <1>2, <1>3, <1>4 DEF SharesConserved, Conserved
  <1>6. QED
    BY <1>1, <1>5, HoldingsUntouched

LEMMA BurnConserves ==
    ASSUME BasketInv, Conserved, NEW h \in Holders, NEW n \in TransferSizes,
           BurnShares(h, n)
    PROVE  Conserved'
  <1>1. /\ UNCHANGED <<vault, wallet, taken>>
        /\ shares' = Debit(shares, h, n) /\ supply' = supply - n
        /\ shares \in [Holders -> Nat] /\ n \in Nat /\ n <= shares[h]
    BY SeedAssumption DEF BurnShares, issuer_vars, BasketInv, TypeOK
  <1>2. Total(shares') = Total(shares) - n
    BY <1>1, DebitTotal
  <1>3. SharesConserved'
    BY <1>1, <1>2 DEF SharesConserved, Conserved
  <1>4. QED
    BY <1>1, <1>3, HoldingsUntouched

\* What leaves the vault is counted as taken.
LEMMA SeizeConserves ==
    ASSUME BasketInv, Conserved, NEW m \in Delegated, NEW amount \in DepositSizes,
           Seize(m, amount)
    PROVE  Conserved'
  <1>1. /\ UNCHANGED <<supply, shares, wallet>>
        /\ vault' = [vault EXCEPT ![m] = @ - amount]
        /\ taken' = [taken EXCEPT ![m] = @ + amount]
        /\ vault \in [Mints -> Nat] /\ taken \in [Mints -> Nat] /\ amount \in Nat
    BY SeedAssumption DEF Seize, BasketInv, TypeOK
  <1>2. ASSUME NEW k \in Mints PROVE MintConserved(k)'
    <2>1. vault'[k] + taken'[k] = vault[k] + taken[k]
      BY <1>1
    <2>2. QED
      BY <1>1, <2>1 DEF Conserved, MintConserved
  <1>3. QED
    BY <1>1, <1>2 DEF Conserved, SharesConserved

LEMMA EveryStepConserves ==
    ASSUME BasketInv, BasketInv', Conserved, [Next]_vars
    PROVE  Conserved'
  <1>1. ASSUME NEW user \in Holders, NEW amounts \in Deposits,
               MintInKind(user, amounts, vault)
        PROVE  Conserved'
    BY <1>1, MintConserves
  <1>2. ASSUME NEW user \in Holders, NEW n \in 1..U64_MAX, RedeemInKind(user, n, vault)
        PROVE  Conserved'
    <2>1. n \in Nat
      BY GenesisAssumption
    <2>2. QED
      BY <1>2, <2>1, RedeemConserves
  <1>3. CASE AccrueManagementFee
    <2>1. /\ supply' = AccruedSupply /\ shares' = AccruedShares
          /\ UNCHANGED <<vault, wallet, taken>>
      BY <1>3 DEF AccrueManagementFee, issuer_vars
    <2>2. SharesConserved'
      BY <2>1, AccruedTotal DEF SharesConserved, Conserved
    <2>3. QED
      BY <2>1, <2>2, HoldingsUntouched
  <1>4. ASSUME NEW m \in Mints, PauseMint(m) \/ UnpauseMint(m)
        PROVE  Conserved'
    <2>1. UNCHANGED <<supply, shares, vault, wallet, taken>>
      BY <1>4 DEF PauseMint, UnpauseMint, issuer_vars
    <2>2. QED
      BY <2>1, HoldingsUntouched DEF Conserved, SharesConserved
  <1>5. ASSUME NEW h \in Holders, NEW m \in Mints, NEW amount \in DepositSizes,
               Donate(h, m, amount)
        PROVE  Conserved'
    BY <1>5, DonateConserves
  <1>6. ASSUME NEW from \in Holders, NEW to \in Holders, NEW n \in TransferSizes,
               TransferShares(from, to, n)
        PROVE  Conserved'
    BY <1>6, TransferConserves
  <1>7. ASSUME NEW h \in Holders, NEW n \in TransferSizes, BurnShares(h, n)
        PROVE  Conserved'
    BY <1>7, BurnConserves
  <1>8. ASSUME NEW m \in Freezable, Hold(m) \/ Release(m)
        PROVE  Conserved'
    <2>1. UNCHANGED <<supply, shares, vault, wallet, taken>>
      BY <1>8 DEF Hold, Release
    <2>2. QED
      BY <2>1, HoldingsUntouched DEF Conserved, SharesConserved
  <1>9. ASSUME NEW m \in Delegated, NEW amount \in DepositSizes, Seize(m, amount)
        PROVE  Conserved'
    BY <1>9, SeizeConserves
  <1>10. CASE Tick \/ UNCHANGED vars
    <2>1. UNCHANGED <<supply, shares, vault, wallet, taken>>
      BY <1>10 DEF Tick, vars, issuer_vars
    <2>2. QED
      BY <2>1, HoldingsUntouched DEF Conserved, SharesConserved
  <1>11. QED
    BY <1>1, <1>2, <1>3, <1>4, <1>5, <1>6, <1>7, <1>8, <1>9, <1>10 DEF Next

LEMMA InitConserved == Init => Conserved
  <1> SUFFICES ASSUME Init PROVE Conserved
    OBVIOUS
  <1>1. SharesConserved
    <2>1. /\ GENESIS_SHARES \in Nat /\ Creator \in Holders
          /\ supply = GENESIS_SHARES /\ shares \in [Holders -> Nat]
          /\ \A h \in Holders : shares[h] = IF h = Creator THEN GENESIS_SHARES ELSE 0
      BY GenesisAssumption, PartiesAssumption DEF Init
    <2>2. QED
      BY <2>1, TotalSingle DEF SharesConserved
  <1>2. ASSUME NEW m \in Mints PROVE MintConserved(m)
    <2>1. vault[m] + taken[m] = Seed[m]
      BY SeedAssumption DEF Init
    <2>2. QED
      BY <2>1 DEF Init, MintConserved
  <1>3. QED
    BY <1>1, <1>2 DEF Conserved

\* Shares and constituents are neither created nor lost: the supply is the sum
\* of the balances, and vault, wallets and what an issuer took keep their sum,
\* through every mint, redemption, burn, fee split, donation and transfer.
THEOREM Conservation == Spec => []Conserved
  <1>1. BasketInv /\ BasketInv' /\ Conserved /\ [Next]_vars => Conserved'
    BY EveryStepConserves
  <1>2. QED
    BY <1>1, InitConserved, Invariance, PTL DEF Spec

\* A balance never exceeds the supply, so that the program refuses no redemption
\* of it: neither the ZeroSupply check nor the burn of the accrued supply can
\* fail.  Only an issuer that holds back its token, or a pending fee that no
\* longer fits a u64, closes the exit.
THEOREM ExitsAlwaysOpen == Spec => []ExitsOpen
  <1>1. ASSUME BasketInv, Conserved, held = {}, AccruedSupply <= U64_MAX,
               NEW user \in Holders, NEW n \in 1..shares[user]
        PROVE  MayRedeem(user, n, vault)
    <2>1. shares \in [Holders -> Nat] /\ shares[user] \in Nat /\ n \in Nat /\ n > 0
      BY <1>1 DEF BasketInv, TypeOK
    <2>2. shares[user] <= supply
      BY <1>1, <2>1, PartOfTotal, PartiesAssumption DEF Conserved, SharesConserved
    <2>3. AccruedSupply \in Nat /\ supply <= AccruedSupply
      BY <1>1, AccrualSettles, TypesOfParts
    <2>4. ExitFee(n) \in 0..n
      BY <1>1, <2>1, BpsFeeBound, TypesOfParts DEF ExitFee
    <2>5. n <= AccruedSupply /\ n <= shares[user] /\ BurnAmount(n) <= n
      BY <1>1, <2>1, <2>2, <2>3, <2>4, TypesOfParts DEF BurnAmount
    <2>6. BurnAmount(n) <= AccruedSupply /\ AccruedSupply > 0
      BY <2>1, <2>3, <2>4, <2>5 DEF BurnAmount
    <2>7. QED
      BY <1>1, <2>1, <2>5, <2>6 DEF MayRedeem, MayAccrue, ShareBalanceSnapshot, Transferable
  <1>2. BasketInv /\ Conserved => ExitsOpen
    BY <1>1 DEF ExitsOpen, RedeemNeverGated, BasketInv
  <1>3. QED
    BY <1>2, Invariance, Conservation, PTL
=============================================================================
