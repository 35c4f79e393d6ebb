------------------------------- MODULE Basket -------------------------------
(***************************************************************************)
(* One V0 basket (programs/basket): a vault of constituent tokens, a share *)
(* mint that is a pro-rata claim on it, and the 90/10 fee paths.  A Solana *)
(* instruction is atomic: an error rolls back everything it did, so each   *)
(* instruction is one action whose guards are all the checks on its path,  *)
(* and whose assignments are all its CPIs.  Instructions of different      *)
(* wallets interleave freely.                                              *)
(*                                                                         *)
(* Around the program stand what it does not control: the clock, the       *)
(* whitelist authority, the token program, which lets anyone send          *)
(* constituents to the vault and any holder move or burn shares, and the   *)
(* issuers of the constituents, who can stop their transfers and take them *)
(* out of the vault (docs/basalt-v0-spec.md:15).                           *)
(***************************************************************************)
EXTENDS BasketMath, Sums

CONSTANTS
    Mints,               \* the basket's constituents
    Holders,             \* wallets; they hold shares and constituents
    Creator, Treasury,   \* the two fee recipients, members of Holders
    ENTRY_FEE_BPS, EXIT_FEE_BPS, MANAGEMENT_FEE_BPS,  \* fixed at creation
    Seed,                \* create_basket's deposit, per mint
    Funds,               \* what each wallet holds of each mint after it
    Freezable,           \* mints whose issuer can pause, freeze or hook transfers
    Delegated,           \* mints with a PermanentDelegate
    DepositSizes,        \* bound: raw amounts of a deposit, donation or seizure
    TransferSizes,       \* bound: sizes of a share transfer or direct burn
    MaxTime              \* bound: the last second of the clock

ASSUME PartiesAssumption == IsFiniteSet(Holders) /\ {Creator, Treasury} \subseteq Holders
ASSUME FeesAssumption ==
    {ENTRY_FEE_BPS, EXIT_FEE_BPS, MANAGEMENT_FEE_BPS} \subseteq 0..BPS_DENOM
ASSUME SeedAssumption ==
    /\ Seed \in [Mints -> Nat \ {0}]
    /\ Funds \in [Holders -> [Mints -> Nat]]
    /\ DepositSizes \subseteq Nat \ {0}
    /\ TransferSizes \subseteq Nat \ {0}
    /\ MaxTime \in Nat
ASSUME IssuersAssumption == Freezable \subseteq Mints /\ Delegated \subseteq Mints

VARIABLES
    supply,              \* share_mint.supply
    shares,              \* wallet -> balance of its share account
    vault,               \* mint -> raw balance of the vault account
    wallet,              \* wallet -> mint -> raw balance
    status,              \* mint -> WhitelistedMint.status
    held,                \* mints whose transfers fail for now
    taken,               \* mint -> raw amount its delegate took from the vault
    now,                 \* Clock::unix_timestamp
    last_fee_accrual_ts, \* Basket.last_fee_accrual_ts
    remainder,           \* Basket.management_fee_remainder
    owed                 \* history: fee numerator streamed, to be minted

fee_vars == <<last_fee_accrual_ts, remainder, owed>>
issuer_vars == <<held, taken>>
vars == <<supply, shares, vault, wallet, status, issuer_vars, now, fee_vars>>

Status == {"Active", "PausedNewMints"}

\* The state create_basket leaves: vaults seeded by the creator, who holds the
\* genesis shares; every constituent was Active and could be transferred; the
\* clock is checkpointed.
Init ==
    /\ supply = GENESIS_SHARES
    /\ shares = [h \in Holders |-> IF h = Creator THEN GENESIS_SHARES ELSE 0]
    /\ vault = Seed
    /\ wallet = Funds
    /\ status = [m \in Mints |-> "Active"]
    /\ held = {}
    /\ taken = [m \in Mints |-> 0]
    /\ now = 0
    /\ last_fee_accrual_ts = 0
    /\ remainder = 0
    /\ owed = 0

-----------------------------------------------------------------------------
(***************************************************************************)
(* Shares moved by a fee: the floor of the split to the creator, the rest  *)
(* to the treasury (who may be the same wallet).                           *)
(***************************************************************************)
PayFee(balances, fee) ==
    [h \in Holders |-> balances[h] + (IF h = Creator  THEN CreatorFee(fee)  ELSE 0)
                                   + (IF h = Treasury THEN TreasuryFee(fee) ELSE 0)]

Debit(balances, h, n) == [balances EXCEPT ![h] = @ - n]
Credit(balances, h, n) == [balances EXCEPT ![h] = @ + n]

(***************************************************************************)
(* accrue_fee_internal, the first state change of every instruction: what  *)
(* it mints, the remainder it stores, and the balances and supply that the *)
(* rest of the instruction works with.                                     *)
(***************************************************************************)
Elapsed == now - last_fee_accrual_ts
NoFeeBase == supply = 0 \/ MANAGEMENT_FEE_BPS = 0

AccruedFee ==
    IF Elapsed <= 0 \/ NoFeeBase THEN 0
    ELSE ManagementFee(supply, MANAGEMENT_FEE_BPS, Elapsed, remainder)

\* variant: a checkpoint keeps no fraction of a share
AccruedRemainderDropped == IF Elapsed <= 0 THEN remainder ELSE 0
AccruedRemainder ==
    IF Elapsed <= 0 THEN remainder
    ELSE IF NoFeeBase THEN 0
    ELSE NextRemainder(supply, MANAGEMENT_FEE_BPS, Elapsed, remainder)

AccruedSupply == supply + AccruedFee
AccruedShares == PayFee(shares, AccruedFee)

\* History: minting takes the fee off what has been streamed; a checkpoint of
\* an empty basket forgives it.
AccruedOwed ==
    IF Elapsed > 0 /\ supply = 0 THEN 0
    ELSE owed - AccruedFee * MANAGEMENT_FEE_DENOMINATOR

AllActive == \A m \in Mints : status[m] = "Active"

\* The fee shares must fit the supply.
\* variant: the pause gate of mint_in_kind moved into the shared accrual
MayAccrueGated == AllActive /\ AccruedSupply <= U64_MAX
MayAccrue == AccruedSupply <= U64_MAX

Accrue ==
    /\ MayAccrue
    /\ last_fee_accrual_ts' = IF Elapsed <= 0 THEN last_fee_accrual_ts ELSE now
    /\ remainder' = AccruedRemainder
    /\ owed' = AccruedOwed

-----------------------------------------------------------------------------
\* A transfer_checked of the token program; an amount of 0 is never sent.
Transferable(m, amount) == amount = 0 \/ m \notin held

\* mint_in_kind(amounts, vault_balances).  The balances the client read must
\* still be the vault's; the supply it read is not checked.
MintInKind(user, amounts, balances) ==
    /\ AllActive
    /\ Accrue
    /\ balances = vault
    /\ \A m \in Mints : /\ amounts[m] > 0 /\ amounts[m] <= wallet[user][m]
                        /\ Transferable(m, amounts[m])
    /\ \E gross \in MintGross(amounts, balances, AccruedSupply) :
         LET entryFee == BpsFee(gross, ENTRY_FEE_BPS) IN
         /\ AccruedSupply + gross <= U64_MAX
         /\ supply' = AccruedSupply + gross
         /\ shares' = PayFee(Credit(AccruedShares, user, gross - entryFee), entryFee)
    /\ vault' = [m \in Mints |-> vault[m] + amounts[m]]
    /\ wallet' = [wallet EXCEPT ![user] = [m \in Mints |-> @[m] - amounts[m]]]
    /\ UNCHANGED <<status, issuer_vars, now>>

\* Shares a redemption of n burns; the exit fee is transferred, not burned.
ExitFee(n) == BpsFee(n, EXIT_FEE_BPS)
BurnAmount(n) == n - ExitFee(n)
AmountsOut(balances, n) ==
    [m \in Mints |-> RedeemAmount(balances[m], BurnAmount(n), AccruedSupply)]

\* The balance that shares_to_burn is compared with: Anchor deserialised it
\* before the instruction ran, hence before the accrual.
ShareBalanceSnapshot(user) == shares[user]

\* redeem_in_kind(shares_to_burn, vault_balances).  No whitelist, no oracle; but
\* one payout that the token program refuses rolls the redemption back.
MayRedeem(user, n, balances) ==
    /\ n > 0
    /\ MayAccrue
    /\ AccruedSupply > 0
    /\ n <= ShareBalanceSnapshot(user)
    /\ balances = vault
    /\ BurnAmount(n) <= AccruedSupply
    /\ \A m \in Mints : Transferable(m, AmountsOut(balances, n)[m])

RedeemInKind(user, n, balances) ==
    /\ MayRedeem(user, n, balances)
    /\ Accrue
    /\ LET out == AmountsOut(balances, n) IN
         /\ vault' = [m \in Mints |-> vault[m] - out[m]]
         /\ wallet' = [wallet EXCEPT ![user] = [m \in Mints |-> @[m] + out[m]]]
    /\ supply' = AccruedSupply - BurnAmount(n)
    /\ shares' = PayFee(Debit(AccruedShares, user, n), ExitFee(n))
    /\ UNCHANGED <<status, issuer_vars, now>>

\* accrue_management_fee: anyone's crank
AccrueManagementFee ==
    /\ Accrue
    /\ supply' = AccruedSupply
    /\ shares' = AccruedShares
    /\ UNCHANGED <<vault, wallet, status, issuer_vars, now>>

-----------------------------------------------------------------------------
\* whitelist::pause_mint and unpause_mint, by the whitelist authority
PauseMint(m) ==
    /\ status[m] = "Active"
    /\ status' = [status EXCEPT ![m] = "PausedNewMints"]
    /\ UNCHANGED <<supply, shares, vault, wallet, issuer_vars, now, fee_vars>>

UnpauseMint(m) ==
    /\ status[m] = "PausedNewMints"
    /\ status' = [status EXCEPT ![m] = "Active"]
    /\ UNCHANGED <<supply, shares, vault, wallet, issuer_vars, now, fee_vars>>

\* The token program: a plain transfer into the vault's token account, a share
\* transfer between wallets, and the burn of one's own shares.  None of them
\* calls the basket program.
Donate(h, m, amount) ==
    /\ amount <= wallet[h][m]
    /\ Transferable(m, amount)
    /\ wallet' = [wallet EXCEPT ![h][m] = @ - amount]
    /\ vault' = [vault EXCEPT ![m] = @ + amount]
    /\ UNCHANGED <<supply, shares, status, issuer_vars, now, fee_vars>>

TransferShares(from, to, n) ==
    /\ n <= shares[from]
    /\ shares' = Credit(Debit(shares, from, n), to, n)
    /\ UNCHANGED <<supply, vault, wallet, status, issuer_vars, now, fee_vars>>

\* The token program subtracts from the account and from the supply, both
\* checked.  No checkpoint: what these shares streamed since the last one is not
\* charged.
BurnShares(h, n) ==
    /\ n <= shares[h] /\ n <= supply
    /\ shares' = Debit(shares, h, n)
    /\ supply' = supply - n
    /\ owed' = owed - n * MANAGEMENT_FEE_BPS * Elapsed
    /\ UNCHANGED <<vault, wallet, status, issuer_vars, now, last_fee_accrual_ts, remainder>>

\* An issuer stops and readmits the transfers of its token, or takes some of it
\* out of the vault as its PermanentDelegate.
Hold(m) ==
    /\ m \notin held
    /\ held' = held \cup {m}
    /\ UNCHANGED <<supply, shares, vault, wallet, status, taken, now, fee_vars>>

Release(m) ==
    /\ m \in held
    /\ held' = held \ {m}
    /\ UNCHANGED <<supply, shares, vault, wallet, status, taken, now, fee_vars>>

Seize(m, amount) ==
    /\ amount <= vault[m]
    /\ Transferable(m, amount)
    /\ vault' = [vault EXCEPT ![m] = @ - amount]
    /\ taken' = [taken EXCEPT ![m] = @ + amount]
    /\ UNCHANGED <<supply, shares, wallet, status, held, now, fee_vars>>

\* A second passes; the fee streams on the supply of that second.
Tick ==
    /\ now < MaxTime
    /\ now' = now + 1
    /\ owed' = owed + supply * MANAGEMENT_FEE_BPS
    /\ UNCHANGED <<supply, shares, vault, wallet, status, issuer_vars,
                   last_fee_accrual_ts, remainder>>

Deposits == [Mints -> DepositSizes]

Next ==
    \/ \E user \in Holders, amounts \in Deposits : MintInKind(user, amounts, vault)
    \/ \E user \in Holders, n \in 1..U64_MAX : RedeemInKind(user, n, vault)
    \/ AccrueManagementFee
    \/ \E m \in Mints : PauseMint(m) \/ UnpauseMint(m)
    \/ \E h \in Holders, m \in Mints, amount \in DepositSizes : Donate(h, m, amount)
    \/ \E from, to \in Holders, n \in TransferSizes : TransferShares(from, to, n)
    \/ \E h \in Holders, n \in TransferSizes : BurnShares(h, n)
    \/ \E m \in Freezable : Hold(m) \/ Release(m)
    \/ \E m \in Delegated, amount \in DepositSizes : Seize(m, amount)
    \/ Tick

Spec == Init /\ [][Next]_vars

-----------------------------------------------------------------------------
(***************************************************************************)
(* Properties                                                              *)
(***************************************************************************)
\* Supplies and balances are token amounts (a share supply fits a u64), the
\* checkpoint is never ahead of the clock, and the carried remainder is always
\* a proper fraction of a share, as the five bytes that store it require.
TypeOK ==
    /\ supply \in 0..U64_MAX
    /\ shares \in [Holders -> Nat]
    /\ vault \in [Mints -> Nat]
    /\ wallet \in [Holders -> [Mints -> Nat]]
    /\ status \in [Mints -> Status]
    /\ held \subseteq Freezable
    /\ taken \in [Mints -> Nat]
    /\ now \in 0..MaxTime
    /\ last_fee_accrual_ts \in 0..now
    /\ remainder \in 0..(MANAGEMENT_FEE_DENOMINATOR - 1)
    /\ owed \in Nat

\* Outstanding shares always have every constituent behind them, but for what
\* its issuer took: no sequence of redemptions, each rounded on its own, empties
\* one vault while shares remain.  gross_shares divides by these balances and
\* fails on zero (ZeroVault).
BackedShares == supply > 0 => \A m \in Mints : vault[m] > 0 \/ taken[m] > 0

\* What has been charged as management fee never differs from the fee streamed
\* second by second on the supply of each second by more than the carried
\* remainder, whoever mints, redeems or cranks, and however often.  One thing
\* escapes the fee: shares burned at the token program rather than redeemed take
\* with them what they streamed since the last checkpoint, and nothing else.
FeeStreamExact ==
    owed = supply * MANAGEMENT_FEE_BPS * Elapsed + remainder

BackingPerShareKept ==
    supply > 0 =>
      \A m \in Mints : \/ vault'[m] * AccruedSupply >= vault[m] * supply'
                      \/ taken'[m] # taken[m]

\* No instruction takes backing from the holders who stay: apart from the fee
\* accrued up to now and from a seizure by the issuer, a share never represents
\* less of any constituent after a step than before it (spec: dust "favors
\* remaining holders").
NoDilution == [][BackingPerShareKept]_vars

LastShareTakesAll ==
    supply > 0 /\ supply' = 0 =>
      \/ \A m \in Mints : vault'[m] = 0
      \/ \E h \in Holders : BurnShares(h, supply)

\* Redeeming the last share hands over the whole vault.  Something that no share
\* can claim is left only by a holder who owned every share and burned them at
\* the token program instead (the next minter then gets it: compute_mint_gross
\* mints the genesis amount whatever the vault holds).
NothingStranded == [][LastShareTakesAll]_vars

\* Minting and redeeming at once never returns more of any constituent than was
\* deposited, whatever the rounding of the mint, of the fees and of the
\* redemption, and whatever was donated to the vault before.
RoundTripOut(m, deposit, gross) ==
    RedeemAmount(vault[m] + deposit,
                 BurnAmount(gross - BpsFee(gross, ENTRY_FEE_BPS)),
                 AccruedSupply + gross)
NoRoundTripProfit ==
    supply > 0 =>
      \A amounts \in Deposits :
        \A gross \in MintGross(amounts, vault, AccruedSupply) :
          \A m \in Mints : RoundTripOut(m, amounts[m], gross) <= amounts[m]

\* Nothing of the protocol gates redeem_in_kind: while no issuer holds back a
\* constituent, any holder can redeem any part of the balance, constituents
\* paused on the whitelist or not, unless the pending fee no longer fits the
\* supply.  One constituent held by its issuer closes the exit of them all.
RedeemNeverGated ==
    held = {} /\ AccruedSupply <= U64_MAX =>
      \A user \in Holders : \A n \in 1..shares[user] :
        MayRedeem(user, n, vault)

\* There is always something to leave with, and but for the issuers nothing that
\* keeps a holder from leaving, after every sequence of mints, redemptions,
\* cranks, pauses, burns and seizures.
ExitsOpen == BackedShares /\ RedeemNeverGated

\* Nothing is created or lost: the share supply is the sum of the balances, and
\* what the vault and the wallets hold of a constituent, and what its issuer took,
\* never changes in sum.
\* Fees of every path are paid from and into these accounts, so a share counted
\* twice by a mint, a burn or an exit-fee transfer shows here.
SharesConserved == supply = Total(shares)
MintConserved(m) ==
    vault[m] + taken[m] + Total([h \in Holders |-> wallet[h][m]])
      = Seed[m] + Total([h \in Holders |-> Funds[h][m]])
Conserved == SharesConserved /\ \A m \in Mints : MintConserved(m)

\* lib.rs:677: "No CPI has touched the user share ATA, so the typed snapshot is
\* accurate": the balance a redemption is compared with is the redeemer's
\* balance at that point, after the accrual.
SnapshotAccurate ==
    \A user \in Holders : ShareBalanceSnapshot(user) = AccruedShares[user]
=============================================================================
