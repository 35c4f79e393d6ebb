---------------------------- MODULE ManagedCore -----------------------------
(***************************************************************************)
(* What a managed basket promises: the host model of managed-core          *)
(* (model.rs), a common vault with at most one pending rebalance proposal. *)
(* A proposal is one optional record; approving it fixes a price bound and *)
(* the slots between which it can be filled.  The calls take the current   *)
(* slot as an argument; here it is a variable that only grows.             *)
(*                                                                         *)
(* Left out: the counterparty's own balances (the fill asks only for what  *)
(* the vault receives) and the depositor's.  Added, because the vault and  *)
(* share accounts of the program are token accounts: anyone may raise a    *)
(* vault balance or hand shares on.                                        *)
(***************************************************************************)
EXTENDS ManagedMath

CONSTANTS
    Holders, Creator,
    InitialVault, InitialShares, InitialWeights,
    APPROVAL_TTL, NOTICE_DURATION, EXECUTION_WINDOW,   \* TimingPolicy, in slots
    MaxNonce, MaxSlot,        \* bounds: proposals made, slots passed
    Amounts,                  \* bound: raw amounts of deposits and fills
    None

\* What is assumed of these constants is stated by the module that gives
\* them values (RolesAssumption, TimingAssumption and InitialAssumption of
\* ManagedBasket).

\* The optional records of the model: a price bound and a pending proposal.
Bounds ==
    [min_output : Nat, approved_at : Nat, execute_after : Nat, expires_at : Nat]
PendingRecords ==
    [nonce : Nat, base_version : Nat, weights : ValidWeights, input : Assets,
     max_input : Nat, deadline : Nat, bound : Bounds \cup {None}]

VARIABLES vault, supply, holders, weights, version, next_nonce, pending, slot

coreVars == <<vault, supply, holders, weights, version, next_nonce, pending, slot>>

CoreInit ==
    /\ vault = InitialVault
    /\ supply = InitialShares
    /\ holders = [h \in Holders |-> IF h = Creator THEN InitialShares ELSE 0]
    /\ weights = InitialWeights
    /\ version = 0
    /\ next_nonce = 0
    /\ pending = None
    /\ slot = 0

CoreMint(h, deposits) ==
    /\ \E gross \in GrossShares(deposits, vault, supply) :
         /\ supply + gross <= U64_MAX
         /\ supply' = supply + gross
         /\ holders' = [holders EXCEPT ![h] = @ + gross]
    /\ \A a \in Assets : vault[a] + deposits[a] <= U64_MAX
    /\ vault' = [a \in Assets |-> vault[a] + deposits[a]]
    /\ UNCHANGED <<weights, version, next_nonce, pending, slot>>

\* Proposal status, manager, guardian, oracle and backend are not inputs.
CoreRedeem(h, n) ==
    /\ n > 0 /\ n <= holders[h] /\ n <= supply
    /\ vault' = [a \in Assets |-> vault[a] - RedeemAmount(vault[a], n, supply)]
    /\ supply' = supply - n
    /\ holders' = [holders EXCEPT ![h] = @ - n]
    /\ UNCHANGED <<weights, version, next_nonce, pending, slot>>

CorePropose(w, input, max_input) ==
    /\ next_nonce < MaxNonce
    /\ pending = None
    /\ w \in ValidWeights
    /\ max_input > 0
    /\ pending' = [nonce |-> next_nonce, base_version |-> version,
                   weights |-> w, input |-> input, max_input |-> max_input,
                   deadline |-> slot + APPROVAL_TTL, bound |-> None]
    /\ next_nonce' = next_nonce + 1
    /\ UNCHANGED <<vault, supply, holders, weights, version, slot>>

\* The public delay starts at the approval, not at the proposal.
CoreApprove(min_output) ==
    /\ pending # None
    /\ pending.bound = None
    /\ min_output > 0
    /\ slot <= pending.deadline
    /\ pending' = [pending EXCEPT !.bound =
                     [min_output |-> min_output, approved_at |-> slot,
                      execute_after |-> slot + NOTICE_DURATION,
                      expires_at |-> slot + NOTICE_DURATION + EXECUTION_WINDOW]]
    /\ UNCHANGED <<vault, supply, holders, weights, version, next_nonce, slot>>

CoreCancel ==
    /\ pending # None
    /\ pending' = None
    /\ UNCHANGED <<vault, supply, holders, weights, version, next_nonce, slot>>

CoreExpire ==
    /\ pending # None
    /\ slot > IF pending.bound = None THEN pending.deadline ELSE pending.bound.expires_at
    /\ pending' = None
    /\ UNCHANGED <<vault, supply, holders, weights, version, next_nonce, slot>>

CoreFill(output) ==
    /\ pending # None
    /\ pending.base_version = version
    /\ pending.bound # None
    /\ slot >= pending.bound.execute_after
    /\ slot <= pending.bound.expires_at
    /\ output >= pending.bound.min_output
    /\ LET input == pending.input IN
         /\ vault[input] > pending.max_input
         /\ vault[Other(input)] + output <= U64_MAX
         /\ vault' = [vault EXCEPT ![input] = @ - pending.max_input,
                                   ![Other(input)] = @ + output]
    /\ \A a \in Assets : vault'[a] > 0
    /\ weights' = pending.weights
    /\ version' = version + 1
    /\ pending' = None
    /\ UNCHANGED <<supply, holders, next_nonce, slot>>

CoreGift(a, amount) ==
    /\ vault[a] + amount <= U64_MAX
    /\ vault' = [vault EXCEPT ![a] = @ + amount]
    /\ UNCHANGED <<supply, holders, weights, version, next_nonce, pending, slot>>

CoreHandOn(from, to, n) ==
    /\ n <= holders[from]
    /\ holders' = [[holders EXCEPT ![from] = @ - n] EXCEPT ![to] = @ + n]
    /\ UNCHANGED <<vault, supply, weights, version, next_nonce, pending, slot>>

CoreBurn(h, n) ==
    /\ n <= holders[h] /\ n <= supply
    /\ supply' = supply - n
    /\ holders' = [holders EXCEPT ![h] = @ - n]
    /\ UNCHANGED <<vault, weights, version, next_nonce, pending, slot>>

CoreTick ==
    /\ slot < MaxSlot
    /\ slot' = slot + 1
    /\ UNCHANGED <<vault, supply, holders, weights, version, next_nonce, pending>>

CoreNext ==
    \/ \E h \in Holders, deposits \in [Assets -> Amounts] : CoreMint(h, deposits)
    \/ \E h \in Holders, n \in 1..U64_MAX : CoreRedeem(h, n)
    \/ \E w \in ValidWeights, input \in Assets, max_input \in Amounts :
         CorePropose(w, input, max_input)
    \/ \E min_output \in Amounts : CoreApprove(min_output)
    \/ CoreCancel
    \/ CoreExpire
    \/ \E output \in Amounts : CoreFill(output)
    \/ \E a \in Assets, amount \in Amounts : CoreGift(a, amount)
    \/ \E from, to \in Holders, n \in 1..U64_MAX : CoreHandOn(from, to, n)
    \/ \E h \in Holders, n \in 1..U64_MAX : CoreBurn(h, n)
    \/ CoreTick

CoreSpec == CoreInit /\ [][CoreNext]_coreVars
=============================================================================
