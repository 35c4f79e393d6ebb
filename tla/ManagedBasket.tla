---------------------------- MODULE ManagedBasket ---------------------------
(***************************************************************************)
(* The managed V2 program (programs/managed_basket): a fee-free common     *)
(* vault of two assets whose manager may propose, and whose guardian may   *)
(* price, one rebalance trade at a time.                                   *)
(*                                                                         *)
(* The program keeps what managed-core keeps in one optional record in     *)
(* several accounts: the basket names the pending proposal by its nonce,   *)
(* and every proposal ever made stays in an account of its own, with a     *)
(* status.  An instruction names the proposal it is about by nonce and     *)
(* may be sent for any of them, in any order, and again after it was done. *)
(* An instruction is atomic, so each is one action.                        *)
(***************************************************************************)
EXTENDS ManagedMath, Sums

CONSTANTS
    Holders, Creator,          \* wallets holding shares; the creator's
    Actors, Manager, Guardian, \* signers of proposal instructions
    InitialVault, InitialShares, InitialWeights,
    APPROVAL_TTL, NOTICE_DURATION, EXECUTION_WINDOW,   \* in slots
    MaxNonce, MaxSlot,         \* bounds: proposals made, slots passed
    Amounts,                   \* bound: raw amounts of deposits and trades
    None

ASSUME RolesAssumption ==
    /\ {Manager, Guardian} \subseteq Actors /\ Manager # Guardian
    /\ IsFiniteSet(Holders) /\ Creator \in Holders
ASSUME TimingAssumption ==
    /\ {APPROVAL_TTL, NOTICE_DURATION, EXECUTION_WINDOW} \subseteq Nat \ {0}
    /\ MaxNonce \in Nat /\ MaxSlot \in Nat
    /\ Amounts \subseteq Nat \ {0}
ASSUME InitialAssumption ==
    /\ InitialVault \in [Assets -> 1..U64_MAX]
    /\ InitialShares \in 1..U64_MAX
    /\ InitialWeights \in ValidWeights
    /\ None \notin Nat

VARIABLES
    vault,                   \* raw balances of the vault accounts
    supply, shares,          \* the share mint and its accounts
    target_weights_bps, allocation_version,
    next_proposal_nonce, pending_proposal_nonce,
    proposals,               \* the proposal accounts, by nonce
    slot                     \* Clock::slot

basket_vars == <<target_weights_bps, allocation_version,
                 next_proposal_nonce, pending_proposal_nonce>>
vars == <<vault, supply, shares, basket_vars, proposals, slot>>

Nonces == 0..MaxNonce - 1
LiveStatus == {"PENDING_APPROVAL", "APPROVED"}
Status == LiveStatus \cup {"EXECUTED", "CANCELLED", "EXPIRED"}

NoAccount == [status |-> "NO_ACCOUNT"]      \* the account is not created yet
Exists(n) == proposals[n].status # "NO_ACCOUNT"
Live(n) == proposals[n].status \in LiveStatus

Init ==
    /\ vault = InitialVault
    /\ supply = InitialShares
    /\ shares = [h \in Holders |-> IF h = Creator THEN InitialShares ELSE 0]
    /\ target_weights_bps = InitialWeights
    /\ allocation_version = 0
    /\ next_proposal_nonce = 0
    /\ pending_proposal_nonce = None
    /\ proposals = [n \in Nonces |-> NoAccount]
    /\ slot = 0

-----------------------------------------------------------------------------
(***************************************************************************)
(* Shares.                                                                 *)
(***************************************************************************)
MintInKind(h, deposits) ==
    /\ \E minted \in GrossShares(deposits, vault, supply) :
         /\ supply + minted <= U64_MAX
         /\ supply' = supply + minted
         /\ shares' = [shares EXCEPT ![h] = @ + minted]
    /\ \A a \in Assets : vault[a] + deposits[a] <= U64_MAX
    /\ vault' = [a \in Assets |-> vault[a] + deposits[a]]
    /\ UNCHANGED <<basket_vars, proposals, slot>>

AmountsOut(n) == [a \in Assets |-> RedeemAmount(vault[a], n, supply)]

\* What redeem_in_kind asks for; variant: no exit while a trade is pending
MayRedeemUnlessPending(h, n) ==
    /\ pending_proposal_nonce = None
    /\ 0 < n /\ n <= shares[h] /\ n <= supply
    /\ \E a \in Assets : AmountsOut(n)[a] > 0
MayRedeem(h, n) ==
    /\ 0 < n /\ n <= shares[h] /\ n <= supply
    /\ \E a \in Assets : AmountsOut(n)[a] > 0

RedeemInKind(h, n) ==
    /\ MayRedeem(h, n)
    /\ vault' = [a \in Assets |-> vault[a] - AmountsOut(n)[a]]
    /\ supply' = supply - n
    /\ shares' = [shares EXCEPT ![h] = @ - n]
    /\ UNCHANGED <<basket_vars, proposals, slot>>

-----------------------------------------------------------------------------
(***************************************************************************)
(* Rebalance proposals.                                                    *)
(***************************************************************************)
NextNonce == next_proposal_nonce + 1

ProposeRebalance(who, nonce, expected_version, w, input, max_input) ==
    /\ who = Manager
    /\ pending_proposal_nonce = None
    /\ nonce = next_proposal_nonce
    /\ ~Exists(nonce)
    /\ expected_version = allocation_version
    /\ w \in ValidWeights
    /\ max_input > 0
    /\ proposals' = [proposals EXCEPT ![nonce] =
            [status |-> "PENDING_APPROVAL", base_version |-> expected_version,
             input |-> input, max_input |-> max_input, min_output |-> 0,
             weights |-> w, deadline |-> slot + APPROVAL_TTL,
             approved_at |-> 0, not_before |-> 0, expires_at |-> 0]]
    /\ pending_proposal_nonce' = nonce
    /\ next_proposal_nonce' = NextNonce
    /\ UNCHANGED <<vault, supply, shares, target_weights_bps, allocation_version, slot>>

\* The account as approve_price_bound leaves it; the public delay starts here.
\* variant: it starts when the proposal's approval was due to end
ApprovedNoNotice(p, min_output) ==
    [p EXCEPT !.status = "APPROVED", !.min_output = min_output,
              !.approved_at = slot,  !.not_before = p.deadline,
              !.expires_at = p.deadline + EXECUTION_WINDOW]
Approved(p, min_output) ==
    [p EXCEPT !.status = "APPROVED", !.min_output = min_output,
              !.approved_at = slot,  !.not_before = slot + NOTICE_DURATION,
              !.expires_at = slot + NOTICE_DURATION + EXECUTION_WINDOW]

ApprovePriceBound(who, nonce, min_output) ==
    /\ who = Guardian
    /\ pending_proposal_nonce = nonce
    /\ proposals[nonce].status = "PENDING_APPROVAL"
    /\ min_output > 0
    /\ slot <= proposals[nonce].deadline
    /\ proposals' = [proposals EXCEPT ![nonce] = Approved(@, min_output)]
    /\ UNCHANGED <<vault, supply, shares, basket_vars, slot>>

\* validate_pending_pair
PendingPair(nonce) == pending_proposal_nonce = nonce /\ Live(nonce)

\* variant: the basket keeps naming a proposal that is over
CloseForgetful(nonce, status) ==
    /\ PendingPair(nonce)
    /\ proposals' = [proposals EXCEPT ![nonce].status = status]
    /\ UNCHANGED <<vault, supply, shares, basket_vars, slot>>
Close(nonce, status) ==
    /\ PendingPair(nonce)
    /\ proposals' = [proposals EXCEPT ![nonce].status = status]
    /\ pending_proposal_nonce' = None
    /\ UNCHANGED <<vault, supply, shares, target_weights_bps, allocation_version,
                   next_proposal_nonce, slot>>

CancelRebalance(who, nonce) ==
    /\ who \in {Manager, Guardian}
    /\ Close(nonce, "CANCELLED")

Expired(p) ==
    slot > IF p.status = "PENDING_APPROVAL" THEN p.deadline ELSE p.expires_at

ExpireRebalance(nonce) ==
    /\ Live(nonce) /\ Expired(proposals[nonce])
    /\ Close(nonce, "EXPIRED")

\* fill_rebalance: anyone may take the whole trade, once, inside its window.
\* variant: no notice, the trade may be taken once it is priced
InWindowAtOnce(p) == p.approved_at <= slot /\ slot <= p.expires_at
InWindow(p) == p.not_before <= slot /\ slot <= p.expires_at

\* variant: only the output leg is looked at
LeavesOther(p) == vault[Other(p.input)] > 0
LeavesBothLegs(p) ==
    /\ vault[p.input] > p.max_input
    /\ vault[Other(p.input)] > 0

Executed(p) == [p EXCEPT !.status = "EXECUTED"]

NextVersion == allocation_version + 1

FillRebalance(nonce, input_raw, output_raw) ==
    /\ pending_proposal_nonce = nonce
    /\ proposals[nonce].status = "APPROVED"
    /\ LET p == proposals[nonce]
           output == Other(p.input) IN
         /\ p.base_version = allocation_version
         /\ InWindow(p)
         /\ input_raw = p.max_input
         /\ output_raw >= p.min_output
         /\ LeavesBothLegs(p)
         /\ vault[output] + output_raw <= U64_MAX
         /\ vault' = [vault EXCEPT ![p.input] = @ - input_raw, ![output] = @ + output_raw]
         /\ target_weights_bps' = p.weights
    /\ allocation_version' = NextVersion
    /\ pending_proposal_nonce' = None
    /\ proposals' = [proposals EXCEPT ![nonce] = Executed(@)]
    /\ UNCHANGED <<supply, shares, next_proposal_nonce, slot>>

-----------------------------------------------------------------------------
(***************************************************************************)
(* What the program does not control: token transfers, a holder's direct   *)
(* burn of shares at the token program, and the cluster clock.             *)
(***************************************************************************)
Donate(a, amount) ==
    /\ vault[a] + amount <= U64_MAX
    /\ vault' = [vault EXCEPT ![a] = @ + amount]
    /\ UNCHANGED <<supply, shares, basket_vars, proposals, slot>>

TransferShares(from, to, n) ==
    /\ n <= shares[from]
    /\ shares' = [[shares EXCEPT ![from] = @ - n] EXCEPT ![to] = @ + n]
    /\ UNCHANGED <<vault, supply, basket_vars, proposals, slot>>

BurnShares(h, n) ==
    /\ n <= shares[h] /\ n <= supply
    /\ supply' = supply - n
    /\ shares' = [shares EXCEPT ![h] = @ - n]
    /\ UNCHANGED <<vault, basket_vars, proposals, slot>>

Tick ==
    /\ slot < MaxSlot
    /\ slot' = slot + 1
    /\ UNCHANGED <<vault, supply, shares, basket_vars, proposals>>

Next ==
    \/ \E h \in Holders, deposits \in [Assets -> Amounts] : MintInKind(h, deposits)
    \/ \E h \in Holders, n \in 1..U64_MAX : RedeemInKind(h, n)
    \/ \E who \in Actors, nonce \in Nonces, expected_version \in 0..MaxNonce,
          w \in ValidWeights, input \in Assets, max_input \in Amounts :
         ProposeRebalance(who, nonce, expected_version, w, input, max_input)
    \/ \E who \in Actors, nonce \in Nonces, min_output \in Amounts :
         ApprovePriceBound(who, nonce, min_output)
    \/ \E who \in Actors, nonce \in Nonces : CancelRebalance(who, nonce)
    \/ \E nonce \in Nonces : ExpireRebalance(nonce)
    \/ \E nonce \in Nonces, input_raw, output_raw \in Amounts :
         FillRebalance(nonce, input_raw, output_raw)
    \/ \E a \in Assets, amount \in Amounts : Donate(a, amount)
    \/ \E from, to \in Holders, n \in 0..U64_MAX : TransferShares(from, to, n)
    \/ \E h \in Holders, n \in 1..U64_MAX : BurnShares(h, n)
    \/ Tick

Spec == Init /\ [][Next]_vars

-----------------------------------------------------------------------------
(***************************************************************************)
(* Properties.                                                             *)
(***************************************************************************)
Proposal ==
    [status : Status, base_version : Nat, input : Assets, max_input : Nat \ {0},
     min_output : Nat, weights : ValidWeights, deadline : Nat,
     approved_at : Nat, not_before : Nat, expires_at : Nat]

\* Every variable has its type.
TypeOK ==
    /\ vault \in [Assets -> 0..U64_MAX]
    /\ supply \in 0..U64_MAX
    /\ shares \in [Holders -> Nat]
    /\ target_weights_bps \in ValidWeights
    /\ allocation_version \in Nat
    /\ next_proposal_nonce \in 0..MaxNonce
    /\ pending_proposal_nonce \in Nonces \cup {None}
    /\ proposals \in [Nonces -> Proposal \cup {NoAccount}]
    /\ slot \in 0..MaxSlot

\* The basket's pending nonce and the statuses of the proposal accounts, two
\* records of one fact in different accounts, never disagree: the account the
\* basket names is live and no other is, so no proposal can be acted on after
\* it ended and none can jam the slot for the next one.
OneLiveProposal ==
    \A n \in Nonces : Live(n) <=> pending_proposal_nonce = n

\* Accounts exist exactly for the nonces handed out, so the next proposal never
\* meets an account that is already initialised.
NoncesUnused == \A n \in Nonces : Exists(n) <=> n < next_proposal_nonce

\* A live proposal was made against the allocation that is current: between
\* propose_rebalance and fill_rebalance no other trade can get in.
LiveIsCurrent ==
    \A n \in Nonces : Live(n) => proposals[n].base_version = allocation_version

\* The allocation version numbers the trades: every version below it was the
\* base of one filled proposal, later versions of later nonces.
FillsAreSerial ==
    LET filled == {n \in Nonces : proposals[n].status = "EXECUTED"}
        base(n) == proposals[n].base_version IN
    /\ {base(n) : n \in filled} = 0..allocation_version - 1
    /\ \A m, n \in filled : m < n => base(m) < base(n)

\* Trades happen one at a time and in order, with the facts spread over the
\* basket and all the proposal accounts: one live proposal, the one named;
\* nonces never met twice; no trade between a proposal and its own fill; and
\* the filled proposals numbered by the allocation version.
TradesAreSerial == OneLiveProposal /\ NoncesUnused /\ LiveIsCurrent /\ FillsAreSerial

\* While shares exist both legs of the vault hold something: no trade and no
\* partial redemption empties a constituent.
BackedShares == supply > 0 => \A a \in Assets : vault[a] > 0

\* A holder whose shares are worth a raw unit can redeem all of them, whatever
\* the proposal, the manager and the guardian are doing.
OpenExit ==
    \A h \in Holders :
        (shares[h] > 0 /\ \E a \in Assets : vault[a] * shares[h] >= supply)
            => MayRedeem(h, shares[h])

\* The balances add up to the supply, which a redemption is priced with and
\* taken off.
SharesConserved == supply = Total(shares)

\* Whatever has been traded, minted and redeemed, there is something left on
\* each leg to leave with, every share is in some account, and no state of a
\* trade closes the way out.
ExitsOpen == BackedShares /\ SharesConserved /\ OpenExit

\* Issuing or redeeming shares never lowers what is behind each share that
\* exists before and after.
BackingPerShareKept ==
    (supply' # supply /\ supply' > 0)
        => \A a \in Assets : vault'[a] * supply >= vault[a] * supply'
NoDilution == [][BackingPerShareKept]_vars

\* Nothing about an approved proposal but its status ever changes again.
TermsKept ==
    \A n \in Nonces :
        proposals[n].status = "APPROVED"
            => proposals'[n] = [proposals[n] EXCEPT !.status = proposals'[n].status]

\* Other than to a redeemer, tokens leave the vault only by a trade whose full
\* terms have been public for the notice period: exactly the announced input,
\* for at least the announced output.
AnnouncedTrade ==
    (supply' = supply /\ \E a \in Assets : vault'[a] < vault[a])
        => \E n \in Nonces :
             LET p == proposals[n] IN
             /\ p.status = "APPROVED" /\ proposals'[n].status = "EXECUTED"
             /\ slot >= p.approved_at + NOTICE_DURATION
             /\ vault'[p.input] = vault[p.input] - p.max_input
             /\ vault'[Other(p.input)] >= vault[Other(p.input)] + p.min_output
             /\ target_weights_bps' = p.weights

\* What is announced is what happens: the price the guardian signs is final, and
\* the only trade that can take tokens out takes exactly the signed terms, after
\* the notice in which a holder can leave.
TradesAsAnnounced == [][TermsKept /\ AnnouncedTrade]_vars

-----------------------------------------------------------------------------
(***************************************************************************)
(* The program implements the core model: its optional pending record is   *)
(* read off the account the basket names, and the accounts of proposals    *)
(* that are over are not seen.                                             *)
(***************************************************************************)
PendingRecord ==
    IF pending_proposal_nonce = None THEN None
    ELSE LET n == pending_proposal_nonce
             p == proposals[n] IN
         [nonce |-> n, base_version |-> p.base_version, weights |-> p.weights,
          input |-> p.input, max_input |-> p.max_input, deadline |-> p.deadline,
          bound |-> IF p.status = "PENDING_APPROVAL" THEN None
                    ELSE [min_output |-> p.min_output, approved_at |-> p.approved_at,
                          execute_after |-> p.not_before, expires_at |-> p.expires_at]]

Core == INSTANCE ManagedCore WITH
    holders <- shares, weights <- target_weights_bps,
    version <- allocation_version, next_nonce <- next_proposal_nonce,
    pending <- PendingRecord

\* The absence of a record is told from every record.
ASSUME NoneAssumption == None \notin Core!Bounds \cup Core!PendingRecords

\* Every behaviour of the program is one of managed-core.
ImplementsCore == Core!CoreSpec
=============================================================================
