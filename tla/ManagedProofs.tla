---------------------------- MODULE ManagedProofs ---------------------------
(***************************************************************************)
(* Theorems about ManagedBasket, for every value of the constants: its     *)
(* safety invariants, the two action properties of trades, and that every  *)
(* step of the program is a step of managed-core.                          *)
(***************************************************************************)
EXTENDS ManagedBasket, AmountLemmas, TLAPS

(***************************************************************************)
(* The inductive invariant: the pair of records of the pending proposal,   *)
(* which every instruction about a proposal relies on, and the backing of  *)
(* the shares, which the mint's division relies on.                        *)
(***************************************************************************)
\* A trade that is priced opens a full notice period after it was priced.
NoticeGiven ==
    \A n \in Nonces : proposals[n].status = "APPROVED"
        => proposals[n].not_before = proposals[n].approved_at + NOTICE_DURATION

ProposalInv == OneLiveProposal /\ NoncesUnused /\ LiveIsCurrent /\ NoticeGiven
ManagedInv == TypeOK /\ ProposalInv /\ BackedShares

\* What every step is shown to do besides keeping the invariant.
StepOK == BackingPerShareKept /\ TermsKept /\ AnnouncedTrade

LEMMA OtherAsset ==
    ASSUME NEW a \in Assets
    PROVE  /\ Other(a) \in Assets /\ Other(a) # a
           /\ Assets = {a, Other(a)}
  <1>1. \E b \in Assets : b # a
    BY PairAssumption
  <1>2. Other(a) \in Assets /\ Other(a) # a
    BY <1>1 DEF Other
  <1>3. QED
    BY <1>2, PairAssumption

\* gross_shares: a positive amount that no leg is worth less than.
LEMMA GrossSharesPriced ==
    ASSUME NEW deposits \in [Assets -> Nat], NEW balances \in [Assets -> Nat],
           NEW sup \in Nat, NEW gross \in GrossShares(deposits, balances, sup)
    PROVE  /\ sup > 0 /\ gross \in Nat \ {0}
           /\ \A a \in Assets : /\ balances[a] > 0 /\ deposits[a] > 0
                                /\ gross * balances[a] <= deposits[a] * sup
  <1> DEFINE leg(a) == (deposits[a] * sup) \div balances[a]
  <1>1. /\ sup > 0
        /\ \A a \in Assets : deposits[a] > 0 /\ balances[a] > 0
        /\ gross \in {leg(a) : a \in Assets} /\ gross > 0
        /\ \A a \in Assets : gross <= leg(a)
    BY DEF GrossShares, Implied
  <1>2. ASSUME NEW a \in Assets
        PROVE  leg(a) \in Nat /\ leg(a) * balances[a] <= deposits[a] * sup
    <2>1. deposits[a] * sup \in Nat /\ balances[a] \in Nat /\ balances[a] > 0
      BY <1>1
    <2>2. QED
      BY <2>1, DivFloor
  <1>3. gross \in Nat
    BY <1>1, <1>2
  <1>4. ASSUME NEW a \in Assets PROVE gross * balances[a] <= deposits[a] * sup
    <2>1. gross * balances[a] <= leg(a) * balances[a]
      <3>1. gross <= leg(a) /\ leg(a) \in Nat /\ balances[a] \in Nat
        BY <1>1, <1>2
      <3> HIDE DEF leg
      <3>2. QED
        BY <3>1, <1>3
    <2>2. leg(a) * balances[a] \in Nat /\ gross * balances[a] \in Nat /\ deposits[a] * sup \in Nat
      BY <1>2, <1>3
    <2> HIDE DEF leg
    <2>3. QED
      BY <2>1, <2>2, <1>2
  <1>5. QED
    BY <1>1, <1>3, <1>4

(***************************************************************************)
(* Steps that move shares or tokens and leave the proposals alone          *)
(***************************************************************************)
\* What is known of the parts that such steps change.
LEMMA ShareTypes ==
    ASSUME TypeOK
    PROVE  /\ U64_MAX \in Nat /\ supply \in Nat /\ supply <= U64_MAX
           /\ vault \in [Assets -> Nat] /\ \A a \in Assets : vault[a] <= U64_MAX
           /\ shares \in [Holders -> Nat]
  BY MathAssumption DEF TypeOK

Untouched == UNCHANGED <<basket_vars, proposals>>

\* An account that exists holds a proposal.
LEMMA AccountTyped ==
    ASSUME ManagedInv, NEW n \in Nonces, Exists(n)
    PROVE  proposals[n] \in Proposal
  BY DEF ManagedInv, TypeOK, NoAccount, Exists

LEMMA ProposalsUntouched ==
    ASSUME ManagedInv, Untouched
    PROVE  ProposalInv' /\ TermsKept
  <1>1. ProposalInv'
    BY DEF ManagedInv, ProposalInv, Untouched, basket_vars, OneLiveProposal, NoncesUnused,
           LiveIsCurrent, NoticeGiven, Live, Exists
  <1>2. TermsKept
    BY AccountTyped DEF Exists, TermsKept, Untouched, Proposal
  <1>3. QED
    BY <1>1, <1>2

\* A step that leaves balances and supply alone dilutes nobody and trades nothing.
LEMMA SharesUntouched ==
    ASSUME ManagedInv, vault' = vault, supply' = supply
    PROVE  BackedShares' /\ BackingPerShareKept /\ AnnouncedTrade
  BY ShareTypes DEF ManagedInv, BackedShares, BackingPerShareKept, AnnouncedTrade

LEMMA MintStep ==
    ASSUME ManagedInv, NEW h \in Holders, NEW deposits \in [Assets -> Amounts],
           MintInKind(h, deposits)
    PROVE  ManagedInv' /\ StepOK
  <1>1. deposits \in [Assets -> Nat]
    BY TimingAssumption
  <1>2. PICK minted \in GrossShares(deposits, vault, supply) :
          /\ supply + minted <= U64_MAX
          /\ supply' = supply + minted
          /\ shares' = [shares EXCEPT ![h] = @ + minted]
    BY DEF MintInKind
  <1>3. /\ supply > 0 /\ minted \in Nat \ {0}
        /\ \A a \in Assets : /\ vault[a] > 0 /\ deposits[a] > 0
                             /\ minted * vault[a] <= deposits[a] * supply
    BY <1>1, ShareTypes, GrossSharesPriced DEF ManagedInv
  <1>4. /\ \A a \in Assets : vault[a] + deposits[a] <= U64_MAX
        /\ vault' = [a \in Assets |-> vault[a] + deposits[a]]
        /\ Untouched /\ slot' = slot
    BY DEF MintInKind, Untouched
  <1>5. supply' \in 0..U64_MAX /\ shares' \in [Holders -> Nat]
    BY <1>2, <1>3, ShareTypes DEF ManagedInv
  <1>6. vault' \in [Assets -> 0..U64_MAX] /\ \A a \in Assets : vault'[a] > 0
    BY <1>1, <1>3, <1>4, ShareTypes DEF ManagedInv
  <1>7. TypeOK' /\ BackedShares'
    BY <1>4, <1>5, <1>6 DEF ManagedInv, TypeOK, BackedShares, Untouched, basket_vars
  <1>8. BackingPerShareKept
    <2>1. ASSUME NEW a \in Assets PROVE vault'[a] * supply >= vault[a] * supply'
      <3>1. /\ vault[a] \in Nat /\ deposits[a] \in Nat /\ supply \in Nat /\ minted \in Nat
            /\ vault'[a] = vault[a] + deposits[a]
        BY <1>1, <1>3, <1>4, ShareTypes DEF ManagedInv
      <3>2. /\ vault'[a] * supply = vault[a] * supply + deposits[a] * supply
            /\ vault[a] * supply' = vault[a] * supply + minted * vault[a]
        BY <1>2, <3>1
      <3>3. QED
        BY <1>3, <3>1, <3>2
    <2>2. QED
      BY <2>1 DEF BackingPerShareKept
  <1>9. AnnouncedTrade
    <2>1. supply' # supply
      BY <1>2, <1>3, ShareTypes DEF ManagedInv
    <2>2. QED
      BY <2>1 DEF AnnouncedTrade
  <1>10. QED
    BY <1>4, <1>7, <1>8, <1>9, ProposalsUntouched DEF ManagedInv, StepOK

LEMMA RedeemStep ==
    ASSUME ManagedInv, NEW h \in Holders, NEW n \in Nat, RedeemInKind(h, n)
    PROVE  ManagedInv' /\ StepOK
  <1>1. /\ 0 < n /\ n <= shares[h] /\ n <= supply
        /\ vault' = [a \in Assets |-> vault[a] - RedeemAmount(vault[a], n, supply)]
        /\ supply' = supply - n
        /\ shares' = [shares EXCEPT ![h] = @ - n]
        /\ Untouched /\ slot' = slot
    BY DEF RedeemInKind, MayRedeem, AmountsOut, Untouched
  <1>2. ASSUME NEW a \in Assets
        PROVE  /\ vault'[a] \in 0..vault[a]
               /\ vault'[a] * supply >= vault[a] * supply'
               /\ n < supply => vault'[a] > 0
    <2> DEFINE out == RedeemAmount(vault[a], n, supply)
    <2>1. vault[a] \in Nat /\ supply \in Nat /\ supply > 0 /\ n \in 0..supply
      BY <1>1, ShareTypes DEF ManagedInv
    <2>2. /\ out \in 0..vault[a]
          /\ out * supply <= vault[a] * n
          /\ n < supply /\ vault[a] > 0 => out < vault[a]
      BY <2>1, ProRata DEF RedeemAmount
    <2>3. vault'[a] = vault[a] - out /\ supply' = supply - n
      BY <1>1
    <2>4. vault[a] > 0
      BY <2>1 DEF ManagedInv, BackedShares
    <2> HIDE DEF out
    <2>5. /\ vault'[a] * supply = vault[a] * supply - out * supply
          /\ vault[a] * supply' = vault[a] * supply - vault[a] * n
      BY <2>1, <2>2, <2>3
    <2>6. QED
      BY <2>1, <2>2, <2>3, <2>4, <2>5
  <1>3. supply' \in 0..U64_MAX /\ shares' \in [Holders -> Nat]
    BY <1>1, ShareTypes DEF ManagedInv
  <1>4. vault' \in [Assets -> 0..U64_MAX]
    BY <1>1, <1>2, ShareTypes DEF ManagedInv
  <1>5. TypeOK' /\ BackedShares'
    <2>1. supply' > 0 => n < supply
      BY <1>1, ShareTypes DEF ManagedInv
    <2>2. BackedShares'
      BY <1>2, <2>1 DEF BackedShares
    <2>3. QED
      BY <1>1, <1>3, <1>4, <2>2 DEF ManagedInv, TypeOK, Untouched, basket_vars
  <1>6. AnnouncedTrade
    <2>1. supply' # supply
      BY <1>1, ShareTypes DEF ManagedInv
    <2>2. QED
      BY <2>1 DEF AnnouncedTrade
  <1>7. QED
    BY <1>1, <1>2, <1>5, <1>6, ProposalsUntouched DEF ManagedInv, StepOK, BackingPerShareKept

LEMMA DonateStep ==
    ASSUME ManagedInv, NEW a \in Assets, NEW amount \in Amounts, Donate(a, amount)
    PROVE  ManagedInv' /\ StepOK
  <1>1. /\ vault[a] + amount <= U64_MAX
        /\ vault' = [vault EXCEPT ![a] = @ + amount]
        /\ supply' = supply /\ shares' = shares /\ slot' = slot /\ Untouched
    BY DEF Donate, Untouched
  <1>2. amount \in Nat
    BY TimingAssumption
  <1>3. vault' \in [Assets -> 0..U64_MAX] /\ \A b \in Assets : vault'[b] >= vault[b]
    BY <1>1, <1>2, ShareTypes DEF ManagedInv
  <1>4. BackedShares'
    BY <1>1, <1>3, ShareTypes DEF ManagedInv, BackedShares
  <1>5. BackingPerShareKept /\ AnnouncedTrade
    BY <1>1, <1>3, ShareTypes DEF ManagedInv, BackingPerShareKept, AnnouncedTrade
  <1>6. TypeOK'
    BY <1>1, <1>3 DEF ManagedInv, TypeOK, Untouched, basket_vars
  <1>7. QED
    BY <1>1, <1>4, <1>5, <1>6, ProposalsUntouched DEF ManagedInv, StepOK

LEMMA TransferStep ==
    ASSUME ManagedInv, NEW from \in Holders, NEW to \in Holders, NEW n \in Nat,
           TransferShares(from, to, n)
    PROVE  ManagedInv' /\ StepOK
  <1>1. /\ n <= shares[from]
        /\ shares' = [[shares EXCEPT ![from] = @ - n] EXCEPT ![to] = @ + n]
        /\ vault' = vault /\ supply' = supply /\ slot' = slot /\ Untouched
    BY DEF TransferShares, Untouched
  <1>2. shares' \in [Holders -> Nat]
    <2>1. [shares EXCEPT ![from] = @ - n] \in [Holders -> Nat]
      BY <1>1, ShareTypes DEF ManagedInv
    <2>2. QED
      BY <1>1, <2>1
  <1>3. TypeOK'
    BY <1>1, <1>2 DEF ManagedInv, TypeOK, Untouched, basket_vars
  <1>4. QED
    BY <1>1, <1>3, SharesUntouched, ProposalsUntouched DEF ManagedInv, StepOK

\* Burned shares leave their backing to the others.
LEMMA BurnStep ==
    ASSUME ManagedInv, NEW h \in Holders, NEW n \in 1..U64_MAX, BurnShares(h, n)
    PROVE  ManagedInv' /\ StepOK
  <1>1. /\ n \in Nat /\ n > 0 /\ n <= shares[h] /\ n <= supply
        /\ supply' = supply - n
        /\ shares' = [shares EXCEPT ![h] = @ - n]
        /\ vault' = vault /\ slot' = slot /\ Untouched
    BY MathAssumption DEF BurnShares, Untouched
  <1>2. /\ supply' \in 0..U64_MAX /\ supply' < supply
        /\ shares' \in [Holders -> Nat]
    BY <1>1, ShareTypes DEF ManagedInv
  <1>3. TypeOK'
    BY <1>1, <1>2 DEF ManagedInv, TypeOK, Untouched, basket_vars
  <1>4. BackedShares'
    BY <1>1, <1>2, ShareTypes DEF ManagedInv, BackedShares
  <1>5. BackingPerShareKept
    <2>1. ASSUME NEW a \in Assets PROVE vault'[a] * supply >= vault[a] * supply'
      <3>1. vault'[a] = vault[a] /\ vault[a] \in Nat /\ supply \in Nat /\ supply' \in Nat
        BY <1>1, <1>2, ShareTypes DEF ManagedInv
      <3>2. QED
        BY <1>2, <3>1
    <2>2. QED
      BY <2>1 DEF BackingPerShareKept
  <1>6. AnnouncedTrade
    <2>1. supply' # supply
      BY <1>2, ShareTypes DEF ManagedInv
    <2>2. QED
      BY <2>1 DEF AnnouncedTrade
  <1>7. QED
    BY <1>1, <1>3, <1>4, <1>5, <1>6, ProposalsUntouched DEF ManagedInv, StepOK

LEMMA TickStep ==
    ASSUME ManagedInv, Tick
    PROVE  ManagedInv' /\ StepOK
  <1>1. /\ slot' \in 0..MaxSlot
        /\ vault' = vault /\ supply' = supply /\ shares' = shares /\ Untouched
    BY TimingAssumption DEF ManagedInv, TypeOK, Tick, Untouched
  <1>2. TypeOK'
    BY <1>1 DEF ManagedInv, TypeOK, Untouched, basket_vars
  <1>3. QED
    BY <1>1, <1>2, SharesUntouched, ProposalsUntouched DEF ManagedInv, StepOK

(***************************************************************************)
(* Steps of a proposal                                                     *)
(***************************************************************************)
LEMMA ProposeStep ==
    ASSUME ManagedInv, NEW who \in Actors, NEW nonce \in Nonces, NEW ver \in 0..MaxNonce,
           NEW w \in ValidWeights, NEW input \in Assets, NEW max_input \in Amounts,
           ProposeRebalance(who, nonce, ver, w, input, max_input)
    PROVE  ManagedInv' /\ StepOK
  <1> DEFINE new == [status |-> "PENDING_APPROVAL", base_version |-> ver,
             input |-> input, max_input |-> max_input, min_output |-> 0,
             weights |-> w, deadline |-> slot + APPROVAL_TTL,
             approved_at |-> 0, not_before |-> 0, expires_at |-> 0]
  <1>1. /\ pending_proposal_nonce = None
        /\ nonce = next_proposal_nonce
        /\ ver = allocation_version
        /\ proposals' = [proposals EXCEPT ![nonce] = new]
        /\ pending_proposal_nonce' = nonce
        /\ next_proposal_nonce' = next_proposal_nonce + 1
        /\ vault' = vault /\ supply' = supply /\ shares' = shares
        /\ target_weights_bps' = target_weights_bps
        /\ allocation_version' = allocation_version /\ slot' = slot
    BY DEF ProposeRebalance, NextNonce
  <1>2. new \in Proposal
    BY TimingAssumption DEF ManagedInv, TypeOK, Proposal, Status, LiveStatus
  <1> HIDE DEF new
  <1>3. /\ proposals' \in [Nonces -> Proposal \cup {NoAccount}]
        /\ \A n \in Nonces : proposals'[n] = IF n = nonce THEN new ELSE proposals[n]
    BY <1>1, <1>2 DEF ManagedInv, TypeOK
  <1>4. TypeOK'
    <2>1. next_proposal_nonce' \in 0..MaxNonce
      BY <1>1, TimingAssumption DEF ManagedInv, TypeOK, Nonces
    <2>2. QED
      BY <1>1, <1>3, <2>1 DEF ManagedInv, TypeOK
  <1>5. \A n \in Nonces : ~Live(n)
    BY <1>1, InitialAssumption DEF ManagedInv, ProposalInv, OneLiveProposal, Nonces
  <1>6. new.status = "PENDING_APPROVAL" /\ new.base_version = allocation_version
    BY <1>1 DEF new
  <1>7. OneLiveProposal' /\ LiveIsCurrent' /\ NoticeGiven'
    BY <1>1, <1>3, <1>5, <1>6
       DEF ManagedInv, ProposalInv, OneLiveProposal, LiveIsCurrent, NoticeGiven, Live, LiveStatus
  <1>8. NoncesUnused'
    BY <1>1, <1>3, <1>6 DEF ManagedInv, TypeOK, ProposalInv, NoncesUnused, Exists, Nonces
  <1>9. TermsKept
    BY <1>3, <1>5, AccountTyped DEF TermsKept, Exists, Live, LiveStatus, Proposal
  <1>10. QED
    BY <1>1, <1>4, <1>7, <1>8, <1>9, SharesUntouched DEF ManagedInv, ProposalInv, StepOK

\* Pricing an account keeps its type and the version it was made against.
LEMMA ApprovedTyped ==
    ASSUME slot \in Nat, NEW p \in Proposal, NEW bound \in Nat
    PROVE  /\ Approved(p, bound) \in Proposal /\ Approved(p, bound).status = "APPROVED"
           /\ Approved(p, bound).base_version = p.base_version
           /\ Approved(p, bound).not_before = Approved(p, bound).approved_at + NOTICE_DURATION
  <1>1. slot + NOTICE_DURATION \in Nat /\ slot + NOTICE_DURATION + EXECUTION_WINDOW \in Nat
    BY TimingAssumption
  <1>2. Approved(p, bound) \in Proposal
    BY <1>1 DEF Approved, Proposal, Status, LiveStatus
  <1>3. /\ Approved(p, bound).status = "APPROVED"
        /\ Approved(p, bound).base_version = p.base_version
    BY <1>1 DEF Approved, Proposal
  <1>4. Approved(p, bound).approved_at = slot
    BY <1>1 DEF Approved, Proposal
  <1>5. Approved(p, bound).not_before = slot + NOTICE_DURATION
    BY <1>1 DEF Approved, Proposal
  <1>6. QED
    BY <1>2, <1>3, <1>4, <1>5

LEMMA ApproveStep ==
    ASSUME ManagedInv, NEW who \in Actors, NEW nonce \in Nonces, NEW min_output \in Amounts,
           ApprovePriceBound(who, nonce, min_output)
    PROVE  ManagedInv' /\ StepOK
  <1> DEFINE priced == Approved(proposals[nonce], min_output)
  <1>1. /\ pending_proposal_nonce = nonce
        /\ proposals[nonce].status = "PENDING_APPROVAL"
        /\ proposals' = [proposals EXCEPT ![nonce] = priced]
        /\ vault' = vault /\ supply' = supply /\ shares' = shares
        /\ UNCHANGED basket_vars /\ slot' = slot
    BY DEF ApprovePriceBound
  <1>2. proposals[nonce] \in Proposal
    BY <1>1, AccountTyped DEF Exists
  <1>3. /\ priced \in Proposal /\ priced.status = "APPROVED"
        /\ priced.base_version = proposals[nonce].base_version
        /\ priced.not_before = priced.approved_at + NOTICE_DURATION
    <2>1. slot \in Nat /\ min_output \in Nat
      BY TimingAssumption DEF ManagedInv, TypeOK
    <2>2. QED
      BY <1>2, <2>1, ApprovedTyped
  <1> HIDE DEF priced
  <1>4. /\ proposals' \in [Nonces -> Proposal \cup {NoAccount}]
        /\ \A n \in Nonces : proposals'[n] = IF n = nonce THEN priced ELSE proposals[n]
    BY <1>1, <1>3 DEF ManagedInv, TypeOK
  <1>5. TypeOK'
    BY <1>1, <1>4 DEF ManagedInv, TypeOK, basket_vars
  <1>6. ProposalInv'
    BY <1>1, <1>3, <1>4
       DEF ManagedInv, ProposalInv, OneLiveProposal, NoncesUnused, LiveIsCurrent, NoticeGiven,
           Live, LiveStatus, Exists, basket_vars
  <1>7. TermsKept
    BY <1>1, <1>4, AccountTyped DEF TermsKept, Exists, Proposal
  <1>8. QED
    BY <1>1, <1>5, <1>6, <1>7, SharesUntouched DEF ManagedInv, StepOK

\* The two instructions that give a proposal up.
LEMMA CloseStep ==
    ASSUME ManagedInv, NEW nonce \in Nonces, NEW status \in {"CANCELLED", "EXPIRED"},
           Close(nonce, status)
    PROVE  ManagedInv' /\ StepOK
  <1> DEFINE closed == [proposals[nonce] EXCEPT !.status = status]
  <1>1. /\ pending_proposal_nonce = nonce /\ Live(nonce)
        /\ proposals' = [proposals EXCEPT ![nonce] = closed]
        /\ pending_proposal_nonce' = None
        /\ vault' = vault /\ supply' = supply /\ shares' = shares
        /\ target_weights_bps' = target_weights_bps
        /\ allocation_version' = allocation_version
        /\ next_proposal_nonce' = next_proposal_nonce /\ slot' = slot
    BY DEF Close, PendingPair
  <1>2. proposals[nonce] \in Proposal /\ Exists(nonce)
    BY <1>1, AccountTyped DEF Live, LiveStatus, Exists
  <1>3. closed \in Proposal /\ closed.status = status
    BY <1>2 DEF Proposal, Status
  <1>4. /\ proposals' \in [Nonces -> Proposal \cup {NoAccount}]
        /\ \A n \in Nonces : proposals'[n] = IF n = nonce THEN closed ELSE proposals[n]
    BY <1>1, <1>3 DEF ManagedInv, TypeOK
  <1>5. TypeOK'
    BY <1>1, <1>4 DEF ManagedInv, TypeOK
  <1>6. ProposalInv'
    <2>1. \A n \in Nonces : n # None
      BY InitialAssumption DEF Nonces
    <2>2. \A n \in Nonces : ~Live(n)'
      BY <1>1, <1>3, <1>4 DEF ManagedInv, ProposalInv, OneLiveProposal, Live, LiveStatus
    <2>3. OneLiveProposal' /\ LiveIsCurrent'
      BY <1>1, <2>1, <2>2 DEF OneLiveProposal, LiveIsCurrent, Live
    <2>4. NoncesUnused' /\ NoticeGiven'
      BY <1>1, <1>2, <1>3, <1>4 DEF ManagedInv, ProposalInv, NoncesUnused, NoticeGiven, Exists
    <2>5. QED
      BY <2>3, <2>4 DEF ProposalInv
  <1>7. TermsKept
    BY <1>3, <1>4, AccountTyped DEF TermsKept, Exists, Proposal
  <1>8. QED
    BY <1>1, <1>5, <1>6, <1>7, SharesUntouched DEF ManagedInv, StepOK

LEMMA FillStep ==
    ASSUME ManagedInv, NEW nonce \in Nonces, NEW input_raw \in Amounts, NEW output_raw \in Amounts,
           FillRebalance(nonce, input_raw, output_raw)
    PROVE  ManagedInv' /\ StepOK
  <1> DEFINE p == proposals[nonce]
             output == Other(p.input)
             filled == Executed(p)
  <1>1. /\ pending_proposal_nonce = nonce /\ p.status = "APPROVED"
        /\ p.not_before <= slot
        /\ input_raw = p.max_input /\ output_raw >= p.min_output
        /\ vault[p.input] > p.max_input
        /\ vault[output] + output_raw <= U64_MAX
        /\ vault' = [vault EXCEPT ![p.input] = @ - input_raw, ![output] = @ + output_raw]
        /\ target_weights_bps' = p.weights
        /\ allocation_version' = allocation_version + 1
        /\ pending_proposal_nonce' = None
        /\ proposals' = [proposals EXCEPT ![nonce] = filled]
        /\ supply' = supply /\ shares' = shares
        /\ next_proposal_nonce' = next_proposal_nonce /\ slot' = slot
    BY DEF FillRebalance, InWindow, LeavesBothLegs, NextVersion
  <1>2. p \in Proposal /\ Exists(nonce) /\ Live(nonce)
    BY <1>1, AccountTyped DEF Live, LiveStatus, Exists
  <1>3. filled \in Proposal /\ filled.status = "EXECUTED"
    BY <1>2 DEF Proposal, Status, Executed
  <1>4. output \in Assets /\ output # p.input /\ Assets = {p.input, output} /\ p.input \in Assets
    BY <1>2, OtherAsset DEF Proposal
  <1>5. /\ proposals' \in [Nonces -> Proposal \cup {NoAccount}]
        /\ \A n \in Nonces : proposals'[n] = IF n = nonce THEN filled ELSE proposals[n]
    BY <1>1, <1>3 DEF ManagedInv, TypeOK
  <1>6. /\ input_raw \in Nat \ {0} /\ output_raw \in Nat \ {0}
        /\ p.weights \in ValidWeights
        /\ p.not_before = p.approved_at + NOTICE_DURATION
    BY <1>1, <1>2, TimingAssumption DEF ManagedInv, ProposalInv, NoticeGiven, Proposal
  <1> HIDE DEF p, output, filled
  <1>7. /\ vault'[p.input] = vault[p.input] - input_raw
        /\ vault'[output] = vault[output] + output_raw
        /\ vault' \in [Assets -> 0..U64_MAX]
        /\ vault'[p.input] > 0 /\ vault'[output] > 0
    <2>1. vault[p.input] \in Nat /\ vault[output] \in Nat /\ vault[p.input] <= U64_MAX /\ U64_MAX \in Nat
      BY <1>4, ShareTypes DEF ManagedInv
    <2>2. vault'[p.input] = vault[p.input] - input_raw /\ vault'[output] = vault[output] + output_raw
      BY <1>1, <1>4, ShareTypes DEF ManagedInv
    <2>3. vault'[p.input] \in 0..U64_MAX /\ vault'[output] \in 0..U64_MAX
      BY <1>1, <1>6, <2>1, <2>2
    <2>4. DOMAIN vault' = Assets /\ vault' = [a \in Assets |-> vault'[a]]
      BY <1>1, ShareTypes DEF ManagedInv
    <2>5. QED
      BY <1>1, <1>4, <1>6, <2>1, <2>2, <2>3, <2>4
  <1>8. TypeOK'
    BY <1>1, <1>5, <1>6, <1>7 DEF ManagedInv, TypeOK
  <1>9. BackedShares'
    BY <1>4, <1>7 DEF BackedShares
  <1>10. ProposalInv'
    <2>1. \A n \in Nonces : n # None
      BY InitialAssumption DEF Nonces
    <2>2. \A n \in Nonces : ~Live(n)'
      BY <1>1, <1>3, <1>5 DEF ManagedInv, ProposalInv, OneLiveProposal, Live, LiveStatus
    <2>3. OneLiveProposal' /\ LiveIsCurrent'
      BY <1>1, <2>1, <2>2 DEF OneLiveProposal, LiveIsCurrent, Live
    <2>4. NoncesUnused' /\ NoticeGiven'
      BY <1>1, <1>2, <1>3, <1>5 DEF ManagedInv, ProposalInv, NoncesUnused, NoticeGiven, Exists
    <2>5. QED
      BY <2>3, <2>4 DEF ProposalInv
  <1>11. TermsKept
    BY <1>2, <1>3, <1>5, AccountTyped DEF TermsKept, Exists, Proposal, filled, p, Executed
  <1>12. AnnouncedTrade
    <2>1. slot >= p.approved_at + NOTICE_DURATION
      BY <1>1, <1>6
    <2>2. p.status = "APPROVED" /\ proposals'[nonce].status = "EXECUTED"
      BY <1>1, <1>3, <1>5
    <2>3. vault'[output] >= vault[output] + p.min_output
      BY <1>1, <1>2, <1>4, <1>6, <1>7, ShareTypes DEF ManagedInv, Proposal
    <2>4. QED
      BY <1>1, <1>7, <2>1, <2>2, <2>3 DEF AnnouncedTrade, p, output
  <1>13. BackingPerShareKept
    BY <1>1 DEF BackingPerShareKept
  <1>14. QED
    BY <1>8, <1>9, <1>10, <1>11, <1>12, <1>13 DEF ManagedInv, StepOK

LEMMA StutterStep ==
    ASSUME ManagedInv, UNCHANGED vars
    PROVE  ManagedInv' /\ StepOK
  <1>1. /\ vault' = vault /\ supply' = supply /\ shares' = shares /\ slot' = slot
        /\ Untouched
    BY DEF vars, Untouched
  <1>2. TypeOK'
    BY <1>1 DEF ManagedInv, TypeOK, Untouched, basket_vars
  <1>3. QED
    BY <1>1, <1>2, SharesUntouched, ProposalsUntouched DEF ManagedInv, StepOK

(***************************************************************************)
(* The invariant and what follows from it                                  *)
(***************************************************************************)
LEMMA InitInv ==
    ASSUME Init
    PROVE  ManagedInv
  <1>1. TypeOK
    <2>1. shares \in [Holders -> Nat]
      BY InitialAssumption, MathAssumption DEF Init
    <2>2. vault \in [Assets -> 0..U64_MAX] /\ supply \in 0..U64_MAX
      BY InitialAssumption, MathAssumption DEF Init
    <2>3. QED
      BY <2>1, <2>2, InitialAssumption, TimingAssumption DEF Init, TypeOK
  <1>2. \A n \in Nonces : ~Exists(n) /\ ~Live(n) /\ proposals[n].status # "APPROVED"
    BY DEF Init, Exists, Live, LiveStatus, NoAccount
  <1>3. ProposalInv
    <2>1. \A n \in Nonces : n # pending_proposal_nonce /\ ~(n < next_proposal_nonce)
      BY InitialAssumption, TimingAssumption DEF Init, Nonces
    <2>2. QED
      BY <1>2, <2>1 DEF ProposalInv, OneLiveProposal, NoncesUnused, LiveIsCurrent, NoticeGiven
  <1>4. BackedShares
    BY InitialAssumption, MathAssumption DEF Init, BackedShares
  <1>5. QED
    BY <1>1, <1>3, <1>4 DEF ManagedInv

LEMMA EveryStep ==
    ASSUME ManagedInv, [Next]_vars
    PROVE  ManagedInv' /\ StepOK
  <1>0. U64_MAX \in Nat
    BY MathAssumption
  <1>1. ASSUME NEW h \in Holders, NEW deposits \in [Assets -> Amounts], MintInKind(h, deposits)
        PROVE  ManagedInv' /\ StepOK
    BY <1>1, MintStep
  <1>2. ASSUME NEW h \in Holders, NEW n \in 1..U64_MAX, RedeemInKind(h, n)
        PROVE  ManagedInv' /\ StepOK
    <2>1. n \in Nat
      BY <1>0
    <2>2. QED
      BY <1>2, <2>1, RedeemStep
  <1>3. ASSUME NEW who \in Actors, NEW nonce \in Nonces, NEW ver \in 0..MaxNonce,
               NEW w \in ValidWeights, NEW input \in Assets, NEW max_input \in Amounts,
               ProposeRebalance(who, nonce, ver, w, input, max_input)
        PROVE  ManagedInv' /\ StepOK
    BY <1>3, ProposeStep
  <1>4. ASSUME NEW who \in Actors, NEW nonce \in Nonces, NEW min_output \in Amounts,
               ApprovePriceBound(who, nonce, min_output)
        PROVE  ManagedInv' /\ StepOK
    BY <1>4, ApproveStep
  <1>5. ASSUME NEW who \in Actors, NEW nonce \in Nonces, CancelRebalance(who, nonce)
        PROVE  ManagedInv' /\ StepOK
    BY <1>5, CloseStep DEF CancelRebalance
  <1>6. ASSUME NEW nonce \in Nonces, ExpireRebalance(nonce)
        PROVE  ManagedInv' /\ StepOK
    BY <1>6, CloseStep DEF ExpireRebalance
  <1>7. ASSUME NEW nonce \in Nonces, NEW input_raw \in Amounts, NEW output_raw \in Amounts,
               FillRebalance(nonce, input_raw, output_raw)
        PROVE  ManagedInv' /\ StepOK
    BY <1>7, FillStep
  <1>8. ASSUME NEW a \in Assets, NEW amount \in Amounts, Donate(a, amount)
        PROVE  ManagedInv' /\ StepOK
    BY <1>8, DonateStep
  <1>9. ASSUME NEW from \in Holders, NEW to \in Holders, NEW n \in 0..U64_MAX,
               TransferShares(from, to, n)
        PROVE  ManagedInv' /\ StepOK
    <2>1. n \in Nat
      BY <1>0
    <2>2. QED
      BY <1>9, <2>1, TransferStep
  <1>10. ASSUME NEW h \in Holders, NEW n \in 1..U64_MAX, BurnShares(h, n)
         PROVE  ManagedInv' /\ StepOK
    BY <1>10, BurnStep
  <1>11. QED
    BY <1>1, <1>2, <1>3, <1>4, <1>5, <1>6, <1>7, <1>8, <1>9, <1>10, TickStep, StutterStep
    DEF Next

\* The inductive invariant holds in every reachable state.
THEOREM ManagedInvariance == Spec => []ManagedInv
  <1>1. Init => ManagedInv
    BY InitInv
  <1>2. ManagedInv /\ [Next]_vars => ManagedInv'
    BY EveryStep
  <1>3. QED
    BY <1>1, <1>2, PTL DEF Spec

\* Every variable keeps its type, so no checked u64 addition of the program
\* stores a value outside its width.
THEOREM TypeCorrect == Spec => []TypeOK
  BY ManagedInvariance, PTL DEF ManagedInv

\* No sequence of mints, redemptions and fills empties a leg under live shares.
THEOREM BackedSharesHolds == Spec => []BackedShares
  BY ManagedInvariance, PTL DEF ManagedInv

\* Rounding in mint_in_kind and redeem_in_kind is never to the cost of the
\* shares that stay.
THEOREM NoDilutionHolds == Spec => NoDilution
  <1>1. ManagedInv /\ [Next]_vars => BackingPerShareKept
    BY EveryStep DEF StepOK
  <1>2. QED
    BY <1>1, ManagedInvariance, PTL DEF Spec, NoDilution

\* The terms the guardian approved never change, and tokens leave the vault, other
\* than to a redeemer, only by the trade with those terms, after its notice.
THEOREM TradesAsAnnouncedHold == Spec => TradesAsAnnounced
  <1>1. ManagedInv /\ [Next]_vars => TermsKept /\ AnnouncedTrade
    BY EveryStep DEF StepOK
  <1>2. QED
    BY <1>1, ManagedInvariance, PTL DEF Spec, TradesAsAnnounced

-----------------------------------------------------------------------------
(***************************************************************************)
(* Exits.  A balance is a part of the supply, because the balances add up  *)
(* to it; so its owner can always burn it, and is paid something wherever  *)
(* the pro-rata part is a raw unit.                                        *)
(***************************************************************************)
LEMMA MintConserves ==
    ASSUME ManagedInv, SharesConserved, NEW h \in Holders,
           NEW deposits \in [Assets -> Amounts], MintInKind(h, deposits)
    PROVE  SharesConserved'
  <1>1. deposits \in [Assets -> Nat]
    BY TimingAssumption
  <1>2. PICK minted \in GrossShares(deposits, vault, supply) :
          /\ supply' = supply + minted
          /\ shares' = [shares EXCEPT ![h] = @ + minted]
    BY DEF MintInKind
  <1>3. minted \in Nat
    BY <1>1, ShareTypes, GrossSharesPriced DEF ManagedInv
  <1>4. /\ shares \in [Holders -> Nat] /\ shares' \in [Holders -> Nat]
        /\ shares'[h] = shares[h] + minted
        /\ \A x \in Holders : x # h => shares'[x] = shares[x]
    BY <1>2, <1>3, ShareTypes DEF ManagedInv
  <1>5. IsFiniteSet(Holders)
    BY RolesAssumption
  <1>6. Total(shares') = Total(shares) + minted
    BY <1>3, <1>4, <1>5, TotalCredit
  <1>7. QED
    BY <1>2, <1>6 DEF SharesConserved

LEMMA RedeemConserves ==
    ASSUME ManagedInv, SharesConserved, NEW h \in Holders, NEW n \in Nat,
           RedeemInKind(h, n)
    PROVE  SharesConserved'
  <1>1. /\ n <= shares[h] /\ supply' = supply - n
        /\ shares' = [shares EXCEPT ![h] = @ - n]
    BY DEF RedeemInKind, MayRedeem
  <1>2. /\ shares \in [Holders -> Nat] /\ shares' \in [Holders -> Nat]
        /\ n <= shares[h] /\ shares'[h] = shares[h] - n
        /\ \A x \in Holders : x # h => shares'[x] = shares[x]
    BY <1>1, ShareTypes DEF ManagedInv
  <1>3. IsFiniteSet(Holders)
    BY RolesAssumption
  <1>4. Total(shares') = Total(shares) - n
    BY <1>2, <1>3, TotalDebit
  <1>5. QED
    BY <1>1, <1>4 DEF SharesConserved

LEMMA TransferConserves ==
    ASSUME ManagedInv, SharesConserved, NEW from \in Holders, NEW to \in Holders,
           NEW n \in Nat, TransferShares(from, to, n)
    PROVE  SharesConserved'
  <1> DEFINE paid == [shares EXCEPT ![from] = @ - n]
  <1>1. /\ n <= shares[from] /\ supply' = supply
        /\ shares' = [paid EXCEPT ![to] = @ + n]
        /\ shares \in [Holders -> Nat]
    BY ShareTypes DEF TransferShares, ManagedInv
  <1>2. /\ paid \in [Holders -> Nat]
        /\ paid[from] = shares[from] - n
        /\ \A x \in Holders : x # from => paid[x] = shares[x]
    BY <1>1
  <1> HIDE DEF paid
  <1>3. /\ shares' \in [Holders -> Nat]
        /\ shares'[to] = paid[to] + n
        /\ \A x \in Holders : x # to => shares'[x] = paid[x]
    BY <1>1, <1>2
  <1>4. IsFiniteSet(Holders)
    BY RolesAssumption
  <1>5. Total(paid) = Total(shares) - n
    BY <1>1, <1>2, <1>4, TotalDebit
  <1>6. Total(shares') = Total(paid) + n
    BY <1>2, <1>3, <1>4, TotalCredit
  <1>7. Total(shares) \in Nat
    BY <1>1, <1>4, TotalType
  <1>8. QED
    BY <1>1, <1>5, <1>6, <1>7 DEF SharesConserved

LEMMA BurnConserves ==
    ASSUME ManagedInv, SharesConserved, NEW h \in Holders, NEW n \in Nat,
           BurnShares(h, n)
    PROVE  SharesConserved'
  <1>1. /\ n <= shares[h] /\ supply' = supply - n
        /\ shares' = [shares EXCEPT ![h] = @ - n]
    BY DEF BurnShares
  <1>2. /\ shares \in [Holders -> Nat] /\ shares' \in [Holders -> Nat]
        /\ n <= shares[h] /\ shares'[h] = shares[h] - n
        /\ \A x \in Holders : x # h => shares'[x] = shares[x]
    BY <1>1, ShareTypes DEF ManagedInv
  <1>3. IsFiniteSet(Holders)
    BY RolesAssumption
  <1>4. Total(shares') = Total(shares) - n
    BY <1>2, <1>3, TotalDebit
  <1>5. QED
    BY <1>1, <1>4 DEF SharesConserved

\* No other step touches the share mint or its accounts.
LEMMA EveryStepConserves ==
    ASSUME ManagedInv, SharesConserved, [Next]_vars
    PROVE  SharesConserved'
  <1>0. U64_MAX \in Nat
    BY MathAssumption
  <1>1. ASSUME NEW h \in Holders, NEW deposits \in [Assets -> Amounts], MintInKind(h, deposits)
        PROVE  SharesConserved'
    BY <1>1, MintConserves
  <1>2. ASSUME NEW h \in Holders, NEW n \in 1..U64_MAX, RedeemInKind(h, n)
        PROVE  SharesConserved'
    <2>1. n \in Nat
      BY <1>0
    <2>2. QED
      BY <1>2, <2>1, RedeemConserves
  <1>3. ASSUME NEW from \in Holders, NEW to \in Holders, NEW n \in 0..U64_MAX,
               TransferShares(from, to, n)
        PROVE  SharesConserved'
    <2>1. n \in Nat
      BY <1>0
    <2>2. QED
      BY <1>3, <2>1, TransferConserves
  <1>4. ASSUME NEW h \in Holders, NEW n \in 1..U64_MAX, BurnShares(h, n)
        PROVE  SharesConserved'
    <2>1. n \in Nat
      BY <1>0
    <2>2. QED
      BY <1>4, <2>1, BurnConserves
  <1>5. CASE UNCHANGED <<supply, shares>>
    BY <1>5 DEF SharesConserved
  <1>6. QED
    BY <1>1, <1>2, <1>3, <1>4, <1>5
    DEF Next, vars, ProposeRebalance, ApprovePriceBound, CancelRebalance, ExpireRebalance,
        Close, FillRebalance, Donate, Tick

THEOREM SharesConservedHolds == Spec => []SharesConserved
  <1>1. ASSUME Init PROVE SharesConserved
    <2>1. /\ InitialShares \in Nat /\ Creator \in Holders
          /\ supply = InitialShares /\ shares \in [Holders -> Nat]
          /\ \A h \in Holders : shares[h] = IF h = Creator THEN InitialShares ELSE 0
      BY <1>1, InitialAssumption, RolesAssumption, MathAssumption DEF Init
    <2>2. QED
      BY <2>1, TotalSingle DEF SharesConserved
  <1>2. ManagedInv /\ SharesConserved /\ [Next]_vars => SharesConserved'
    BY EveryStepConserves
  <1>3. QED
    BY <1>1, <1>2, ManagedInvariance, PTL DEF Spec

\* Of every vault that is not smaller than the supply over the balance, the
\* floor division of redeem_in_kind pays at least a unit.
LEMMA ExitPays ==
    ASSUME ManagedInv, SharesConserved, NEW h \in Holders, shares[h] > 0,
           NEW a \in Assets, vault[a] * shares[h] >= supply
    PROVE  MayRedeem(h, shares[h])
  <1> DEFINE n == shares[h]
             x == vault[a] * n
             q == x \div supply
  <1>1. /\ n \in Nat /\ n > 0 /\ supply \in Nat /\ vault[a] \in Nat
        /\ shares \in [Holders -> Nat]
    BY ShareTypes DEF ManagedInv
  <1>2. n <= supply
    BY <1>1, PartOfTotal, RolesAssumption DEF SharesConserved
  <1>3. x \in Nat /\ supply > 0 /\ x >= supply
    BY <1>1, <1>2
  <1> HIDE DEF n, x
  <1>4. q \in Nat /\ x < q * supply + supply
    BY <1>1, <1>3, DivFloor
  <1> HIDE DEF q
  <1>5. q > 0
    BY <1>1, <1>3, <1>4
  <1>6. AmountsOut(n)[a] > 0
    BY <1>5 DEF AmountsOut, RedeemAmount, q, x
  <1>7. QED
    BY <1>1, <1>2, <1>6 DEF MayRedeem, n

\* Whatever the manager and the guardian do, the share accounting and the
\* backing leave every holder a way out.
THEOREM ExitsOpenHold == Spec => []ExitsOpen
  <1>1. ManagedInv /\ SharesConserved => ExitsOpen
    BY ExitPays DEF ExitsOpen, OpenExit, ManagedInv
  <1>2. QED
    BY <1>1, ManagedInvariance, SharesConservedHolds, PTL

-----------------------------------------------------------------------------
(***************************************************************************)
(* Trades are serial.  What filled the allocation so far is a record of    *)
(* the past that only a fill extends: its base version is the current one, *)
(* and its nonce the largest handed out, because a live proposal holds up  *)
(* the next.                                                               *)
(***************************************************************************)
Filled == {n \in Nonces : proposals[n].status = "EXECUTED"}

\* The live proposal is the latest.
LatestLive == \A n \in Nonces : Live(n) => next_proposal_nonce = n + 1

SerialInv == ManagedInv /\ LatestLive /\ FillsAreSerial

\* A step that fills nothing leaves the record of the filled ones as it is.
LEMMA RecordKept ==
    ASSUME FillsAreSerial, Filled' = Filled, allocation_version' = allocation_version,
           \A n \in Filled : proposals'[n].base_version = proposals[n].base_version
    PROVE  FillsAreSerial'
  <1> DEFINE base(n) == proposals[n].base_version
  <1>1. /\ {base(n) : n \in Filled} = 0..allocation_version - 1
        /\ \A m, n \in Filled : m < n => base(m) < base(n)
    BY DEF FillsAreSerial, Filled
  <1>2. \A n \in Filled : base(n)' = base(n)
    OBVIOUS
  <1>3. {base(n)' : n \in Filled'} = 0..allocation_version' - 1
    BY <1>1, <1>2
  <1>4. \A m, n \in Filled' : m < n => base(m)' < base(n)'
    BY <1>1, <1>2
  <1>5. QED
    BY <1>3, <1>4 DEF FillsAreSerial, Filled

LEMMA ProposeSerial ==
    ASSUME SerialInv, NEW who \in Actors, NEW nonce \in Nonces, NEW ver \in 0..MaxNonce,
           NEW w \in ValidWeights, NEW input \in Assets, NEW max_input \in Amounts,
           ProposeRebalance(who, nonce, ver, w, input, max_input)
    PROVE  LatestLive' /\ FillsAreSerial'
  <1>1. /\ \A n \in Nonces : ~Live(n)
        /\ nonce = next_proposal_nonce /\ ~Exists(nonce)
        /\ next_proposal_nonce' = next_proposal_nonce + 1
        /\ allocation_version' = allocation_version
        /\ \A n \in Nonces : n # nonce => proposals'[n] = proposals[n]
        /\ proposals'[nonce].status = "PENDING_APPROVAL"
    BY InitialAssumption
       DEF ProposeRebalance, NextNonce, SerialInv, ManagedInv, TypeOK, ProposalInv,
           OneLiveProposal, Nonces
  <1>2. LatestLive'
    BY <1>1 DEF LatestLive, Live
  <1>3. nonce \notin Filled /\ Filled' = Filled
    BY <1>1 DEF Filled, Exists
  <1>4. \A n \in Filled : proposals'[n].base_version = proposals[n].base_version
    BY <1>1, <1>3 DEF Filled
  <1>5. QED
    BY <1>1, <1>2, <1>3, <1>4, RecordKept DEF SerialInv

\* Pricing, cancelling and expiring change one live account, into one that is
\* not filled, and hand out no nonce.
LEMMA OneLiveChanged ==
    ASSUME SerialInv, NEW nonce \in Nonces, Live(nonce),
           \A n \in Nonces : n # nonce => proposals'[n] = proposals[n],
           proposals'[nonce].status # "EXECUTED",
           UNCHANGED <<allocation_version, next_proposal_nonce>>
    PROVE  LatestLive' /\ FillsAreSerial'
  <1>1. nonce \notin Filled /\ Filled' = Filled
    BY DEF Filled, Live, LiveStatus
  <1>2. \A n \in Filled : proposals'[n].base_version = proposals[n].base_version
    BY <1>1 DEF Filled
  <1>3. LatestLive'
    BY DEF SerialInv, LatestLive, Live
  <1>4. QED
    BY <1>1, <1>2, <1>3, RecordKept DEF SerialInv

LEMMA FillSerial ==
    ASSUME SerialInv, NEW nonce \in Nonces, NEW input_raw \in Amounts, NEW output_raw \in Amounts,
           FillRebalance(nonce, input_raw, output_raw)
    PROVE  LatestLive' /\ FillsAreSerial'
  <1> DEFINE base(n) == proposals[n].base_version
  <1>1. /\ Live(nonce) /\ nonce \notin Filled
        /\ base(nonce) = allocation_version
        /\ allocation_version' = allocation_version + 1
        /\ next_proposal_nonce' = next_proposal_nonce
        /\ \A n \in Nonces : n # nonce => proposals'[n] = proposals[n]
        /\ proposals'[nonce] = Executed(proposals[nonce])
        /\ allocation_version \in Nat
    BY DEF FillRebalance, NextVersion, Live, LiveStatus, Filled, SerialInv, ManagedInv, TypeOK
  <1>2. proposals[nonce] \in Proposal
    BY <1>1, AccountTyped DEF SerialInv, Exists, Live, LiveStatus
  <1>3. proposals'[nonce].status = "EXECUTED" /\ base(nonce)' = base(nonce)
    BY <1>1, <1>2 DEF Executed, Proposal
  <1>4. Filled' = Filled \cup {nonce} /\ \A n \in Filled' : base(n)' = base(n)
    BY <1>1, <1>3 DEF Filled
  <1>5. /\ {base(n) : n \in Filled} = 0..allocation_version - 1
        /\ \A m, n \in Filled : m < n => base(m) < base(n)
    BY DEF SerialInv, FillsAreSerial, Filled
  <1>6. {base(n)' : n \in Filled'} = 0..allocation_version' - 1
    <2>1. {base(n)' : n \in Filled'} = {base(n) : n \in Filled} \cup {allocation_version}
      BY <1>1, <1>4
    <2>2. 0..allocation_version' - 1 = (0..allocation_version - 1) \cup {allocation_version}
      BY <1>1
    <2>3. QED
      BY <1>5, <2>1, <2>2
  <1>7. \A m \in Filled : m < nonce /\ base(m) < base(nonce)
    <2>1. ASSUME NEW m \in Filled PROVE m < nonce
      <3>1. m \in Nonces /\ m < next_proposal_nonce /\ m # nonce
        BY <1>1 DEF SerialInv, ManagedInv, ProposalInv, NoncesUnused, Exists, Filled
      <3>2. next_proposal_nonce = nonce + 1
        BY <1>1 DEF SerialInv, LatestLive
      <3>3. m \in Int /\ nonce \in Int
        BY <3>1 DEF Nonces
      <3>4. QED
        BY <3>1, <3>2, <3>3
    <2>2. \A m \in Filled : base(m) \in 0..allocation_version - 1
      BY <1>5
    <2>3. QED
      BY <1>1, <2>1, <2>2
  <1>8. \A m, n \in Filled' : m < n => base(m)' < base(n)'
    <2>1. ASSUME NEW m \in Filled', NEW n \in Filled', m < n PROVE base(m) < base(n)
      <3>1. m \in Int /\ n \in Int
        BY DEF Filled, Nonces
      <3>2. m \in Filled
        BY <1>4, <1>7, <2>1, <3>1
      <3>3. QED
        BY <1>4, <1>5, <1>7, <2>1, <3>2
    <2>2. QED
      BY <1>4, <2>1
  <1>9. LatestLive'
    BY <1>1, <1>3 DEF SerialInv, LatestLive, Live, LiveStatus
  <1>10. QED
    BY <1>6, <1>8, <1>9 DEF FillsAreSerial, Filled

LEMMA EveryStepSerial ==
    ASSUME SerialInv, [Next]_vars
    PROVE  SerialInv'
  <1>1. ManagedInv'
    BY EveryStep DEF SerialInv
  <1>2. ASSUME UNCHANGED <<basket_vars, proposals>>
        PROVE  LatestLive' /\ FillsAreSerial'
    BY <1>2 DEF SerialInv, LatestLive, FillsAreSerial, Live, basket_vars
  <1>3. ASSUME NEW who \in Actors, NEW nonce \in Nonces, NEW ver \in 0..MaxNonce,
               NEW w \in ValidWeights, NEW input \in Assets, NEW max_input \in Amounts,
               ProposeRebalance(who, nonce, ver, w, input, max_input)
        PROVE  LatestLive' /\ FillsAreSerial'
    BY <1>3, ProposeSerial
  <1>4. ASSUME NEW who \in Actors, NEW nonce \in Nonces, NEW min_output \in Amounts,
               ApprovePriceBound(who, nonce, min_output)
        PROVE  LatestLive' /\ FillsAreSerial'
    <2>1. /\ Live(nonce)
          /\ proposals' = [proposals EXCEPT ![nonce] = Approved(@, min_output)]
          /\ UNCHANGED <<allocation_version, next_proposal_nonce>>
      BY <1>4 DEF ApprovePriceBound, Live, LiveStatus, basket_vars
    <2>2. proposals[nonce] \in Proposal
      BY <2>1, AccountTyped DEF SerialInv, Exists, Live, LiveStatus
    <2>3. /\ proposals'[nonce].status # "EXECUTED"
          /\ \A n \in Nonces : n # nonce => proposals'[n] = proposals[n]
      BY <2>1, <2>2 DEF Approved, Proposal, SerialInv, ManagedInv, TypeOK
    <2>4. QED
      BY <2>1, <2>3, OneLiveChanged
  <1>5. ASSUME NEW nonce \in Nonces, NEW status \in {"CANCELLED", "EXPIRED"}, Close(nonce, status)
        PROVE  LatestLive' /\ FillsAreSerial'
    <2>1. /\ Live(nonce)
          /\ proposals' = [proposals EXCEPT ![nonce].status = status]
          /\ UNCHANGED <<allocation_version, next_proposal_nonce>>
      BY <1>5 DEF Close, PendingPair
    <2>2. proposals[nonce] \in Proposal
      BY <2>1, AccountTyped DEF SerialInv, Exists, Live, LiveStatus
    <2>3. /\ proposals'[nonce].status # "EXECUTED"
          /\ \A n \in Nonces : n # nonce => proposals'[n] = proposals[n]
      BY <2>1, <2>2 DEF Proposal, SerialInv, ManagedInv, TypeOK
    <2>4. QED
      BY <2>1, <2>3, OneLiveChanged
  <1>6. ASSUME NEW nonce \in Nonces, NEW input_raw \in Amounts, NEW output_raw \in Amounts,
               FillRebalance(nonce, input_raw, output_raw)
        PROVE  LatestLive' /\ FillsAreSerial'
    BY <1>6, FillSerial
  <1>7. LatestLive' /\ FillsAreSerial'
    BY <1>2, <1>3, <1>4, <1>5, <1>6
       DEF Next, vars, MintInKind, RedeemInKind, CancelRebalance, ExpireRebalance, Donate,
           TransferShares, BurnShares, Tick
  <1>8. QED
    BY <1>1, <1>7 DEF SerialInv

\* After every sequence of instructions, whatever nonces they name, one proposal
\* at most is live and the basket names it, its base is the current allocation,
\* and the filled ones are numbered by the allocation version in nonce order.
THEOREM TradesSerial == Spec => []TradesAreSerial
  <1>1. Init => SerialInv
    <2>1. Init => LatestLive /\ FillsAreSerial
      BY DEF Init, LatestLive, FillsAreSerial, Live, LiveStatus, NoAccount
    <2>2. QED
      BY <2>1, InitInv DEF SerialInv
  <1>2. SerialInv /\ [Next]_vars => SerialInv'
    BY EveryStepSerial
  <1>3. SerialInv => TradesAreSerial
    BY DEF SerialInv, ManagedInv, ProposalInv, TradesAreSerial
  <1>4. QED
    BY <1>1, <1>2, <1>3, PTL DEF Spec

-----------------------------------------------------------------------------
(***************************************************************************)
(* ManagedBasket implements ManagedCore, for every value of the constants: *)
(* the program's basket and proposal accounts, in every order of           *)
(* instructions, do only what the host model with its one optional pending *)
(* record does.                                                            *)
(***************************************************************************)

\* The operators of the instance are those of the program.
LEMMA SameOperators ==
    /\ Core!ValidWeights = ValidWeights
    /\ \A a \in Assets : Core!Other(a) = Other(a)
    /\ \A b, n, s : Core!RedeemAmount(b, n, s) = RedeemAmount(b, n, s)
    /\ \A d, b, s : Core!GrossShares(d, b, s) = GrossShares(d, b, s)
  <1>1. \A a \in Assets : Core!Other(a) = Other(a)
    BY DEF Core!Other, Other
  <1>2. Core!ValidWeights = ValidWeights
    BY <1>1 DEF Core!ValidWeights, ValidWeights
  <1>3. \A b, n, s : Core!RedeemAmount(b, n, s) = RedeemAmount(b, n, s)
    BY DEF Core!RedeemAmount, RedeemAmount
  <1>4. \A d, b, s : Core!GrossShares(d, b, s) = GrossShares(d, b, s)
    BY DEF Core!GrossShares, GrossShares, Core!Implied, Implied
  <1>5. QED
    BY <1>1, <1>2, <1>3, <1>4

\* The pending record that a basket naming proposal n stands for.
RecordOf(n, p) ==
    [nonce |-> n, base_version |-> p.base_version, weights |-> p.weights,
     input |-> p.input, max_input |-> p.max_input, deadline |-> p.deadline,
     bound |-> IF p.status = "PENDING_APPROVAL" THEN None
               ELSE [min_output |-> p.min_output, approved_at |-> p.approved_at,
                     execute_after |-> p.not_before, expires_at |-> p.expires_at]]

LEMMA RecordTyped ==
    ASSUME NEW n \in Nat, NEW p \in Proposal
    PROVE  /\ RecordOf(n, p) # None
           /\ p.status = "PENDING_APPROVAL" => RecordOf(n, p).bound = None
           /\ p.status # "PENDING_APPROVAL" => RecordOf(n, p).bound # None
  <1> DEFINE bound == [min_output |-> p.min_output, approved_at |-> p.approved_at,
                       execute_after |-> p.not_before, expires_at |-> p.expires_at]
  <1>1. bound \in Core!Bounds
    BY DEF Core!Bounds, Proposal
  <1>2. RecordOf(n, p) \in Core!PendingRecords
    BY <1>1, SameOperators DEF RecordOf, Core!PendingRecords, Proposal
  <1>3. bound # None /\ RecordOf(n, p) # None
    BY <1>1, <1>2, NoneAssumption
  <1>4. QED
    BY <1>3 DEF RecordOf

\* What the basket's nonce says of the pending record.
LEMMA PendingOfNonce ==
    ASSUME ManagedInv, NEW nonce \in Nonces, pending_proposal_nonce = nonce
    PROVE  /\ nonce \in Nat /\ proposals[nonce] \in Proposal
           /\ PendingRecord = RecordOf(nonce, proposals[nonce])
           /\ PendingRecord # None
  <1>1. nonce \in Nat /\ nonce # None
    BY InitialAssumption DEF Nonces
  <1>2. Live(nonce)
    BY DEF ManagedInv, ProposalInv, OneLiveProposal
  <1>3. proposals[nonce] \in Proposal
    BY <1>2, AccountTyped DEF Live, LiveStatus, Exists
  <1>4. PendingRecord = RecordOf(nonce, proposals[nonce])
    BY <1>1 DEF PendingRecord, RecordOf
  <1>5. QED
    BY <1>1, <1>3, <1>4, RecordTyped

LEMMA InitMaps ==
    ASSUME Init
    PROVE  Core!CoreInit
  BY DEF Init, Core!CoreInit, PendingRecord

LEMMA UntouchedMaps ==
    ASSUME Untouched
    PROVE  PendingRecord' = PendingRecord
  BY DEF Untouched, basket_vars, PendingRecord

LEMMA MintMaps ==
    ASSUME NEW h \in Holders, NEW deposits \in [Assets -> Amounts], MintInKind(h, deposits)
    PROVE  Core!CoreMint(h, deposits)
  <1>1. Untouched
    BY DEF MintInKind, Untouched
  <1>2. QED
    BY <1>1, SameOperators, UntouchedMaps DEF MintInKind, Core!CoreMint, basket_vars

LEMMA RedeemMaps ==
    ASSUME NEW h \in Holders, NEW n \in 1..U64_MAX, RedeemInKind(h, n)
    PROVE  Core!CoreRedeem(h, n)
  <1>1. Untouched
    BY DEF RedeemInKind, Untouched
  <1>2. vault' = [a \in Assets |-> vault[a] - Core!RedeemAmount(vault[a], n, supply)]
    BY SameOperators DEF RedeemInKind, AmountsOut
  <1>3. QED
    BY <1>1, <1>2, UntouchedMaps DEF RedeemInKind, MayRedeem, Core!CoreRedeem, basket_vars

LEMMA ProposeMaps ==
    ASSUME ManagedInv, NEW who \in Actors, NEW nonce \in Nonces, NEW ver \in 0..MaxNonce,
           NEW w \in ValidWeights, NEW input \in Assets, NEW max_input \in Amounts,
           ProposeRebalance(who, nonce, ver, w, input, max_input)
    PROVE  Core!CorePropose(w, input, max_input)
  <1>1. next_proposal_nonce < MaxNonce
    BY TimingAssumption DEF ProposeRebalance, Nonces
  <1>2. PendingRecord = None
    BY DEF ProposeRebalance, PendingRecord
  <1>3. PendingRecord' =
          [nonce |-> next_proposal_nonce, base_version |-> allocation_version,
           weights |-> w, input |-> input, max_input |-> max_input,
           deadline |-> slot + APPROVAL_TTL, bound |-> None]
    <2>1. nonce # None
      BY InitialAssumption DEF Nonces
    <2>2. /\ pending_proposal_nonce' = nonce /\ nonce = next_proposal_nonce
          /\ proposals'[nonce] =
               [status |-> "PENDING_APPROVAL", base_version |-> allocation_version,
                input |-> input, max_input |-> max_input, min_output |-> 0,
                weights |-> w, deadline |-> slot + APPROVAL_TTL,
                approved_at |-> 0, not_before |-> 0, expires_at |-> 0]
      BY DEF ProposeRebalance, ManagedInv, TypeOK
    <2>3. QED
      BY <2>1, <2>2 DEF PendingRecord
  <1>4. QED
    BY <1>1, <1>2, <1>3, SameOperators DEF ProposeRebalance, NextNonce, Core!CorePropose

LEMMA ApproveMaps ==
    ASSUME ManagedInv, NEW who \in Actors, NEW nonce \in Nonces, NEW min_output \in Amounts,
           ApprovePriceBound(who, nonce, min_output)
    PROVE  Core!CoreApprove(min_output)
  <1> DEFINE p == proposals[nonce]
             bound == [min_output |-> min_output, approved_at |-> slot,
                       execute_after |-> slot + NOTICE_DURATION,
                       expires_at |-> slot + NOTICE_DURATION + EXECUTION_WINDOW]
  <1>1. /\ pending_proposal_nonce = nonce /\ p.status = "PENDING_APPROVAL"
        /\ min_output > 0 /\ slot <= p.deadline
        /\ proposals' = [proposals EXCEPT ![nonce] = Approved(p, min_output)]
        /\ vault' = vault /\ supply' = supply /\ shares' = shares
        /\ UNCHANGED basket_vars /\ slot' = slot
    BY DEF ApprovePriceBound
  <1>2. /\ PendingRecord = RecordOf(nonce, p) /\ PendingRecord # None
        /\ PendingRecord.bound = None
        /\ p \in Proposal
    BY <1>1, PendingOfNonce, RecordTyped
  <1>3. PendingRecord' = RecordOf(nonce, Approved(p, min_output))
    <2>1. nonce # None
      BY InitialAssumption DEF Nonces
    <2>2. pending_proposal_nonce' = nonce /\ proposals'[nonce] = Approved(p, min_output)
      BY <1>1 DEF basket_vars, ManagedInv, TypeOK
    <2> HIDE DEF p
    <2>3. QED
      BY <2>1, <2>2 DEF PendingRecord, RecordOf
  <1>4. RecordOf(nonce, Approved(p, min_output)) = [RecordOf(nonce, p) EXCEPT !.bound = bound]
    BY <1>2 DEF RecordOf, Approved, Proposal
  <1>5. PendingRecord.deadline = p.deadline
    BY <1>2 DEF RecordOf
  <1> HIDE DEF p
  <1>6. PendingRecord' = [PendingRecord EXCEPT !.bound = bound]
    BY <1>2, <1>3, <1>4
  <1>7. QED
    BY <1>1, <1>2, <1>5, <1>6 DEF Core!CoreApprove, basket_vars

LEMMA CancelMaps ==
    ASSUME ManagedInv, NEW who \in Actors, NEW nonce \in Nonces, CancelRebalance(who, nonce)
    PROVE  Core!CoreCancel
  <1>1. PendingRecord # None
    BY PendingOfNonce DEF CancelRebalance, Close, PendingPair
  <1>2. PendingRecord' = None
    BY DEF CancelRebalance, Close, PendingRecord
  <1>3. QED
    BY <1>1, <1>2 DEF CancelRebalance, Close, Core!CoreCancel

LEMMA ExpireMaps ==
    ASSUME ManagedInv, NEW nonce \in Nonces, ExpireRebalance(nonce)
    PROVE  Core!CoreExpire
  <1> DEFINE p == proposals[nonce]
  <1>1. pending_proposal_nonce = nonce
    BY DEF ExpireRebalance, Close, PendingPair
  <1>2. /\ PendingRecord = RecordOf(nonce, p) /\ PendingRecord # None
        /\ p.status = "PENDING_APPROVAL" <=> PendingRecord.bound = None
    BY <1>1, PendingOfNonce, RecordTyped
  <1>3. PendingRecord' = None
    BY DEF ExpireRebalance, Close, PendingRecord
  <1>4. slot > IF PendingRecord.bound = None THEN PendingRecord.deadline
               ELSE PendingRecord.bound.expires_at
    <2>1. slot > IF p.status = "PENDING_APPROVAL" THEN p.deadline ELSE p.expires_at
      BY DEF ExpireRebalance, Expired
    <2>2. /\ PendingRecord.deadline = p.deadline
          /\ p.status # "PENDING_APPROVAL" => PendingRecord.bound.expires_at = p.expires_at
      BY <1>2 DEF RecordOf
    <2>3. QED
      BY <1>2, <2>1, <2>2
  <1>5. QED
    BY <1>2, <1>3, <1>4 DEF ExpireRebalance, Close, Core!CoreExpire

LEMMA FillMaps ==
    ASSUME ManagedInv, ManagedInv', NEW nonce \in Nonces,
           NEW input_raw \in Amounts, NEW output_raw \in Amounts,
           FillRebalance(nonce, input_raw, output_raw)
    PROVE  Core!CoreFill(output_raw)
  <1> DEFINE p == proposals[nonce]
             output == Other(p.input)
  <1>1. /\ pending_proposal_nonce = nonce /\ p.status = "APPROVED"
        /\ p.base_version = allocation_version
        /\ p.not_before <= slot /\ slot <= p.expires_at
        /\ input_raw = p.max_input /\ output_raw >= p.min_output
        /\ vault[p.input] > p.max_input /\ vault[output] > 0
        /\ vault[output] + output_raw <= U64_MAX
        /\ vault' = [vault EXCEPT ![p.input] = @ - input_raw, ![output] = @ + output_raw]
        /\ target_weights_bps' = p.weights
        /\ allocation_version' = allocation_version + 1
        /\ pending_proposal_nonce' = None
        /\ UNCHANGED <<supply, shares, next_proposal_nonce, slot>>
    BY DEF FillRebalance, InWindow, LeavesBothLegs, NextVersion
  <1>2. /\ PendingRecord = RecordOf(nonce, p) /\ PendingRecord # None
        /\ PendingRecord.bound # None /\ p \in Proposal
    BY <1>1, PendingOfNonce, RecordTyped
  <1>3. /\ PendingRecord.base_version = p.base_version
        /\ PendingRecord.input = p.input /\ PendingRecord.max_input = p.max_input
        /\ PendingRecord.weights = p.weights
        /\ PendingRecord.bound.execute_after = p.not_before
        /\ PendingRecord.bound.expires_at = p.expires_at
        /\ PendingRecord.bound.min_output = p.min_output
    BY <1>1, <1>2 DEF RecordOf
  <1>4. p.input \in Assets /\ Core!Other(p.input) = output
    BY <1>2, SameOperators DEF Proposal
  <1>5. PendingRecord' = None
    BY <1>1 DEF PendingRecord
  <1>6. \A a \in Assets : vault'[a] > 0
    <2>1. /\ output \in Assets /\ output # p.input /\ Assets = {p.input, output}
      BY <1>4, OtherAsset
    <2>2. /\ vault[p.input] \in Nat /\ vault[output] \in Nat
          /\ p.max_input \in Nat /\ output_raw \in Nat
      BY <1>2, <1>4, <2>1, ShareTypes, TimingAssumption DEF ManagedInv, Proposal
    <2> HIDE DEF p, output
    <2>3. /\ vault'[p.input] = vault[p.input] - p.max_input
          /\ vault'[output] = vault[output] + output_raw
      BY <1>1, <1>4, <2>1, ShareTypes DEF ManagedInv
    <2>4. vault'[p.input] > 0 /\ vault'[output] > 0
      BY <1>1, <2>2, <2>3
    <2>5. QED
      BY <2>1, <2>4
  <1>7. slot >= p.not_before
    BY <1>1, <1>2 DEF Proposal, ManagedInv, TypeOK
  <1> HIDE DEF p, output
  <1>8. QED
    BY <1>1, <1>2, <1>3, <1>4, <1>5, <1>6, <1>7 DEF Core!CoreFill

LEMMA DonateMaps ==
    ASSUME NEW a \in Assets, NEW amount \in Amounts, Donate(a, amount)
    PROVE  Core!CoreGift(a, amount)
  <1>1. Untouched
    BY DEF Donate, Untouched
  <1>2. QED
    BY <1>1, UntouchedMaps DEF Donate, Core!CoreGift, basket_vars

\* Handing on no shares changes nothing, which the core model does not count as a step.
LEMMA TransferMaps ==
    ASSUME ManagedInv, NEW from \in Holders, NEW to \in Holders, NEW n \in 0..U64_MAX,
           TransferShares(from, to, n)
    PROVE  Core!CoreHandOn(from, to, n) /\ (n = 0 => UNCHANGED Core!coreVars)
  <1>1. Untouched
    BY DEF TransferShares, Untouched
  <1>2. Core!CoreHandOn(from, to, n)
    BY <1>1, UntouchedMaps DEF TransferShares, Core!CoreHandOn, basket_vars
  <1>3. ASSUME n = 0 PROVE shares' = shares
    <2>1. shares \in [Holders -> Nat]
      BY ShareTypes DEF ManagedInv
    <2>2. [shares EXCEPT ![from] = @ - 0] = shares
      BY <2>1
    <2>3. [shares EXCEPT ![to] = @ + 0] = shares
      BY <2>1
    <2>4. QED
      BY <1>3, <2>2, <2>3 DEF TransferShares
  <1>4. QED
    BY <1>1, <1>2, <1>3, UntouchedMaps DEF TransferShares, Core!coreVars, basket_vars

LEMMA BurnMaps ==
    ASSUME NEW h \in Holders, NEW n \in 1..U64_MAX, BurnShares(h, n)
    PROVE  Core!CoreBurn(h, n)
  <1>1. Untouched
    BY DEF BurnShares, Untouched
  <1>2. QED
    BY <1>1, UntouchedMaps DEF BurnShares, Core!CoreBurn, basket_vars

LEMMA TickMaps ==
    ASSUME Tick
    PROVE  Core!CoreTick
  <1>1. Untouched
    BY DEF Tick, Untouched
  <1>2. QED
    BY <1>1, UntouchedMaps DEF Tick, Core!CoreTick, basket_vars

LEMMA EveryStepMaps ==
    ASSUME ManagedInv, ManagedInv', [Next]_vars
    PROVE  [Core!CoreNext]_(Core!coreVars)
  <1>1. ASSUME NEW h \in Holders, NEW deposits \in [Assets -> Amounts], MintInKind(h, deposits)
        PROVE  Core!CoreNext
    BY <1>1, MintMaps DEF Core!CoreNext
  <1>2. ASSUME NEW h \in Holders, NEW n \in 1..U64_MAX, RedeemInKind(h, n)
        PROVE  Core!CoreNext
    BY <1>2, RedeemMaps DEF Core!CoreNext
  <1>3. ASSUME NEW who \in Actors, NEW nonce \in Nonces, NEW ver \in 0..MaxNonce,
               NEW w \in ValidWeights, NEW input \in Assets, NEW max_input \in Amounts,
               ProposeRebalance(who, nonce, ver, w, input, max_input)
        PROVE  Core!CoreNext
    BY <1>3, ProposeMaps, SameOperators DEF Core!CoreNext
  <1>4. ASSUME NEW who \in Actors, NEW nonce \in Nonces, NEW min_output \in Amounts,
               ApprovePriceBound(who, nonce, min_output)
        PROVE  Core!CoreNext
    BY <1>4, ApproveMaps DEF Core!CoreNext
  <1>5. ASSUME NEW who \in Actors, NEW nonce \in Nonces, CancelRebalance(who, nonce)
        PROVE  Core!CoreNext
    BY <1>5, CancelMaps DEF Core!CoreNext
  <1>6. ASSUME NEW nonce \in Nonces, ExpireRebalance(nonce)
        PROVE  Core!CoreNext
    BY <1>6, ExpireMaps DEF Core!CoreNext
  <1>7. ASSUME NEW nonce \in Nonces, NEW input_raw \in Amounts, NEW output_raw \in Amounts,
               FillRebalance(nonce, input_raw, output_raw)
        PROVE  Core!CoreNext
    BY <1>7, FillMaps DEF Core!CoreNext
  <1>8. ASSUME NEW a \in Assets, NEW amount \in Amounts, Donate(a, amount)
        PROVE  Core!CoreNext
    BY <1>8, DonateMaps DEF Core!CoreNext
  <1>9. ASSUME NEW from \in Holders, NEW to \in Holders, NEW n \in 0..U64_MAX,
               TransferShares(from, to, n)
        PROVE  [Core!CoreNext]_(Core!coreVars)
    <2>1. n = 0 \/ n \in 1..U64_MAX
      BY MathAssumption
    <2>2. QED
      BY <1>9, <2>1, TransferMaps DEF Core!CoreNext
  <1>10. Tick => Core!CoreNext
    BY TickMaps DEF Core!CoreNext
  <1>11. ASSUME UNCHANGED vars PROVE UNCHANGED Core!coreVars
    <2>1. Untouched
      BY <1>11 DEF vars, Untouched
    <2>2. QED
      BY <1>11, <2>1, UntouchedMaps DEF vars, basket_vars, Core!coreVars
  <1>12. ASSUME NEW h \in Holders, NEW n \in 1..U64_MAX, BurnShares(h, n)
         PROVE  Core!CoreNext
    BY <1>12, BurnMaps DEF Core!CoreNext
  <1>13. QED
    BY <1>1, <1>2, <1>3, <1>4, <1>5, <1>6, <1>7, <1>8, <1>9, <1>10, <1>11, <1>12 DEF Next

\* Every behaviour of the program, its accounts and nonces included, is a
\* behaviour of the managed-core model.
THEOREM ProgramImplementsCore == Spec => ImplementsCore
  <1>1. Init => Core!CoreInit
    BY InitMaps
  <1>2. ManagedInv /\ ManagedInv' /\ [Next]_vars => [Core!CoreNext]_(Core!coreVars)
    BY EveryStepMaps
  <1>3. QED
    BY <1>1, <1>2, ManagedInvariance, PTL DEF Spec, ImplementsCore, Core!CoreSpec
=============================================================================
