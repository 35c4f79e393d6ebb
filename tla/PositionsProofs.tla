--------------------------- MODULE PositionsProofs ---------------------------
(***************************************************************************)
(* The projection's bookkeeping, for any number of transactions, slots,    *)
(* crashes and recoveries: every row is of its type, no balance is         *)
(* negative, nothing is skipped, and events take effect in chain order.    *)
(***************************************************************************)
EXTENDS Positions, AmountLemmas, TLAPS, WellFoundedInduction, FiniteSetTheorems

Event == [type : {"Minted", "Redeemed", "FeeAccrued"}, user : Users,
          shares : Nat, fee : Nat]
Transaction == [slot : Nat, events : Seq(Event)]
Balances == [Users -> Nat]

-----------------------------------------------------------------------------
(* The invariant, in named parts.                                          *)

\* A transaction carries one event, or an accrual and one event.
LogTyped ==
    /\ log \in Seq(Transaction)
    /\ \A t \in DOMAIN log : Len(log[t].events) \in 1..2

ChainTyped == chainAt \in Seq(Balances)

\* Only finalized transactions are queued.
QueueFinal == Len(queue) <= Finalized

FactsKept == \A t \in DOMAIN queue : queue[t] = "processed" => t \in facts

\* The transaction at work is the oldest one, and its events so far are claimed.
AtWork ==
    work # None =>
        /\ rebuild # "required" /\ work.tx \in facts
        /\ \A t \in DOMAIN queue : t < work.tx => queue[t] = "processed"
        /\ \A i \in 1..2 : i < work.at /\ i <= Len(Events(work.tx)) => <<work.tx, i>> \in claims

IInv ==
    /\ TypeOK /\ LogTyped /\ ChainTyped
    /\ QueueFinal /\ FactsKept /\ AtWork
    /\ NothingSkipped /\ InChainOrder

-----------------------------------------------------------------------------
(* Balances.                                                               *)

LEMMA CreatorShareBounded ==
    ASSUME NEW fee \in Nat
    PROVE  CreatorShare(fee) \in Nat /\ CreatorShare(fee) <= fee
BY DivFraction DEF CreatorShare

LEMMA CreditTyped ==
    ASSUME NEW b \in Balances, NEW u \in Users, NEW n \in Int, b[u] + n >= 0
    PROVE  Credit(b, u, n) \in Balances
BY DEF Credit, Balances

LEMMA FeeSplitTyped ==
    ASSUME NEW b \in Balances, NEW fee \in Nat
    PROVE  CreditFeeSplit(b, fee) \in Balances /\ \A u \in Users : CreditFeeSplit(b, fee)[u] >= b[u]
<1>1. CreatorShare(fee) \in Nat /\ CreatorShare(fee) <= fee
  BY CreatorShareBounded
<1>2. Creator \in Users /\ Treasury \in Users
  BY UsersAssumption
<1> DEFINE c == CreatorShare(fee)
           b1 == Credit(b, Creator, c)
<1>3. b1 \in Balances /\ \A u \in Users : b1[u] >= b[u]
  BY <1>1, <1>2 DEF Credit, Balances
<1>4. fee - c \in Nat
  BY <1>1
<1> HIDE DEF b1
<1>5. Credit(b1, Treasury, fee - c) \in Balances
      /\ \A u \in Users : Credit(b1, Treasury, fee - c)[u] >= b1[u]
  BY <1>2, <1>3, <1>4 DEF Credit, Balances
<1>6. CreditFeeSplit(b, fee) = Credit(b1, Treasury, fee - c)
  BY DEF CreditFeeSplit, b1
<1> QED
  BY <1>3, <1>5, <1>6 DEF Balances

LEMMA EffectTyped ==
    ASSUME NEW b \in Balances, NEW ev \in Event,
           ev.type = "Redeemed" => SharesRemoved(ev) <= b[ev.user]
    PROVE  Effect(ev, b) \in Balances
<1>1. ev.shares \in Nat /\ ev.fee \in Nat /\ ev.user \in Users
      /\ ev.type \in {"Minted", "Redeemed", "FeeAccrued"} /\ b[ev.user] \in Nat
  BY DEF Event, Balances
<1> DEFINE b1 == CASE ev.type = "Minted"     -> Credit(b, ev.user, ev.shares)
                   [] ev.type = "Redeemed"   -> Credit(b, ev.user, -SharesRemoved(ev))
                   [] ev.type = "FeeAccrued" -> b
<1>2. CASE ev.type = "Minted"
  <2>1. b1 = Credit(b, ev.user, ev.shares) /\ ev.shares \in Int /\ b[ev.user] + ev.shares >= 0
    BY <1>1, <1>2
  <2> QED
    BY <2>1, <1>1, CreditTyped, FeeSplitTyped DEF Effect
<1>3. CASE ev.type = "Redeemed"
  <2>1. b1 = Credit(b, ev.user, -SharesRemoved(ev))
    BY <1>3
  <2>2. -SharesRemoved(ev) \in Int /\ b[ev.user] + (-SharesRemoved(ev)) >= 0
    BY <1>1, <1>3 DEF SharesRemoved
  <2> QED
    BY <2>1, <2>2, <1>1, CreditTyped, FeeSplitTyped DEF Effect
<1>4. CASE ev.type = "FeeAccrued"
  <2>1. b1 = b
    BY <1>4
  <2> QED
    BY <2>1, <1>1, FeeSplitTyped DEF Effect
<1> QED
  BY <1>1, <1>2, <1>3, <1>4

-----------------------------------------------------------------------------
(* The queue.                                                              *)

LEMMA OldestIsFirst ==
    ASSUME NEW S \in SUBSET Nat, S # {}
    PROVE  Min(S) \in S /\ \A x \in S : Min(S) <= x
<1>1. PICK m \in S : \A x \in S : <<x, m>> \notin OpToRel(<, Nat)
  BY WFMin, NatLessThanWellFounded, Zenon
<1>2. \A x \in S : m <= x
  <2> TAKE x \in S
  <2>1. x \in Nat /\ m \in Nat
    OBVIOUS
  <2>2. ~(x < m)
    <3>1. <<x, m>> \notin {ss \in Nat \X Nat : ss[1] < ss[2]}
      BY <1>1 DEF OpToRel
    <3> QED
      BY <2>1, <3>1
  <2> QED
    BY <2>1, <2>2
<1> QED
  BY <1>1, <1>2 DEF Min

LEMMA FinalizedBounded ==
    ASSUME LogTyped
    PROVE  Finalized \in 0..Len(log)
<1> DEFINE F == {t \in DOMAIN log : SlotOf(t) <= slot}
<1>1. Len(log) \in Nat /\ DOMAIN log = 1..Len(log)
  BY DEF LogTyped
<1>2. IsFiniteSet(1..Len(log)) /\ Cardinality(1..Len(log)) = Len(log)
  <2>1. Len(log) \in Int /\ 1 \in Int
    BY <1>1
  <2>2. /\ IsFiniteSet(1..Len(log))
        /\ Cardinality(1..Len(log)) = IF 1 > Len(log) THEN 0 ELSE Len(log) - 1 + 1
    BY <2>1, FS_Interval
  <2> QED
    BY <1>1, <2>2
<1>3. F \subseteq 1..Len(log)
  BY <1>1
<1>4. IsFiniteSet(F) /\ Cardinality(F) <= Len(log)
  BY <1>2, <1>3, FS_Subset
<1> QED
  BY <1>1, <1>4, FS_CardinalityType DEF Finalized

\* The chain only grows.
ChainGrows ==
    /\ Len(log') \in Nat /\ Len(log) <= Len(log') /\ DOMAIN log' = 1..Len(log')
    /\ \A t \in DOMAIN log : log'[t] = log[t]
    /\ slot' \in Nat /\ slot <= slot'

LEMMA FinalizedGrows ==
    ASSUME TypeOK, LogTyped, LogTyped', ChainGrows
    PROVE  Finalized \in Nat /\ Finalized' \in Nat /\ Finalized <= Finalized'
<1> DEFINE F == {t \in DOMAIN log : SlotOf(t) <= slot}
           G == {t \in DOMAIN log' : (SlotOf(t))' <= slot'}
<1>1. Len(log) \in Nat /\ DOMAIN log = 1..Len(log) /\ \A t \in DOMAIN log : SlotOf(t) \in Nat
  <2>1. log \in Seq(Transaction)
    BY DEF LogTyped
  <2>2. \A t \in DOMAIN log : log[t] \in Transaction
    BY <2>1
  <2> QED
    BY <2>1, <2>2 DEF SlotOf, Transaction
<1>2. F \subseteq G
  BY <1>1 DEF ChainGrows, SlotOf, TypeOK
<1>3. IsFiniteSet(1..Len(log')) /\ G \subseteq 1..Len(log')
  BY FS_Interval DEF ChainGrows
<1>4. IsFiniteSet(G)
  BY <1>3, FS_Subset
<1>5. IsFiniteSet(F) /\ Cardinality(F) <= Cardinality(G)
  BY <1>2, <1>4, FS_Subset
<1>6. Cardinality(F) \in Nat /\ Cardinality(G) \in Nat
  BY <1>4, <1>5, FS_CardinalityType
<1> QED
  BY <1>5, <1>6 DEF Finalized

LEMMA EventsStay ==
    ASSUME ChainGrows, NEW T, T \subseteq DOMAIN log
    PROVE  /\ \A t \in T : (Events(t))' = Events(t) /\ (SlotOf(t))' = SlotOf(t)
           /\ (ClaimsOf(T))' = ClaimsOf(T)
BY DEF ChainGrows, Events, SlotOf, ClaimsOf

-----------------------------------------------------------------------------
(* The chain.                                                              *)

\* What the chain does leaves the database in order.
LEMMA ChainStep ==
    ASSUME IInv, UNCHANGED <<dbVars, work, reading, crashes>>,
           ChainGrows, LogTyped', ChainTyped',
           chain' \in Balances, slot' \in 0..MaxSlot, Len(chainAt') = slot' + 1,
           unlogged' \subseteq 1..(slot' + 1),
           burned' \in Nat, burnedAt' \in Seq(Nat), Len(burnedAt') = slot' + 1
    PROVE  IInv'
<1> USE DEF IInv
<1>1. UNCHANGED <<queue, verified, facts, claims, positions, barrier, rebuild, run>>
  BY DEF dbVars
<1>2. Len(log) \in Nat /\ DOMAIN log = 1..Len(log) /\ Len(queue) \in Nat
      /\ DOMAIN queue = 1..Len(queue) /\ Len(queue) <= Len(log)
  BY DEF LogTyped, TypeOK
<1>3. DOMAIN queue \subseteq DOMAIN log
  BY <1>2
<1>4. /\ (ClaimsOf(DOMAIN queue))' = ClaimsOf(DOMAIN queue)
      /\ \A t \in DOMAIN queue : /\ (Events(t))' = Events(t)
                                 /\ (ClaimsOf({t}))' = ClaimsOf({t})
  <2>1. \A t \in DOMAIN queue : (ClaimsOf({t}))' = ClaimsOf({t})
    BY <1>3, EventsStay
  <2> QED
    BY <1>1, <1>3, <2>1, EventsStay
<1>5. TypeOK'
  <2>1. slot \in Nat /\ slot <= slot' /\ Len(log) <= Len(log')
    BY DEF TypeOK, ChainGrows
  <2>2. queue' \in Seq({"pending", "processed"}) /\ Len(queue') <= Len(log')
        /\ facts' \subseteq DOMAIN queue' /\ claims' \subseteq (ClaimsOf(DOMAIN queue))'
        /\ (work' = None \/ work' \in [tx : DOMAIN queue', at : 1..3, gap : BOOLEAN])
    BY <1>1, <1>2, <1>4, <2>1 DEF TypeOK, ChainGrows
  <2>3. /\ verified' \in 0..slot' /\ barrier' \in {None} \cup 0..slot'
        /\ reading' \in [Readers -> {None} \cup 0..slot']
    BY <1>1, <2>1 DEF TypeOK
  <2>4. run' = None \/ run' \in [slot : 0..slot', facts : SUBSET facts',
                                 status : {"staged", "activated"}]
    BY <1>1, <2>1 DEF TypeOK
  <2> QED
    BY <1>1, <2>2, <2>3, <2>4 DEF TypeOK, Balances
<1>6. QueueFinal'
  <2>1. Finalized <= Finalized' /\ Finalized \in Nat /\ Finalized' \in Nat
    BY FinalizedGrows
  <2> QED
    BY <1>1, <1>2, <2>1 DEF QueueFinal
<1>7. FactsKept' /\ NothingSkipped'
  BY <1>1, <1>4 DEF FactsKept, NothingSkipped
<1>8. AtWork'
  <2>1. work # None => work.tx \in DOMAIN queue
    BY DEF TypeOK
  <2> QED
    BY <1>1, <1>4, <2>1 DEF AtWork
<1>9. InChainOrder'
  BY <1>1, <1>4 DEF InChainOrder
<1> QED
  BY <1>5, <1>6, <1>7, <1>8, <1>9

\* Both shapes of a transaction's events.
LEMMA EventsTyped ==
    ASSUME NEW accrued \in Nat
    PROVE  /\ AccruedEvents(accrued) \in Seq(Event) /\ Len(AccruedEvents(accrued)) \in 0..1
           /\ AccruedEvents(accrued) # <<>> => Len(AccruedEvents(accrued)) = 1
           /\ \A ev \in Event : /\ AccruedEvents(accrued) \o <<ev>> \in Seq(Event)
                                /\ Len(AccruedEvents(accrued) \o <<ev>>) \in 1..2
<1>1. FeeAccrued(accrued) \in Event
  BY UsersAssumption DEF FeeAccrued, Event
<1>2. CASE accrued = 0
  BY <1>2 DEF AccruedEvents
<1>3. CASE accrued # 0
  <2>1. AccruedEvents(accrued) = <<FeeAccrued(accrued)>>
    BY <1>3 DEF AccruedEvents
  <2> HIDE DEF Event
  <2> QED
    BY <1>1, <2>1
<1> QED
  BY <1>2, <1>3

LEMMA ExecuteStep ==
    ASSUME IInv, NEW events \in Seq(Event), Len(events) \in 1..2,
           NEW balances \in Balances, Execute(events, balances)
    PROVE  IInv'
<1>1. /\ log' = Append(log, [slot |-> slot + 1, events |-> events]) /\ chain' = balances
      /\ UNCHANGED <<slot, chainAt, unlogged, burned, burnedAt, dbVars, work, reading, crashes>>
  BY DEF Execute
<1>2. slot \in Nat /\ slot \in 0..MaxSlot /\ Len(chainAt) = slot + 1
      /\ unlogged \subseteq 1..(slot + 1)
      /\ burned \in Nat /\ burnedAt \in Seq(Nat) /\ Len(burnedAt) = slot + 1
  BY BoundsAssumption DEF IInv, TypeOK
<1> DEFINE tx == [slot |-> slot + 1, events |-> events]
<1>3. tx \in Transaction /\ tx.events = events
  BY <1>2 DEF Transaction
<1>4. log \in Seq(Transaction) /\ Len(log) \in Nat /\ DOMAIN log = 1..Len(log)
      /\ \A t \in DOMAIN log : Len(log[t].events) \in 1..2
  BY DEF IInv, LogTyped
<1> HIDE DEF tx
<1>5. /\ log' \in Seq(Transaction) /\ Len(log') = Len(log) + 1 /\ DOMAIN log' = 1..(Len(log) + 1)
      /\ \A t \in DOMAIN log : log'[t] = log[t]
      /\ log'[Len(log) + 1] = tx
  BY <1>1, <1>3, <1>4 DEF tx
<1>6. LogTyped'
  <2>1. \A t \in DOMAIN log' : t \in DOMAIN log \/ t = Len(log) + 1
    BY <1>4, <1>5
  <2>2. \A t \in DOMAIN log' : Len(log'[t].events) \in 1..2
    BY <1>3, <1>4, <1>5, <2>1
  <2> QED
    BY <1>5, <2>2 DEF LogTyped
<1>7. ChainGrows
  BY <1>1, <1>2, <1>4, <1>5 DEF ChainGrows
<1> QED
  BY <1>1, <1>2, <1>6, <1>7, ChainStep DEF IInv, ChainTyped

LEMMA ChainKeeps ==
    ASSUME IInv, Chain
    PROVE  IInv'
<1>1. chain \in Balances /\ slot \in 0..MaxSlot /\ MaxSlot \in Nat
      /\ Traders \subseteq Users /\ Creator \in Users
  BY UsersAssumption, BoundsAssumption DEF IInv, TypeOK, Balances
<1>2. ASSUME NEW u \in Traders, ChainMint(u)
      PROVE  IInv'
  <2>1. PICK net \in MintedShares, fee \in EntryFees, accrued \in ManagementFees :
            Execute(AccruedEvents(accrued) \o <<Minted(u, net, fee)>>,
                    CreditFeeSplit(Credit(CreditFeeSplit(chain, accrued), u, net), fee))
    BY <1>2 DEF ChainMint
  <2>2. net \in Nat /\ fee \in Nat /\ accrued \in Nat
    BY AmountsAssumption
  <2>3. Minted(u, net, fee) \in Event
    BY <1>1, <2>2 DEF Minted, Event
  <2>4. CreditFeeSplit(chain, accrued) \in Balances
    BY <1>1, <2>2, FeeSplitTyped
  <2>5. Credit(CreditFeeSplit(chain, accrued), u, net) \in Balances
    <3> DEFINE b == CreditFeeSplit(chain, accrued)
    <3>1. b[u] + net >= 0 /\ net \in Int
      BY <1>1, <2>2, <2>4 DEF Balances
    <3> QED
      BY <1>1, <2>4, <3>1, CreditTyped
  <2> QED
    BY <2>1, <2>2, <2>3, <2>5, EventsTyped, FeeSplitTyped, ExecuteStep
<1>3. ASSUME NEW u \in Traders, ChainRedeem(u)
      PROVE  IInv'
  <2>1. PICK sold \in BurnedShares, fee \in ExitFees, accrued \in ManagementFees :
            /\ sold <= chain[u]
            /\ Execute(AccruedEvents(accrued) \o <<Redeemed(u, sold, fee)>>,
                       CreditFeeSplit(Credit(CreditFeeSplit(chain, accrued), u, -sold), fee))
    BY <1>3 DEF ChainRedeem
  <2>2. sold \in Nat /\ fee \in Nat /\ accrued \in Nat
    BY AmountsAssumption
  <2>3. Redeemed(u, sold, fee) \in Event
    BY <1>1, <2>2 DEF Redeemed, Event
  <2>4. CreditFeeSplit(chain, accrued) \in Balances
        /\ CreditFeeSplit(chain, accrued)[u] >= chain[u]
    BY <1>1, <2>2, FeeSplitTyped
  <2>5. Credit(CreditFeeSplit(chain, accrued), u, -sold) \in Balances
    <3> DEFINE b == CreditFeeSplit(chain, accrued)
    <3>1. b[u] \in Nat /\ chain[u] \in Nat
      BY <1>1, <2>4 DEF Balances
    <3>2. b[u] + (-sold) >= 0 /\ -sold \in Int
      BY <2>1, <2>2, <2>4, <3>1
    <3> HIDE DEF b
    <3>3. b \in Balances => Credit(b, u, -sold) \in Balances
      BY <1>1, <3>2, CreditTyped
    <3> QED
      BY <2>4, <3>3 DEF b
  <2> QED
    BY <2>1, <2>2, <2>3, <2>5, EventsTyped, FeeSplitTyped, ExecuteStep
<1>4. ASSUME ChainAccrue
      PROVE  IInv'
  <2>1. PICK accrued \in ManagementFees :
            Execute(AccruedEvents(accrued), CreditFeeSplit(chain, accrued))
    BY <1>4 DEF ChainAccrue
  <2>2. accrued \in Nat
    BY AmountsAssumption
  <2>3. AccruedEvents(accrued) # <<>>
    BY <2>1 DEF Execute
  <2>4. AccruedEvents(accrued) \in Seq(Event) /\ Len(AccruedEvents(accrued)) \in 1..2
    BY <2>2, <2>3, EventsTyped
  <2> QED
    BY <1>1, <2>1, <2>2, <2>4, FeeSplitTyped, ExecuteStep
<1>5. ASSUME NEW u \in Traders, NEW v \in Users, ChainTransfer(u, v)
      PROVE  IInv'
  <2>1. /\ u # v /\ chain[u] > 0 /\ slot < MaxSlot
        /\ chain' = Credit(Credit(chain, u, -1), v, 1)
        /\ unlogged' = unlogged \cup {slot + 1}
        /\ UNCHANGED <<log, slot, chainAt, burned, burnedAt, dbVars, work, reading, crashes>>
    BY <1>5 DEF ChainTransfer
  <2>2. Credit(chain, u, -1) \in Balances
    <3>1. chain[u] + (-1) >= 0 /\ -1 \in Int
      BY <1>1, <2>1 DEF Balances
    <3> QED
      BY <1>1, <3>1, CreditTyped
  <2>3. Credit(Credit(chain, u, -1), v, 1) \in Balances
    <3> DEFINE b == Credit(chain, u, -1)
    <3>1. b[v] + 1 >= 0
      BY <2>2 DEF Balances
    <3> QED
      BY <2>2, <3>1, CreditTyped
  <2>4. ChainGrows
    BY <1>1, <2>1 DEF ChainGrows, IInv, LogTyped
  <2>5. LogTyped' /\ ChainTyped' /\ UNCHANGED <<dbVars, work, reading, crashes>>
    BY <2>1 DEF IInv, LogTyped, ChainTyped
  <2>6. /\ slot' \in 0..MaxSlot /\ Len(chainAt') = slot' + 1 /\ unlogged' \subseteq 1..(slot' + 1)
        /\ burned' \in Nat /\ burnedAt' \in Seq(Nat) /\ Len(burnedAt') = slot' + 1
    BY <1>1, <2>1 DEF IInv, TypeOK
  <2> QED
    BY <2>1, <2>3, <2>4, <2>5, <2>6, ChainStep
<1>6. ASSUME Finalize
      PROVE  IInv'
  <2>1. /\ slot < MaxSlot /\ slot' = slot + 1 /\ chainAt' = Append(chainAt, chain)
        /\ burnedAt' = Append(burnedAt, burned)
        /\ UNCHANGED <<log, chain, unlogged, burned, dbVars, work, reading, crashes>>
    BY <1>6 DEF Finalize
  <2>2. /\ chainAt \in Seq(Balances) /\ Len(chainAt) = slot + 1
        /\ burned \in Nat /\ burnedAt \in Seq(Nat) /\ Len(burnedAt) = slot + 1
    BY DEF IInv, ChainTyped, TypeOK
  <2>3. /\ chainAt' \in Seq(Balances) /\ Len(chainAt') = slot' + 1
        /\ burned' \in Nat /\ burnedAt' \in Seq(Nat) /\ Len(burnedAt') = slot' + 1
    BY <1>1, <2>1, <2>2
  <2>4. ChainGrows
    BY <1>1, <2>1 DEF ChainGrows, IInv, LogTyped
  <2>5. LogTyped' /\ ChainTyped' /\ UNCHANGED <<dbVars, work, reading, crashes>>
    BY <2>1, <2>3 DEF IInv, LogTyped, ChainTyped
  <2>6. slot' \in 0..MaxSlot /\ unlogged' \subseteq 1..(slot' + 1) /\ chain' \in Balances
    BY <1>1, <2>1 DEF IInv, TypeOK
  <2> QED
    BY <2>3, <2>4, <2>5, <2>6, ChainStep
<1>7. ASSUME NEW u \in Traders, ChainBurn(u)
      PROVE  IInv'
  <2>1. /\ chain[u] > 0 /\ slot < MaxSlot
        /\ chain' = Credit(chain, u, -1) /\ burned' = burned + 1
        /\ unlogged' = unlogged \cup {slot + 1}
        /\ UNCHANGED <<log, slot, chainAt, burnedAt, dbVars, work, reading, crashes>>
    BY <1>7 DEF ChainBurn
  <2>2. Credit(chain, u, -1) \in Balances
    <3>1. chain[u] + (-1) >= 0 /\ -1 \in Int
      BY <1>1, <2>1 DEF Balances
    <3> QED
      BY <1>1, <3>1, CreditTyped
  <2>4. ChainGrows
    BY <1>1, <2>1 DEF ChainGrows, IInv, LogTyped
  <2>5. LogTyped' /\ ChainTyped' /\ UNCHANGED <<dbVars, work, reading, crashes>>
    BY <2>1 DEF IInv, LogTyped, ChainTyped
  <2>6. /\ slot' \in 0..MaxSlot /\ Len(chainAt') = slot' + 1 /\ unlogged' \subseteq 1..(slot' + 1)
        /\ burned' \in Nat /\ burnedAt' \in Seq(Nat) /\ Len(burnedAt') = slot' + 1
    BY <1>1, <2>1 DEF IInv, TypeOK
  <2> QED
    BY <2>1, <2>2, <2>4, <2>5, <2>6, ChainStep
<1> QED
  BY <1>2, <1>3, <1>4, <1>5, <1>6, <1>7 DEF Chain

-----------------------------------------------------------------------------
(* Polls.                                                                  *)

LEMMA SameChain ==
    ASSUME IInv, UNCHANGED chainVars
    PROVE  /\ \A t : (Events(t))' = Events(t) /\ (SlotOf(t))' = SlotOf(t)
           /\ Finalized' = Finalized
           /\ LogTyped' /\ ChainTyped'
BY DEF chainVars, Events, SlotOf, Finalized, IInv, LogTyped, ChainTyped

LEMMA QueueTyped ==
    ASSUME IInv
    PROVE  /\ Len(queue) \in Nat /\ DOMAIN queue = 1..Len(queue)
           /\ \A t \in DOMAIN queue : queue[t] \in {"pending", "processed"}
           /\ Len(queue) <= Len(log) /\ DOMAIN queue \subseteq DOMAIN log
           /\ Pending \subseteq DOMAIN queue /\ Pending \in SUBSET Nat
           /\ \A t \in DOMAIN queue : Events(t) \in Seq(Event) /\ Len(Events(t)) \in 1..2
<1>1. /\ Len(queue) \in Nat /\ DOMAIN queue = 1..Len(queue) /\ Len(queue) <= Len(log)
      /\ \A t \in DOMAIN queue : queue[t] \in {"pending", "processed"}
  BY DEF IInv, TypeOK
<1>2. Len(log) \in Nat /\ DOMAIN log = 1..Len(log) /\ \A t \in DOMAIN log : log[t] \in Transaction
  BY DEF IInv, LogTyped
<1>3. \A t \in DOMAIN log : Events(t) \in Seq(Event) /\ Len(Events(t)) \in 1..2
  BY <1>2 DEF IInv, LogTyped, Events, Transaction
<1> QED
  BY <1>1, <1>2, <1>3 DEF Pending

\* Steps that touch neither the chain nor the queue, the claims or the guard,
\* and only move on the collection, the snapshots or the run.
LEMMA CollectionStep ==
    ASSUME IInv, UNCHANGED <<chainVars, queue, verified, claims, positions, barrier, rebuild>>,
           facts \subseteq facts', facts' \subseteq DOMAIN queue,
           run' = None \/ run' \in [slot : 0..slot, facts : SUBSET facts', status : {"staged", "activated"}],
           reading' \in [Readers -> {None} \cup 0..slot],
           work' = work \/ work' = None
    PROVE  IInv'
<1>1. /\ \A t : (Events(t))' = Events(t)
      /\ Finalized' = Finalized /\ LogTyped' /\ ChainTyped'
  BY SameChain
<1>2. UNCHANGED <<log, chain, slot, chainAt, unlogged, burned, burnedAt>>
  BY DEF chainVars
<1>3. \A T : (ClaimsOf(T))' = ClaimsOf(T)
  BY <1>1 DEF ClaimsOf
<1>4. TypeOK'
  BY <1>2, <1>3 DEF IInv, TypeOK
<1>5. QueueFinal' /\ FactsKept' /\ NothingSkipped' /\ InChainOrder'
  BY <1>1, <1>3 DEF IInv, QueueFinal, FactsKept, NothingSkipped, InChainOrder
<1>6. AtWork'
  BY <1>1 DEF IInv, AtWork
<1> QED
  BY <1>1, <1>4, <1>5, <1>6 DEF IInv

LEMMA DiscoverStep ==
    ASSUME IInv, Discover
    PROVE  IInv'
<1>1. /\ work = None /\ verified' = slot
      /\ queue' = [t \in 1..Finalized |-> IF t \in DOMAIN queue THEN queue[t] ELSE "pending"]
      /\ UNCHANGED <<chainVars, facts, claims, positions, barrier, rebuild, run, work,
                     reading, crashes>>
  BY DEF Discover
<1>2. UNCHANGED <<log, chain, slot, chainAt, unlogged, burned, burnedAt>>
  BY <1>1 DEF chainVars
<1>3. /\ \A t : (Events(t))' = Events(t)
      /\ Finalized' = Finalized /\ LogTyped' /\ ChainTyped'
  BY <1>1, SameChain
<1>4. Finalized \in Nat /\ Finalized <= Len(log) /\ Len(queue) <= Finalized /\ Len(log) \in Nat
  <2>1. Len(log) \in Nat
    BY DEF IInv, LogTyped
  <2> QED
    BY <2>1, FinalizedBounded DEF IInv, QueueFinal
<1>5. Len(queue) \in Nat /\ DOMAIN queue = 1..Len(queue)
      /\ \A t \in DOMAIN queue : queue[t] \in {"pending", "processed"}
  BY QueueTyped
<1>6. /\ DOMAIN queue' = 1..Finalized /\ Len(queue') = Finalized
      /\ queue' \in Seq({"pending", "processed"})
      /\ \A t \in DOMAIN queue' : queue'[t] = "processed" => t \in DOMAIN queue
                                                        /\ queue[t] = "processed"
      /\ DOMAIN queue \subseteq DOMAIN queue'
  BY <1>1, <1>4, <1>5
<1>7. (ClaimsOf(DOMAIN queue))' = ClaimsOf(DOMAIN queue')
  BY <1>3 DEF ClaimsOf
<1>8. ClaimsOf(DOMAIN queue) \subseteq ClaimsOf(DOMAIN queue')
  BY <1>6 DEF ClaimsOf
<1>9. TypeOK'
  BY <1>1, <1>2, <1>4, <1>6, <1>7, <1>8, BoundsAssumption DEF IInv, TypeOK
<1>10. QueueFinal' /\ FactsKept' /\ AtWork'
  BY <1>1, <1>3, <1>4, <1>6 DEF IInv, QueueFinal, FactsKept, AtWork
<1>11. NothingSkipped'
  <2>1. \A t : (ClaimsOf({t}))' = ClaimsOf({t})
    BY <1>3 DEF ClaimsOf
  <2> QED
    BY <1>1, <1>6, <2>1 DEF IInv, NothingSkipped
<1>12. InChainOrder'
  <2> SUFFICES ASSUME NEW c \in claims, NEW d \in ClaimsOf(DOMAIN queue'),
                      d[1] < c[1] \/ (d[1] = c[1] /\ d[2] < c[2])
               PROVE  d \in claims
    BY <1>1, <1>7 DEF InChainOrder
  <2>1. c[1] \in 1..Len(queue) /\ d[1] \in Nat /\ d[1] >= 1
    BY <1>4, <1>5, <1>6 DEF IInv, TypeOK, ClaimsOf
  <2>2. d[1] \in DOMAIN queue
    BY <1>5, <2>1
  <2>3. d \in ClaimsOf(DOMAIN queue)
    BY <2>2 DEF ClaimsOf
  <2> QED
    BY <2>3 DEF IInv, InChainOrder
<1> QED
  BY <1>3, <1>9, <1>10, <1>11, <1>12 DEF IInv

LEMMA TakeStep ==
    ASSUME IInv, Take
    PROVE  IInv'
<1>1. PICK t : t = Oldest
  OBVIOUS
<1>2. /\ work = None /\ rebuild # "required" /\ Pending # {}
      /\ facts' = facts \cup {t} /\ work' = [tx |-> t, at |-> 1, gap |-> FALSE]
      /\ UNCHANGED <<chainVars, queue, verified, claims, positions, barrier, rebuild, run,
                     reading, crashes>>
  BY <1>1 DEF Take
<1>3. /\ t \in DOMAIN queue
      /\ \A s \in DOMAIN queue : s < t => queue[s] = "processed"
  <2>1. t \in Pending /\ \A s \in Pending : t <= s
    BY <1>1, <1>2, QueueTyped, OldestIsFirst DEF Oldest
  <2> QED
    BY <2>1, QueueTyped DEF Pending
<1>4. UNCHANGED <<log, chain, slot, chainAt, unlogged, burned, burnedAt>>
  BY <1>2 DEF chainVars
<1>5. /\ \A x : (Events(x))' = Events(x)
      /\ Finalized' = Finalized /\ LogTyped' /\ ChainTyped'
  BY <1>2, SameChain
<1>6. \A T : (ClaimsOf(T))' = ClaimsOf(T)
  BY <1>5 DEF ClaimsOf
<1>7. work' \in [tx : DOMAIN queue, at : 1..3, gap : BOOLEAN]
  BY <1>2, <1>3
<1>8. TypeOK'
  BY <1>2, <1>3, <1>4, <1>6, <1>7 DEF IInv, TypeOK
<1>9. QueueFinal' /\ FactsKept' /\ NothingSkipped' /\ InChainOrder'
  BY <1>2, <1>5, <1>6 DEF IInv, QueueFinal, FactsKept, NothingSkipped, InChainOrder
<1>10. AtWork'
  <2>1. work'.tx = t /\ work'.at = 1
    BY <1>2
  <2> QED
    BY <1>2, <1>3, <2>1 DEF AtWork
<1> QED
  BY <1>5, <1>8, <1>9, <1>10 DEF IInv

LEMMA CollectFactsStep ==
    ASSUME IInv, CollectFacts
    PROVE  IInv'
<1>1. Min(Pending \ facts) \in DOMAIN queue
  BY QueueTyped, OldestIsFirst DEF CollectFacts
<1>2. facts' = facts \cup {Min(Pending \ facts)}
  BY DEF CollectFacts
<1> QED
  BY <1>1, <1>2, CollectionStep DEF CollectFacts, IInv, TypeOK

\* What the poll is at.
LEMMA WorkTyped ==
    ASSUME IInv, work # None
    PROVE  /\ work.tx \in DOMAIN queue /\ work.at \in 1..3 /\ work.gap \in BOOLEAN
           /\ work = [tx |-> work.tx, at |-> work.at, gap |-> work.gap]
BY DEF IInv, TypeOK

LEMMA ClaimKnown ==
    ASSUME IInv, AtEvent
    PROVE  /\ work.tx \in DOMAIN queue /\ work.at \in 1..2 /\ work.gap = FALSE
           /\ work.at <= Len(Events(work.tx)) /\ Claim \in ClaimsOf(DOMAIN queue)
           /\ Events(work.tx)[work.at] \in Event
<1>1. /\ work.tx \in DOMAIN queue /\ work.at \in 1..3 /\ work.gap = FALSE
      /\ work.at <= Len(Events(work.tx))
  BY WorkTyped DEF AtEvent
<1>2. Events(work.tx) \in Seq(Event) /\ Len(Events(work.tx)) \in 1..2
  BY <1>1, QueueTyped
<1>3. work.at \in 1..2
  <2>1. \A k \in 1..2, j \in 1..3 : j <= k => j \in 1..2
    OBVIOUS
  <2> QED
    BY <1>1, <1>2, <2>1
<1>4. Events(work.tx)[work.at] \in Event
  BY <1>1, <1>2
<1> QED
  BY <1>1, <1>3, <1>4 DEF Claim, ClaimsOf

\* The next event is looked at: its claim is there, made now or earlier.
LEMMA EventStep ==
    ASSUME IInv, AtEvent, NextEvent,
           UNCHANGED <<chainVars, queue, verified, facts, barrier, rebuild, run, reading>>,
           claims' = claims \cup {Claim}, positions' \in Balances
    PROVE  IInv'
<1>1. /\ work.tx \in DOMAIN queue /\ work.at \in 1..2 /\ work.gap = FALSE
      /\ work.at <= Len(Events(work.tx)) /\ Claim \in ClaimsOf(DOMAIN queue)
  BY ClaimKnown
<1>2. work' = [tx |-> work.tx, at |-> work.at + 1, gap |-> FALSE]
  BY <1>1, WorkTyped DEF NextEvent, AtEvent
<1>3. UNCHANGED <<log, chain, slot, chainAt, unlogged, burned, burnedAt>>
  BY DEF chainVars
<1>4. /\ \A x : (Events(x))' = Events(x)
      /\ Finalized' = Finalized /\ LogTyped' /\ ChainTyped'
  BY SameChain
<1>5. \A T : (ClaimsOf(T))' = ClaimsOf(T)
  BY <1>4 DEF ClaimsOf
<1>6. work' \in [tx : DOMAIN queue, at : 1..3, gap : BOOLEAN]
  BY <1>1, <1>2
<1>7. TypeOK'
  BY <1>1, <1>3, <1>5, <1>6 DEF IInv, TypeOK, Balances
<1>8. QueueFinal' /\ FactsKept' /\ NothingSkipped'
  BY <1>4, <1>5 DEF IInv, QueueFinal, FactsKept, NothingSkipped
<1>9. AtWork'
  <2>1. work # None /\ rebuild # "required" /\ work.tx \in facts
        /\ \A t \in DOMAIN queue : t < work.tx => queue[t] = "processed"
    BY DEF IInv, AtWork, AtEvent
  <2>2. \A j \in 1..2 : j < work.at /\ j <= Len(Events(work.tx)) => <<work.tx, j>> \in claims
    BY DEF IInv, AtWork, AtEvent
  <2>3. work'.tx = work.tx /\ work'.at = work.at + 1
    BY <1>2
  <2>4. \A i \in 1..2 : i < work.at + 1 /\ i <= Len(Events(work.tx)) => <<work.tx, i>> \in claims'
    <3> SUFFICES ASSUME NEW i \in 1..2, i < work.at + 1, i <= Len(Events(work.tx))
                 PROVE  <<work.tx, i>> \in claims'
      OBVIOUS
    <3>1. CASE i = work.at
      BY <3>1 DEF Claim
    <3>2. CASE i # work.at
      <4>1. work.at \in 1..2
        BY <1>1
      <4>2. i < work.at
        BY <3>2, <4>1
      <4>3. <<work.tx, i>> \in claims
        BY <2>2, <4>2, Zenon
      <4> QED
        BY <4>3
    <3> QED
      BY <3>1, <3>2
  <2> QED
    BY <1>4, <2>1, <2>3, <2>4 DEF AtWork
<1>10. InChainOrder'
  <2> SUFFICES ASSUME NEW c \in claims', NEW d \in ClaimsOf(DOMAIN queue),
                      d[1] < c[1] \/ (d[1] = c[1] /\ d[2] < c[2])
               PROVE  d \in claims'
    BY <1>5 DEF InChainOrder
  <2>1. CASE c \in claims
    BY <2>1 DEF IInv, InChainOrder
  <2>2. CASE c = Claim
    <3>1. c[1] = work.tx /\ c[2] = work.at /\ work # None
      BY <2>2 DEF Claim, AtEvent
    <3>2. d[1] \in DOMAIN queue /\ d[2] \in 1..2 /\ d[2] <= Len(Events(d[1]))
          /\ d = <<d[1], d[2]>> /\ d \in ClaimsOf({d[1]})
      BY DEF ClaimsOf
    <3>3. CASE d[1] < work.tx
      <4>1. queue[d[1]] = "processed" /\ rebuild # "required"
        BY <3>1, <3>2, <3>3 DEF IInv, AtWork
      <4> QED
        BY <3>2, <4>1 DEF IInv, NothingSkipped
    <3>4. CASE d[1] = work.tx /\ d[2] < work.at
      BY <3>1, <3>2, <3>4 DEF IInv, AtWork
    <3> QED
      BY <3>1, <3>3, <3>4
  <2> QED
    BY <2>1, <2>2
<1> QED
  BY <1>4, <1>7, <1>8, <1>9, <1>10 DEF IInv

LEMMA SkipClaimedStep ==
    ASSUME IInv, SkipClaimed
    PROVE  IInv'
<1>1. claims' = claims \cup {Claim} /\ positions' \in Balances
  BY DEF SkipClaimed, dbVars, IInv, TypeOK, Balances
<1> QED
  BY <1>1, EventStep DEF SkipClaimed, dbVars

LEMMA ApplyEventStep ==
    ASSUME IInv, ApplyEvent
    PROVE  IInv'
<1> DEFINE ev == Events(work.tx)[work.at]
<1>1. /\ Covered(work.tx) \/ ~Gap(ev)
      /\ positions' = IF Covered(work.tx) THEN positions ELSE Effect(ev, positions)
  BY DEF ApplyEvent
<1>2. positions \in Balances
  BY DEF IInv, TypeOK, Balances
<1>3. ev \in Event
  BY ClaimKnown DEF ApplyEvent
<1> HIDE DEF ev
<1>4. CASE Covered(work.tx)
  BY <1>1, <1>2, <1>4, EventStep DEF ApplyEvent
<1>5. CASE ~Covered(work.tx)
  <2>1. ev.type = "Redeemed" => SharesRemoved(ev) <= positions[ev.user]
    <3>1. SharesRemoved(ev) \in Nat /\ positions[ev.user] \in Nat
      BY <1>2, <1>3 DEF SharesRemoved, Event, Balances
    <3> QED
      BY <1>1, <1>5, <3>1 DEF Gap
  <2>2. positions' \in Balances
    BY <1>1, <1>2, <1>3, <1>5, <2>1, EffectTyped
  <2> QED
    BY <2>2, EventStep DEF ApplyEvent
<1> QED
  BY <1>4, <1>5

\* The poll comes upon a gap; nothing else moves.
LEMMA FindGapStep ==
    ASSUME IInv, FindGap
    PROVE  IInv'
<1>1. work # None /\ work' = [tx |-> work.tx, at |-> work.at, gap |-> TRUE]
      /\ work.tx \in DOMAIN queue /\ work.at \in 1..3
      /\ UNCHANGED <<chainVars, dbVars, reading, crashes>>
  BY WorkTyped DEF FindGap, AtEvent
<1>2. UNCHANGED <<log, chain, slot, chainAt, unlogged, burned, burnedAt>>
      /\ UNCHANGED <<queue, verified, facts, claims, positions, barrier, rebuild, run>>
  BY <1>1 DEF chainVars, dbVars
<1>3. /\ \A x : (Events(x))' = Events(x)
      /\ Finalized' = Finalized /\ LogTyped' /\ ChainTyped'
  BY <1>1, SameChain
<1>4. \A T : (ClaimsOf(T))' = ClaimsOf(T)
  BY <1>3 DEF ClaimsOf
<1>5. work' \in [tx : DOMAIN queue, at : 1..3, gap : BOOLEAN]
      /\ work'.tx = work.tx /\ work'.at = work.at
  BY <1>1
<1>6. TypeOK'
  BY <1>1, <1>2, <1>4, <1>5 DEF IInv, TypeOK
<1>7. QueueFinal' /\ FactsKept' /\ NothingSkipped' /\ InChainOrder' /\ AtWork'
  BY <1>1, <1>2, <1>3, <1>4, <1>5 DEF IInv, QueueFinal, FactsKept, NothingSkipped,
     InChainOrder, AtWork
<1> QED
  BY <1>3, <1>6, <1>7 DEF IInv

LEMMA MarkRebuildStep ==
    ASSUME IInv, MarkRebuild
    PROVE  IInv'
<1>1. rebuild' = "required" /\ work' = None
      /\ UNCHANGED <<chainVars, queue, verified, facts, claims, positions, barrier, run,
                     reading, crashes>>
  BY DEF MarkRebuild
<1>2. UNCHANGED <<log, chain, slot, chainAt, unlogged, burned, burnedAt>>
  BY <1>1 DEF chainVars
<1>3. /\ \A x : (Events(x))' = Events(x)
      /\ Finalized' = Finalized /\ LogTyped' /\ ChainTyped'
  BY <1>1, SameChain
<1>4. \A T : (ClaimsOf(T))' = ClaimsOf(T)
  BY <1>3 DEF ClaimsOf
<1>5. TypeOK'
  BY <1>1, <1>2, <1>4 DEF IInv, TypeOK
<1>6. QueueFinal' /\ FactsKept' /\ NothingSkipped' /\ InChainOrder' /\ AtWork'
  BY <1>1, <1>3, <1>4 DEF IInv, QueueFinal, FactsKept, NothingSkipped, InChainOrder, AtWork
<1> QED
  BY <1>3, <1>5, <1>6 DEF IInv

\* One transaction leaves the queue, with its facts: because its events are
\* claimed, or in a replay while a rebuild is required.
LEMMA ProcessedStep ==
    ASSUME IInv, NEW t \in DOMAIN queue,
           queue' = [queue EXCEPT ![t] = "processed"],
           facts' = facts \cup {t}, work' = None,
           UNCHANGED <<chainVars, verified, claims, positions, barrier, rebuild, run, reading>>,
           rebuild = "required" \/ ClaimsOf({t}) \subseteq claims
    PROVE  IInv'
<1>1. UNCHANGED <<log, chain, slot, chainAt, unlogged, burned, burnedAt>>
  BY DEF chainVars
<1>2. /\ \A x : (Events(x))' = Events(x)
      /\ Finalized' = Finalized /\ LogTyped' /\ ChainTyped'
  BY SameChain
<1>3. \A T : (ClaimsOf(T))' = ClaimsOf(T)
  BY <1>2 DEF ClaimsOf
<1>4. /\ DOMAIN queue' = DOMAIN queue /\ Len(queue') = Len(queue)
      /\ queue' \in Seq({"pending", "processed"}) /\ queue'[t] = "processed"
      /\ \A s \in DOMAIN queue : s # t => queue'[s] = queue[s]
  BY DEF IInv, TypeOK
<1>5. TypeOK'
  BY <1>1, <1>3, <1>4 DEF IInv, TypeOK
<1>6. QueueFinal' /\ FactsKept' /\ AtWork'
  BY <1>2, <1>4 DEF IInv, QueueFinal, FactsKept, AtWork
<1>7. NothingSkipped' /\ InChainOrder'
  BY <1>3, <1>4 DEF IInv, NothingSkipped, InChainOrder
<1> QED
  BY <1>2, <1>5, <1>6, <1>7 DEF IInv

LEMMA FinishStep ==
    ASSUME IInv, Finish
    PROVE  IInv'
<1>1. PICK t : t = work.tx
  OBVIOUS
<1>2. /\ work # None /\ work.at > Len(Events(t)) /\ work' = None
      /\ queue' = [queue EXCEPT ![t] = "processed"]
      /\ UNCHANGED <<chainVars, verified, facts, claims, positions, barrier, rebuild, run,
                     reading, crashes>>
  BY <1>1 DEF Finish
<1>3. /\ t \in DOMAIN queue /\ t \in facts /\ work.at \in Nat
      /\ \A i \in 1..2 : i < work.at /\ i <= Len(Events(t)) => <<t, i>> \in claims
  BY <1>1, <1>2, WorkTyped DEF IInv, AtWork
<1>4. Len(Events(t)) \in 1..2
  BY <1>3, QueueTyped
<1>5. ClaimsOf({t}) \subseteq claims
  <2> SUFFICES ASSUME NEW c \in ClaimsOf({t})
               PROVE  c \in claims
    OBVIOUS
  <2>1. c = <<t, c[2]>> /\ c[2] \in 1..2 /\ c[2] <= Len(Events(t))
    BY DEF ClaimsOf
  <2>2. c[2] < work.at
    BY <1>2, <1>3, <1>4, <2>1
  <2> QED
    BY <1>3, <2>1, <2>2
<1> QED
  BY <1>2, <1>3, <1>5, ProcessedStep

LEMMA ReplayStep ==
    ASSUME IInv, ProcedureFollowed, Replay
    PROVE  IInv'
<1>1. PICK t : t = Oldest
  OBVIOUS
<1>2. t \in DOMAIN queue
  BY <1>1, QueueTyped, OldestIsFirst DEF Replay, Oldest
<1> QED
  BY <1>1, <1>2, ProcessedStep DEF ProcedureFollowed, Replay

-----------------------------------------------------------------------------
(* Snapshots.                                                              *)

LEMMA FetchStep ==
    ASSUME IInv, SyncFetches \/ OperatorFetches
    PROVE  IInv'
<1>1. PICK r \in Readers : FetchSnapshot(r)
  BY DEF SyncFetches, OperatorFetches, Readers
<1>2. slot \in 0..slot /\ reading \in [Readers -> {None} \cup 0..slot]
  BY BoundsAssumption DEF IInv, TypeOK
<1>3. reading' \in [Readers -> {None} \cup 0..slot]
      /\ UNCHANGED <<chainVars, dbVars, work, crashes>>
  BY <1>1, <1>2 DEF FetchSnapshot
<1> QED
  BY <1>3, CollectionStep DEF dbVars, IInv, TypeOK

LEMMA StageRebuildStep ==
    ASSUME IInv, StageRebuild
    PROVE  IInv'
<1>1. /\ reading["operator"] # None
      /\ run' = [slot |-> reading["operator"], facts |-> facts, status |-> "staged"]
      /\ reading' = [reading EXCEPT !["operator"] = None]
      /\ UNCHANGED <<chainVars, queue, verified, facts, claims, positions, barrier, rebuild,
                     work, crashes>>
  BY DEF StageRebuild
<1>2. reading["operator"] \in 0..slot /\ reading' \in [Readers -> {None} \cup 0..slot]
  BY <1>1 DEF IInv, TypeOK, Readers
<1> QED
  BY <1>1, <1>2, CollectionStep DEF IInv, TypeOK

LEMMA SnapshotTyped ==
    ASSUME IInv, NEW s \in 0..slot
    PROVE  Snapshot(s) \in Balances
<1>1. chainAt \in Seq(Balances) /\ Len(chainAt) = slot + 1 /\ slot \in Nat
  BY BoundsAssumption DEF IInv, ChainTyped, TypeOK
<1>2. s + 1 \in DOMAIN chainAt
  BY <1>1
<1> QED
  BY <1>1, <1>2 DEF Snapshot

\* Balances are replaced by a snapshot, and with an activation the claims of
\* all facts are made and the guard is lifted.
LEMMA PublishedStep ==
    ASSUME IInv, work = None, work' = None,
           UNCHANGED <<chainVars, queue, verified, facts>>,
           positions' \in Balances, barrier' \in {None} \cup 0..slot,
           rebuild' \in {"no", "required", "resolved"},
           reading' \in [Readers -> {None} \cup 0..slot],
           run' = None \/ run' \in [slot : 0..slot, facts : SUBSET facts, status : {"staged", "activated"}],
           \/ claims' = claims /\ rebuild' = rebuild
           \/ Pending = {} /\ claims' = claims \cup ClaimsOf(facts)
    PROVE  IInv'
<1>1. UNCHANGED <<log, chain, slot, chainAt, unlogged, burned, burnedAt>>
  BY DEF chainVars
<1>2. /\ \A x : (Events(x))' = Events(x)
      /\ Finalized' = Finalized /\ LogTyped' /\ ChainTyped'
  BY SameChain
<1>3. \A T : (ClaimsOf(T))' = ClaimsOf(T)
  BY <1>2 DEF ClaimsOf
<1>4. ClaimsOf(facts) \subseteq ClaimsOf(DOMAIN queue)
  BY DEF IInv, TypeOK, ClaimsOf
<1>5. TypeOK'
  BY <1>1, <1>3, <1>4 DEF IInv, TypeOK, Balances
<1>6. QueueFinal' /\ FactsKept' /\ AtWork'
  BY <1>2 DEF IInv, QueueFinal, FactsKept, AtWork
<1>7. NothingSkipped' /\ InChainOrder'
  <2>1. CASE claims' = claims /\ rebuild' = rebuild
    BY <1>3, <2>1 DEF IInv, NothingSkipped, InChainOrder
  <2>2. CASE Pending = {} /\ claims' = claims \cup ClaimsOf(facts)
    <3>1. \A t \in DOMAIN queue : t \in facts
      BY <2>2, QueueTyped DEF Pending, IInv, FactsKept
    <3>2. ClaimsOf(DOMAIN queue) \subseteq claims'
      BY <2>2, <3>1 DEF ClaimsOf
    <3>3. \A t \in DOMAIN queue : ClaimsOf({t}) \subseteq ClaimsOf(DOMAIN queue)
      BY DEF ClaimsOf
    <3> QED
      BY <1>3, <3>2, <3>3 DEF NothingSkipped, InChainOrder
  <2> QED
    BY <2>1, <2>2
<1> QED
  BY <1>2, <1>5, <1>6, <1>7 DEF IInv

LEMMA PublishSnapshotStep ==
    ASSUME IInv, PublishSnapshot
    PROVE  IInv'
<1>1. reading["sync"] \in 0..slot /\ reading' \in [Readers -> {None} \cup 0..slot]
  BY DEF PublishSnapshot, IInv, TypeOK, Readers
<1>2. Snapshot(reading["sync"]) \in Balances
  BY <1>1, SnapshotTyped
<1> QED
  BY <1>1, <1>2, PublishedStep DEF PublishSnapshot, Publishable, CompleteThrough, IInv, TypeOK

LEMMA ActivateRebuildStep ==
    ASSUME IInv, ActivateRebuild
    PROVE  IInv'
<1>1. reading["operator"] \in 0..slot /\ reading' \in [Readers -> {None} \cup 0..slot]
  BY DEF ActivateRebuild, IInv, TypeOK, Readers
<1>2. Snapshot(reading["operator"]) \in Balances
  BY <1>1, SnapshotTyped
<1>3. work = None /\ Pending = {}
  BY DEF ActivateRebuild, Activatable, CompleteThrough
<1>4. run' \in [slot : 0..slot, facts : SUBSET facts, status : {"staged", "activated"}]
  BY DEF ActivateRebuild, IInv, TypeOK
<1> QED
  BY <1>1, <1>2, <1>3, <1>4, PublishedStep DEF ActivateRebuild, PublishedClaims

LEMMA CrashStep ==
    ASSUME IInv, Crash
    PROVE  IInv'
<1>1. reading' \in [Readers -> {None} \cup 0..slot] /\ work' = None
      /\ UNCHANGED <<chainVars, dbVars>>
  BY DEF Crash
<1> QED
  BY <1>1, CollectionStep DEF dbVars, IInv, TypeOK

-----------------------------------------------------------------------------
(* What the chain did: the events a transaction carries account for its    *)
(* balances.                                                               *)

\* What an event moves of the balance of u beside the fee, and of the fee.
Own(ev, shares, u) ==
    IF u # ev.user THEN 0
    ELSE CASE ev.type = "Minted"     -> ev.shares
           [] ev.type = "Redeemed"   -> -shares
           [] ev.type = "FeeAccrued" -> 0
FeePart(fee, u) ==
    (IF u = Creator THEN CreatorShare(fee) ELSE 0)
    + (IF u = Treasury THEN fee - CreatorShare(fee) ELSE 0)

\* What the transaction that emitted an event did to the chain's balances.
ChainDelta(ev, u) == Own(ev, ev.shares, u) + FeePart(ev.fee, u)

\* ... and to the supply.
Emission(ev) ==
    ev.fee + (CASE ev.type = "Minted"     -> ev.shares
                [] ev.type = "Redeemed"   -> -ev.shares
                [] ev.type = "FeeAccrued" -> 0)

LEMMA CreditAdds ==
    ASSUME NEW b \in [Users -> Int], NEW a \in Users, NEW n \in Int
    PROVE  /\ Credit(b, a, n) \in [Users -> Int]
           /\ \A u \in Users : Credit(b, a, n)[u] = b[u] + (IF u = a THEN n ELSE 0)
BY DEF Credit

LEMMA SplitAdds ==
    ASSUME NEW b \in [Users -> Int], NEW fee \in Nat
    PROVE  /\ CreditFeeSplit(b, fee) \in [Users -> Int]
           /\ \A u \in Users : /\ FeePart(fee, u) \in Int
                               /\ CreditFeeSplit(b, fee)[u] = b[u] + FeePart(fee, u)
<1>1. CreatorShare(fee) \in Int /\ fee - CreatorShare(fee) \in Int
  BY CreatorShareBounded
<1>2. Creator \in Users /\ Treasury \in Users
  BY UsersAssumption
<1> DEFINE c == CreatorShare(fee)
           b1 == Credit(b, Creator, c)
<1>3. /\ b1 \in [Users -> Int]
      /\ \A u \in Users : b1[u] = b[u] + (IF u = Creator THEN c ELSE 0)
  BY <1>1, <1>2, CreditAdds
<1> HIDE DEF b1
<1>4. /\ Credit(b1, Treasury, fee - c) \in [Users -> Int]
      /\ \A u \in Users :
             Credit(b1, Treasury, fee - c)[u] = b1[u] + (IF u = Treasury THEN fee - c ELSE 0)
  BY <1>1, <1>2, <1>3, CreditAdds
<1>5. CreditFeeSplit(b, fee) = Credit(b1, Treasury, fee - c)
  BY DEF CreditFeeSplit, b1
<1> HIDE DEF c
<1>6. ASSUME NEW u \in Users
      PROVE  /\ FeePart(fee, u) \in Int
             /\ CreditFeeSplit(b, fee)[u] = b[u] + FeePart(fee, u)
  <2>1. /\ FeePart(fee, u) = (IF u = Creator THEN c ELSE 0) + (IF u = Treasury THEN fee - c ELSE 0)
        /\ b[u] \in Int /\ c \in Int /\ fee - c \in Int
    BY <1>1 DEF FeePart, c
  <2>2. CreditFeeSplit(b, fee)[u]
        = (b[u] + (IF u = Creator THEN c ELSE 0)) + (IF u = Treasury THEN fee - c ELSE 0)
    BY <1>3, <1>4, <1>5
  <2> QED
    BY <2>1, <2>2
<1> QED
  BY <1>4, <1>5, <1>6

\* The indexer's effect of an event adds the same to whatever it finds.
LEMMA EffectAdds ==
    ASSUME NEW b \in [Users -> Int], NEW ev \in Event, NEW u \in Users
    PROVE  /\ Effect(ev, b)[u] = b[u] + (Own(ev, SharesRemoved(ev), u) + FeePart(ev.fee, u))
           /\ Own(ev, SharesRemoved(ev), u) + FeePart(ev.fee, u) \in Int
<1>1. ev.shares \in Nat /\ ev.fee \in Nat /\ ev.user \in Users /\ SharesRemoved(ev) \in Nat
      /\ ev.type \in {"Minted", "Redeemed", "FeeAccrued"} /\ b[u] \in Int
  BY DEF Event, SharesRemoved
<1> DEFINE b1 == CASE ev.type = "Minted"     -> Credit(b, ev.user, ev.shares)
                   [] ev.type = "Redeemed"   -> Credit(b, ev.user, -SharesRemoved(ev))
                   [] ev.type = "FeeAccrued" -> b
           own == Own(ev, SharesRemoved(ev), u)
<1>2. b1 \in [Users -> Int] /\ b1[u] = b[u] + own /\ own \in Int
  <2>1. CASE ev.type = "Minted"
    <3>1. b1 = Credit(b, ev.user, ev.shares) /\ own = IF u = ev.user THEN ev.shares ELSE 0
      BY <2>1 DEF Own
    <3> HIDE DEF own, b1
    <3> QED
      BY <1>1, <3>1, CreditAdds
  <2>2. CASE ev.type = "Redeemed"
    <3>1. b1 = Credit(b, ev.user, -SharesRemoved(ev))
          /\ own = IF u = ev.user THEN -SharesRemoved(ev) ELSE 0
      BY <2>2 DEF Own
    <3>2. -SharesRemoved(ev) \in Int
      BY <1>1
    <3> HIDE DEF own, b1
    <3> QED
      BY <1>1, <3>1, <3>2, CreditAdds
  <2>3. CASE ev.type = "FeeAccrued"
    <3>1. b1 = b /\ own = 0
      BY <2>3 DEF Own
    <3> HIDE DEF own, b1
    <3> QED
      BY <1>1, <3>1
  <2> QED
    BY <1>1, <2>1, <2>2, <2>3
<1>3. Effect(ev, b) = CreditFeeSplit(b1, ev.fee)
  BY DEF Effect
<1> HIDE DEF b1, own
<1>4. Effect(ev, b)[u] = b1[u] + FeePart(ev.fee, u) /\ FeePart(ev.fee, u) \in Int
  BY <1>1, <1>2, <1>3, SplitAdds
<1>5. Effect(ev, b)[u] = b[u] + (own + FeePart(ev.fee, u)) /\ own + FeePart(ev.fee, u) \in Int
  BY <1>1, <1>2, <1>4
<1> QED
  BY <1>5 DEF own

LEMMA DeltaIs ==
    ASSUME NEW ev \in Event, NEW u \in Users
    PROVE  /\ Delta(ev, u) \in Int
           /\ Delta(ev, u) = Own(ev, SharesRemoved(ev), u) + FeePart(ev.fee, u)
           /\ \A b \in [Users -> Int] : Effect(ev, b)[u] = b[u] + Delta(ev, u)
<1> DEFINE flat == [v \in Users |-> GENESIS]
           d == Own(ev, SharesRemoved(ev), u) + FeePart(ev.fee, u)
<1>1. flat \in [Users -> Int] /\ flat[u] = GENESIS /\ GENESIS \in Int
  BY AmountsAssumption
<1>2. Delta(ev, u) = Effect(ev, flat)[u] - flat[u]
  BY DEF Delta
<1>3. Effect(ev, flat)[u] = flat[u] + d /\ d \in Int
  BY <1>1, EffectAdds
<1>4. \A b \in [Users -> Int] : Effect(ev, b)[u] = b[u] + d
  BY EffectAdds
<1> HIDE DEF flat, d
<1>5. Delta(ev, u) = d
  BY <1>1, <1>2, <1>3
<1> QED
  BY <1>3, <1>4, <1>5 DEF d

-----------------------------------------------------------------------------
(* Every claimed event counts once.                                        *)

\* What the claims of S add to the balance of u, and what they are added to.
Applied(S, u) == NetTotal([c \in S |-> Delta(Events(c[1])[c[2]], u)])
Published(u)  == IF barrier = None THEN 0 ELSE Snapshot(barrier)[u]
After         == {c \in claims : ~Covered(c[1])}

LEMMA ExactlyOnceSum ==
    ExactlyOnce <=> \A u \in Users : positions[u] = Published(u) + Applied(After, u)
BY DEF ExactlyOnce, Applied, Published, After

LEMMA LoggedClaims ==
    ASSUME IInv
    PROVE  /\ IsFiniteSet(ClaimsOf(DOMAIN log))
           /\ ClaimsOf(DOMAIN queue) \subseteq ClaimsOf(DOMAIN log)
           /\ claims \subseteq ClaimsOf(DOMAIN log)
           /\ \A c \in ClaimsOf(DOMAIN log) : /\ c[1] \in DOMAIN log
                                              /\ Events(c[1])[c[2]] \in Event
                                              /\ SlotOf(c[1]) \in Nat
<1>1. Len(log) \in Nat /\ DOMAIN log = 1..Len(log) /\ \A t \in DOMAIN log : log[t] \in Transaction
  BY DEF IInv, LogTyped
<1>2. \A t \in DOMAIN log : Events(t) \in Seq(Event) /\ SlotOf(t) \in Nat
  BY <1>1 DEF Events, SlotOf, Transaction
<1>3. IsFiniteSet(DOMAIN log) /\ IsFiniteSet(1..2)
  <2>1. Len(log) \in Int /\ 1 \in Int /\ 2 \in Int
    BY <1>1
  <2> QED
    BY <1>1, <2>1, FS_Interval
<1>4. IsFiniteSet((DOMAIN log) \X (1..2))
  BY <1>3, FS_Product
<1>5. ClaimsOf(DOMAIN log) \in SUBSET ((DOMAIN log) \X (1..2))
  BY DEF ClaimsOf
<1>6. IsFiniteSet(ClaimsOf(DOMAIN log))
  BY <1>4, <1>5, FS_Subset
<1>7. ClaimsOf(DOMAIN queue) \subseteq ClaimsOf(DOMAIN log)
  BY QueueTyped DEF ClaimsOf
<1>8. ASSUME NEW c \in ClaimsOf(DOMAIN log)
      PROVE  c[1] \in DOMAIN log /\ Events(c[1])[c[2]] \in Event
  <2>1. c[1] \in DOMAIN log /\ c[2] \in 1..2 /\ c[2] <= Len(Events(c[1]))
    BY DEF ClaimsOf
  <2>2. Events(c[1]) \in Seq(Event) /\ c[2] \in 1..Len(Events(c[1]))
    BY <1>2, <2>1
  <2> QED
    BY <2>1, <2>2
<1>9. claims \subseteq ClaimsOf(DOMAIN queue)
  BY DEF IInv, TypeOK
<1> QED
  BY <1>2, <1>6, <1>7, <1>8, <1>9

LEMMA AppliedType ==
    ASSUME IInv, NEW S \in SUBSET ClaimsOf(DOMAIN log), NEW u \in Users
    PROVE  /\ IsFiniteSet(S)
           /\ [c \in S |-> Delta(Events(c[1])[c[2]], u)] \in [S -> Int]
           /\ Applied(S, u) \in Int
<1>1. IsFiniteSet(S)
  BY LoggedClaims, FS_Subset
<1>2. \A c \in S : Delta(Events(c[1])[c[2]], u) \in Int
  BY LoggedClaims, DeltaIs
<1>3. [c \in S |-> Delta(Events(c[1])[c[2]], u)] \in [S -> Int]
  BY <1>2
<1> QED
  BY <1>1, <1>3, NetType DEF Applied

\* What happened stays as it was: the logged transactions and the finalized balances.
PastKept ==
    /\ ChainGrows
    /\ \A s \in 0..slot : (Snapshot(s))' = Snapshot(s) /\ burnedAt'[s + 1] = burnedAt[s + 1]

LEMMA AppliedStays ==
    ASSUME ChainGrows, NEW S \in SUBSET ClaimsOf(DOMAIN log), NEW u \in Users
    PROVE  (Applied(S, u))' = Applied(S, u)
<1>1. \A c \in S : c[1] \in DOMAIN log
  BY DEF ClaimsOf
<1>2. \A c \in S : (Events(c[1]))' = Events(c[1])
  BY <1>1, EventsStay
<1>3. [c \in S |-> Delta((Events(c[1]))'[c[2]], u)] = [c \in S |-> Delta(Events(c[1])[c[2]], u)]
  BY <1>2
<1> QED
  BY <1>3 DEF Applied

LEMMA CoveredStays ==
    ASSUME IInv, ChainGrows, barrier' = barrier
    PROVE  /\ \A c \in ClaimsOf(DOMAIN log) : (Covered(c[1]))' <=> Covered(c[1])
           /\ claims' = claims => After' = After
<1>1. \A c \in ClaimsOf(DOMAIN log) : (SlotOf(c[1]))' = SlotOf(c[1])
  BY LoggedClaims, EventsStay
<1>2. \A c \in ClaimsOf(DOMAIN log) : (Covered(c[1]))' <=> Covered(c[1])
  BY <1>1 DEF Covered
<1> QED
  BY <1>2, LoggedClaims DEF After

LEMMA PublishedStays ==
    ASSUME IInv, PastKept, barrier' = barrier, NEW u \in Users
    PROVE  (Published(u))' = Published(u)
<1>1. barrier # None => barrier \in 0..slot
  BY DEF IInv, TypeOK
<1> QED
  BY <1>1 DEF PastKept, Published

LEMMA NothingApplied ==
    ASSUME IInv, ExactlyOnce, PastKept, UNCHANGED <<claims, positions, barrier>>
    PROVE  ExactlyOnce'
<1>1. After' = After /\ After \in SUBSET ClaimsOf(DOMAIN log)
  BY CoveredStays, LoggedClaims DEF PastKept, After
<1>2. ASSUME NEW u \in Users
      PROVE  positions'[u] = (Published(u))' + (Applied(After, u))'
  <2>1. (Published(u))' = Published(u)
    BY PublishedStays
  <2>2. (Applied(After, u))' = Applied(After, u)
    BY <1>1, AppliedStays DEF PastKept, Applied
  <2>3. positions[u] = Published(u) + Applied(After, u)
    BY ExactlyOnceSum
  <2> QED
    BY <2>1, <2>2, <2>3
<1> QED
  BY <1>2 DEF ExactlyOnce, Applied, Published, After

\* A published snapshot covers every claim.
LEMMA SnapshotApplied ==
    ASSUME IInv, IInv', PastKept, NEW s \in 0..slot,
           barrier' = s, positions' = Snapshot(s),
           \A c \in claims' : (SlotOf(c[1]))' <= s
    PROVE  ExactlyOnce'
<1>0. s # None
  <2>1. slot \in Nat
    BY DEF IInv, TypeOK
  <2> QED
    BY <2>1, BoundsAssumption
<1>1. After' = {}
  BY <1>0 DEF After, Covered
<1>2. ASSUME NEW u \in Users
      PROVE  positions'[u] = (Published(u))' + (Applied(After, u))'
  <2>1. (Published(u))' = Snapshot(s)[u]
    BY <1>0 DEF PastKept, Published
  <2>2. (Applied(After, u))' = 0
    <3> DEFINE f == [c \in {} |-> Delta((Events(c[1]))'[c[2]], u)]
    <3>1. f \in [{} -> Int]
      OBVIOUS
    <3>2. (Applied(After, u))' = NetTotal(f)
      BY <1>1 DEF Applied
    <3> HIDE DEF f
    <3> QED
      BY <3>1, <3>2, NetNone
  <2>3. Snapshot(s)[u] \in Nat
    BY SnapshotTyped DEF Balances
  <2> QED
    BY <2>1, <2>2, <2>3
<1> QED
  BY <1>2 DEF ExactlyOnce, Applied, Published, After

\* A transaction of the basket: its events tell what it did to the balances.
ExecutedEvents(events) ==
    /\ Len(events) \in 1..2
    /\ log' = Append(log, [slot |-> slot + 1, events |-> events])
    /\ UNCHANGED <<slot, chainAt, unlogged, burned, burnedAt>>
    /\ \A u \in Users :
           chain'[u] = chain[u] + ChainDelta(events[1], u)
                       + (IF Len(events) = 2 THEN ChainDelta(events[2], u) ELSE 0)
    /\ Total(chain') = Total(chain) + Emission(events[1])
                       + (IF Len(events) = 2 THEN Emission(events[2]) ELSE 0)
Executed == \E events \in Seq(Event) : ExecutedEvents(events)

\* Shares change hands, or are burned, without an event.
Transferred ==
    /\ UNCHANGED <<log, slot, chainAt, burnedAt>> /\ unlogged' = unlogged \cup {slot + 1}
    /\ burned' \in Nat /\ Total(chain') + burned' = Total(chain) + burned

\* Payments move the sum of all balances by what they pay.
LEMMA CreditTotal ==
    ASSUME NEW b \in Balances, NEW u \in Users, NEW n \in Int, b[u] + n >= 0
    PROVE  Credit(b, u, n) \in Balances /\ Total(Credit(b, u, n)) = Total(b) + n
<1>1. Credit(b, u, n) \in Balances
  BY CreditTyped
<1>2. Credit(b, u, n)[u] = b[u] + n /\ \A x \in Users : x # u => Credit(b, u, n)[x] = b[x]
  BY DEF Credit, Balances
<1>3. IsFiniteSet(Users) /\ b[u] \in Nat
  BY UsersAssumption DEF Balances
<1>4. Total(Credit(b, u, n)) = Total(b) - b[u] + Credit(b, u, n)[u]
  BY <1>1, <1>2, <1>3, TotalMoves DEF Balances
<1>5. Total(b) \in Nat
  BY <1>3, TotalType DEF Balances
<1> QED
  BY <1>1, <1>2, <1>3, <1>4, <1>5

LEMMA SplitTotal ==
    ASSUME NEW b \in Balances, NEW fee \in Nat
    PROVE  CreditFeeSplit(b, fee) \in Balances /\ Total(CreditFeeSplit(b, fee)) = Total(b) + fee
<1> DEFINE c == CreatorShare(fee)
           b1 == Credit(b, Creator, c)
<1>1. c \in Nat /\ fee - c \in Nat /\ Creator \in Users /\ Treasury \in Users
  BY CreatorShareBounded, UsersAssumption
<1>2. CreditFeeSplit(b, fee) = Credit(b1, Treasury, fee - c)
  BY DEF CreditFeeSplit
<1> HIDE DEF c
<1>3. b1 \in Balances /\ Total(b1) = Total(b) + c
  <2>1. b[Creator] + c >= 0 /\ c \in Int
    BY <1>1 DEF Balances
  <2> QED
    BY <1>1, <2>1, CreditTotal
<1> HIDE DEF b1
<1>4. /\ Credit(b1, Treasury, fee - c) \in Balances
      /\ Total(Credit(b1, Treasury, fee - c)) = Total(b1) + (fee - c)
  <2>1. b1[Treasury] + (fee - c) >= 0 /\ fee - c \in Int
    BY <1>1, <1>3 DEF Balances
  <2> QED
    BY <1>1, <1>3, <2>1, CreditTotal
<1>5. Total(b) \in Nat
  BY UsersAssumption, TotalType DEF Balances
<1> QED
  BY <1>1, <1>2, <1>3, <1>4, <1>5

LEMMA EmissionType ==
    ASSUME NEW ev \in Event
    PROVE  Emission(ev) \in Int
BY DEF Emission, Event

LEMMA EventMoves ==
    ASSUME NEW b \in [Users -> Int], NEW u \in Users, NEW n \in Nat, NEW fee \in Nat,
           NEW w \in Users
    PROVE  /\ ChainDelta(Minted(u, n, fee), w) \in Int
           /\ ChainDelta(Redeemed(u, n, fee), w) \in Int
           /\ CreditFeeSplit(Credit(b, u, n), fee)[w] = b[w] + ChainDelta(Minted(u, n, fee), w)
           /\ CreditFeeSplit(Credit(b, u, -n), fee)[w] = b[w] + ChainDelta(Redeemed(u, n, fee), w)
<1>1. /\ Own(Minted(u, n, fee), n, w) = IF w = u THEN n ELSE 0
      /\ Own(Redeemed(u, n, fee), n, w) = IF w = u THEN -n ELSE 0
  BY DEF Own, Minted, Redeemed
<1>2. /\ ChainDelta(Minted(u, n, fee), w) = (IF w = u THEN n ELSE 0) + FeePart(fee, w)
      /\ ChainDelta(Redeemed(u, n, fee), w) = (IF w = u THEN -n ELSE 0) + FeePart(fee, w)
  BY <1>1 DEF ChainDelta, Minted, Redeemed
<1>3. n \in Int /\ -n \in Int /\ b[w] \in Int
  OBVIOUS
<1>4. /\ Credit(b, u, n) \in [Users -> Int]
      /\ Credit(b, u, n)[w] = b[w] + (IF w = u THEN n ELSE 0)
  BY <1>3, CreditAdds
<1>5. /\ Credit(b, u, -n) \in [Users -> Int]
      /\ Credit(b, u, -n)[w] = b[w] + (IF w = u THEN -n ELSE 0)
  BY <1>3, CreditAdds
<1>6. FeePart(fee, w) \in Int
      /\ CreditFeeSplit(Credit(b, u, n), fee)[w] = Credit(b, u, n)[w] + FeePart(fee, w)
  BY <1>4, SplitAdds
<1>7. CreditFeeSplit(Credit(b, u, -n), fee)[w] = Credit(b, u, -n)[w] + FeePart(fee, w)
  BY <1>5, SplitAdds
<1> QED
  BY <1>2, <1>3, <1>4, <1>5, <1>6, <1>7

LEMMA AccrualMoves ==
    ASSUME NEW b \in [Users -> Int], NEW accrued \in Nat, NEW w \in Users
    PROVE  /\ CreditFeeSplit(b, accrued) \in [Users -> Int]
           /\ ChainDelta(FeeAccrued(accrued), w) \in Int
           /\ CreditFeeSplit(b, accrued)[w] = b[w] + ChainDelta(FeeAccrued(accrued), w)
           /\ accrued = 0 => CreditFeeSplit(b, accrued)[w] = b[w]
<1>1. /\ CreditFeeSplit(b, accrued) \in [Users -> Int] /\ FeePart(accrued, w) \in Int
      /\ CreditFeeSplit(b, accrued)[w] = b[w] + FeePart(accrued, w) /\ b[w] \in Int
  BY SplitAdds
<1>2. ChainDelta(FeeAccrued(accrued), w) = 0 + FeePart(accrued, w)
  BY DEF ChainDelta, Own, FeeAccrued
<1>3. accrued = 0 => FeePart(accrued, w) = 0
  <2>1. accrued = 0 => CreatorShare(accrued) = 0
    BY CreatorShareBounded
  <2> QED
    BY <2>1 DEF FeePart
<1> QED
  BY <1>1, <1>2, <1>3

\* An accrual, which may emit nothing, and one event.
LEMMA AccruedTransaction ==
    ASSUME IInv, NEW accrued \in Nat, NEW ev \in Event, NEW balances,
           Execute(AccruedEvents(accrued) \o <<ev>>, balances),
           \A w \in Users : /\ ChainDelta(ev, w) \in Int
                            /\ balances[w] = CreditFeeSplit(chain, accrued)[w] + ChainDelta(ev, w),
           Total(balances) = Total(CreditFeeSplit(chain, accrued)) + Emission(ev)
    PROVE  Executed
<1> DEFINE events == AccruedEvents(accrued) \o <<ev>>
<1>1. /\ log' = Append(log, [slot |-> slot + 1, events |-> events]) /\ chain' = balances
      /\ UNCHANGED <<slot, chainAt, unlogged, burned, burnedAt>>
  BY DEF Execute
<1>2. chain \in [Users -> Int] /\ \A w \in Users : chain[w] \in Int
  BY DEF IInv, TypeOK
<1>3. events \in Seq(Event) /\ Len(events) \in 1..2
  BY EventsTyped
<1>4. ASSUME NEW w \in Users
      PROVE  chain'[w] = chain[w] + ChainDelta(events[1], w)
                         + (IF Len(events) = 2 THEN ChainDelta(events[2], w) ELSE 0)
  <2>1. /\ ChainDelta(FeeAccrued(accrued), w) \in Int /\ ChainDelta(ev, w) \in Int
        /\ CreditFeeSplit(chain, accrued)[w] = chain[w] + ChainDelta(FeeAccrued(accrued), w)
        /\ accrued = 0 => CreditFeeSplit(chain, accrued)[w] = chain[w]
        /\ chain'[w] = CreditFeeSplit(chain, accrued)[w] + ChainDelta(ev, w)
        /\ chain[w] \in Int
    BY <1>1, <1>2, AccrualMoves
  <2>2. CASE accrued = 0
    <3>1. Len(events) = 1 /\ events[1] = ev
      BY <2>2 DEF AccruedEvents
    <3> HIDE DEF events
    <3> QED
      BY <2>1, <2>2, <3>1
  <2>3. CASE accrued # 0
    <3>1. AccruedEvents(accrued) = <<FeeAccrued(accrued)>>
      BY <2>3 DEF AccruedEvents
    <3>2. Len(events) = 2 /\ events[1] = FeeAccrued(accrued) /\ events[2] = ev
      BY <3>1
    <3> HIDE DEF events
    <3> QED
      BY <2>1, <3>2
  <2> QED
    BY <2>2, <2>3
<1>5. Total(chain') = Total(chain) + Emission(events[1])
                      + (IF Len(events) = 2 THEN Emission(events[2]) ELSE 0)
  <2>1. /\ Total(chain') = Total(chain) + accrued + Emission(ev)
        /\ Total(chain) \in Nat /\ Emission(ev) \in Int
    <3>1. chain \in Balances
      BY DEF IInv, TypeOK, Balances
    <3> QED
      BY <1>1, <3>1, SplitTotal, UsersAssumption, TotalType, EmissionType DEF Balances
  <2>2. CASE accrued = 0
    <3>1. Len(events) = 1 /\ events[1] = ev
      BY <2>2 DEF AccruedEvents
    <3> HIDE DEF events
    <3> QED
      BY <2>1, <2>2, <3>1
  <2>3. CASE accrued # 0
    <3>1. AccruedEvents(accrued) = <<FeeAccrued(accrued)>>
      BY <2>3 DEF AccruedEvents
    <3>2. Len(events) = 2 /\ events[1] = FeeAccrued(accrued) /\ events[2] = ev
      BY <3>1
    <3>3. Emission(FeeAccrued(accrued)) = accrued + 0
      BY DEF Emission, FeeAccrued
    <3> HIDE DEF events
    <3> QED
      BY <2>1, <3>2, <3>3
  <2> QED
    BY <2>2, <2>3
<1> HIDE DEF events
<1> QED
  BY <1>1, <1>3, <1>4, <1>5 DEF Executed, ExecutedEvents

LEMMA ChainMoves ==
    ASSUME IInv, Chain
    PROVE  /\ UNCHANGED <<dbVars, work, reading, crashes>>
           /\ Executed \/ Transferred \/ Finalize
<1>1. chain \in [Users -> Int] /\ Traders \subseteq Users /\ chain \in Balances
      /\ \A u \in Users : chain[u] \in Nat
  BY UsersAssumption DEF IInv, TypeOK, Balances
<1>2. ASSUME NEW u \in Traders, ChainMint(u)
      PROVE  UNCHANGED <<dbVars, work, reading, crashes>> /\ Executed
  <2>1. PICK net \in MintedShares, fee \in EntryFees, accrued \in ManagementFees :
            Execute(AccruedEvents(accrued) \o <<Minted(u, net, fee)>>,
                    CreditFeeSplit(Credit(CreditFeeSplit(chain, accrued), u, net), fee))
    BY <1>2 DEF ChainMint
  <2>2. net \in Nat /\ fee \in Nat /\ accrued \in Nat /\ u \in Users
    BY <1>1, AmountsAssumption
  <2>3. Minted(u, net, fee) \in Event
    BY <2>2 DEF Minted, Event
  <2>4. CreditFeeSplit(chain, accrued) \in [Users -> Int]
    BY <1>1, <2>2, SplitAdds
  <2>5. \A w \in Users :
            /\ ChainDelta(Minted(u, net, fee), w) \in Int
            /\ CreditFeeSplit(Credit(CreditFeeSplit(chain, accrued), u, net), fee)[w]
               = CreditFeeSplit(chain, accrued)[w] + ChainDelta(Minted(u, net, fee), w)
    BY <2>2, <2>4, EventMoves
  <2>6. Total(CreditFeeSplit(Credit(CreditFeeSplit(chain, accrued), u, net), fee))
        = Total(CreditFeeSplit(chain, accrued)) + Emission(Minted(u, net, fee))
    <3>1. PICK b \in Balances : b = CreditFeeSplit(chain, accrued)
      BY <1>1, <2>2, SplitTotal
    <3>2. b[u] + net >= 0 /\ net \in Int /\ Total(b) \in Nat
      BY <2>2, <3>1, UsersAssumption, TotalType DEF Balances
    <3>3. Total(CreditFeeSplit(Credit(b, u, net), fee)) = Total(b) + net + fee
      <4>1. Credit(b, u, net) \in Balances /\ Total(Credit(b, u, net)) = Total(b) + net
        BY <2>2, <3>2, CreditTotal
      <4> QED
        BY <2>2, <4>1, SplitTotal
    <3>4. Emission(Minted(u, net, fee)) = fee + net
      BY DEF Emission, Minted
    <3> QED
      BY <2>2, <3>1, <3>2, <3>3, <3>4
  <2> QED
    BY <2>1, <2>2, <2>3, <2>5, <2>6, AccruedTransaction DEF Execute
<1>3. ASSUME NEW u \in Traders, ChainRedeem(u)
      PROVE  UNCHANGED <<dbVars, work, reading, crashes>> /\ Executed
  <2>1. PICK sold \in BurnedShares, fee \in ExitFees, accrued \in ManagementFees :
            /\ sold <= chain[u]
            /\ Execute(AccruedEvents(accrued) \o <<Redeemed(u, sold, fee)>>,
                       CreditFeeSplit(Credit(CreditFeeSplit(chain, accrued), u, -sold), fee))
    BY <1>3 DEF ChainRedeem
  <2>2. sold \in Nat /\ fee \in Nat /\ accrued \in Nat /\ u \in Users
    BY <1>1, AmountsAssumption
  <2>3. Redeemed(u, sold, fee) \in Event
    BY <2>2 DEF Redeemed, Event
  <2>4. CreditFeeSplit(chain, accrued) \in [Users -> Int]
    BY <1>1, <2>2, SplitAdds
  <2>5. \A w \in Users :
            /\ ChainDelta(Redeemed(u, sold, fee), w) \in Int
            /\ CreditFeeSplit(Credit(CreditFeeSplit(chain, accrued), u, -sold), fee)[w]
               = CreditFeeSplit(chain, accrued)[w] + ChainDelta(Redeemed(u, sold, fee), w)
    BY <2>2, <2>4, EventMoves
  <2>6. Total(CreditFeeSplit(Credit(CreditFeeSplit(chain, accrued), u, -sold), fee))
        = Total(CreditFeeSplit(chain, accrued)) + Emission(Redeemed(u, sold, fee))
    <3>1. PICK b \in Balances : b = CreditFeeSplit(chain, accrued) /\ b[u] >= chain[u]
      BY <1>1, <2>2, FeeSplitTyped
    <3>2. b[u] + (-sold) >= 0 /\ -sold \in Int /\ Total(b) \in Nat
      <4>1. b[u] \in Nat /\ chain[u] \in Nat /\ sold <= chain[u]
        BY <1>1, <2>1, <2>2, <3>1 DEF Balances
      <4>2. Total(b) \in Nat
        BY <3>1, UsersAssumption, TotalType DEF Balances
      <4> QED
        BY <2>2, <3>1, <4>1, <4>2
    <3>3. Total(CreditFeeSplit(Credit(b, u, -sold), fee)) = Total(b) + (-sold) + fee
      <4>1. Credit(b, u, -sold) \in Balances /\ Total(Credit(b, u, -sold)) = Total(b) + (-sold)
        BY <2>2, <3>2, CreditTotal
      <4> QED
        BY <2>2, <4>1, SplitTotal
    <3>4. Emission(Redeemed(u, sold, fee)) = fee + (-sold)
      BY DEF Emission, Redeemed
    <3> QED
      BY <2>2, <3>1, <3>2, <3>3, <3>4
  <2> QED
    BY <2>1, <2>2, <2>3, <2>5, <2>6, AccruedTransaction DEF Execute
<1>4. ASSUME ChainAccrue
      PROVE  UNCHANGED <<dbVars, work, reading, crashes>> /\ Executed
  <2>1. PICK accrued \in ManagementFees :
            Execute(AccruedEvents(accrued), CreditFeeSplit(chain, accrued))
    BY <1>4 DEF ChainAccrue
  <2>2. accrued \in Nat
    BY AmountsAssumption
  <2>3. AccruedEvents(accrued) # <<>>
    BY <2>1 DEF Execute
  <2>4. AccruedEvents(accrued) = <<FeeAccrued(accrued)>>
        /\ AccruedEvents(accrued) \in Seq(Event)
    BY <2>2, <2>3, EventsTyped DEF AccruedEvents
  <2>5. Len(AccruedEvents(accrued)) = 1 /\ AccruedEvents(accrued)[1] = FeeAccrued(accrued)
    BY <2>4
  <2>6. \A w \in Users :
            /\ ChainDelta(FeeAccrued(accrued), w) \in Int /\ chain[w] \in Int
            /\ CreditFeeSplit(chain, accrued)[w] = chain[w] + ChainDelta(FeeAccrued(accrued), w)
    BY <1>1, <2>2, AccrualMoves
  <2>7. \A w \in Users : chain'[w] = chain[w] + ChainDelta(AccruedEvents(accrued)[1], w)
                                     + (IF Len(AccruedEvents(accrued)) = 2
                                        THEN ChainDelta(AccruedEvents(accrued)[2], w) ELSE 0)
    BY <2>1, <2>5, <2>6 DEF Execute
  <2>8. PICK events : events = AccruedEvents(accrued)
    OBVIOUS
  <2>9. /\ log' = Append(log, [slot |-> slot + 1, events |-> events])
        /\ UNCHANGED <<slot, chainAt, unlogged, burned, burnedAt, dbVars, work, reading, crashes>>
    BY <2>1, <2>8 DEF Execute
  <2>10. events \in Seq(Event) /\ Len(events) \in 1..2
    BY <2>4, <2>5, <2>8
  <2>11. Total(chain') = Total(chain) + Emission(events[1])
                         + (IF Len(events) = 2 THEN Emission(events[2]) ELSE 0)
    <3>1. Total(chain') = Total(chain) + accrued
      BY <1>1, <2>1, <2>2, SplitTotal DEF Execute
    <3>2. Len(events) = 1 /\ events[1] = FeeAccrued(accrued)
      BY <2>5, <2>8
    <3>3. Emission(FeeAccrued(accrued)) = accrued + 0
      BY DEF Emission, FeeAccrued
    <3>4. Total(chain) \in Nat
      BY <1>1, UsersAssumption, TotalType DEF Balances
    <3> QED
      BY <2>2, <3>1, <3>2, <3>3, <3>4
  <2> QED
    BY <2>7, <2>8, <2>9, <2>10, <2>11 DEF Executed, ExecutedEvents
<1>5. ASSUME NEW u \in Traders, NEW v \in Users, ChainTransfer(u, v)
      PROVE  UNCHANGED <<dbVars, work, reading, crashes>> /\ Transferred
  <2>1. PICK b : b = Credit(chain, u, -1)
    OBVIOUS
  <2>2. b \in Balances /\ Total(b) = Total(chain) + (-1) /\ Total(chain) \in Nat
    <3>1. chain[u] + (-1) >= 0 /\ -1 \in Int
      BY <1>1, <1>5 DEF ChainTransfer
    <3> QED
      BY <1>1, <2>1, <3>1, CreditTotal, UsersAssumption, TotalType DEF Balances
  <2>3. Total(Credit(b, v, 1)) = Total(b) + 1
    <3>1. b[v] + 1 >= 0
      BY <2>2 DEF Balances
    <3> QED
      BY <2>2, <3>1, CreditTotal
  <2>4. chain' = Credit(b, v, 1)
    BY <1>5, <2>1 DEF ChainTransfer
  <2>5. Total(chain') = Total(chain) /\ burned' = burned /\ burned \in Nat
    BY <1>5, <2>2, <2>3, <2>4 DEF ChainTransfer, IInv, TypeOK
  <2> QED
    BY <1>5, <2>2, <2>5 DEF ChainTransfer, Transferred
<1>6. ASSUME Finalize
      PROVE  UNCHANGED <<dbVars, work, reading, crashes>>
  BY <1>6 DEF Finalize
<1>7. ASSUME NEW u \in Traders, ChainBurn(u)
      PROVE  UNCHANGED <<dbVars, work, reading, crashes>> /\ Transferred
  <2>1. chain[u] + (-1) >= 0 /\ -1 \in Int
    BY <1>1, <1>7 DEF ChainBurn
  <2>2. chain' = Credit(chain, u, -1) /\ burned' = burned + 1 /\ burned \in Nat
    BY <1>7 DEF ChainBurn, IInv, TypeOK
  <2>3. Total(chain') = Total(chain) + (-1) /\ Total(chain) \in Nat
    BY <1>1, <2>1, <2>2, CreditTotal, UsersAssumption, TotalType DEF Balances
  <2>4. burned' \in Nat /\ Total(chain') + burned' = Total(chain) + burned
    BY <2>2, <2>3
  <2> QED
    BY <1>7, <2>4 DEF ChainBurn, Transferred
<1> QED
  BY <1>2, <1>3, <1>4, <1>5, <1>6, <1>7 DEF Chain

LEMMA ChainPastKept ==
    ASSUME IInv, Executed \/ Transferred \/ Finalize
    PROVE  PastKept
<1>1. /\ log \in Seq(Transaction) /\ Len(log) \in Nat /\ DOMAIN log = 1..Len(log)
      /\ chainAt \in Seq(Balances) /\ Len(chainAt) = slot + 1 /\ slot \in Nat
      /\ DOMAIN chainAt = 1..(slot + 1)
      /\ burned \in Nat /\ burnedAt \in Seq(Nat) /\ Len(burnedAt) = slot + 1
  BY BoundsAssumption DEF IInv, LogTyped, ChainTyped, TypeOK
<1>2. CASE Executed
  <2>1. PICK events \in Seq(Event) : log' = Append(log, [slot |-> slot + 1, events |-> events])
    BY <1>2 DEF Executed, ExecutedEvents
  <2>2. UNCHANGED <<slot, chainAt, burnedAt>>
    BY <1>2 DEF Executed, ExecutedEvents
  <2> DEFINE tx == [slot |-> slot + 1, events |-> events]
  <2>3. tx \in Transaction
    BY <1>1 DEF Transaction
  <2> HIDE DEF tx
  <2>4. Len(log') = Len(log) + 1 /\ DOMAIN log' = 1..(Len(log) + 1)
        /\ \A t \in DOMAIN log : log'[t] = log[t]
    BY <1>1, <2>1, <2>3 DEF tx
  <2> QED
    BY <1>1, <2>2, <2>4 DEF PastKept, ChainGrows, Snapshot
<1>3. CASE Transferred
  BY <1>1, <1>3 DEF Transferred, PastKept, ChainGrows, Snapshot
<1>4. CASE Finalize
  <2>1. /\ slot' = slot + 1 /\ chainAt' = Append(chainAt, chain) /\ log' = log
        /\ burnedAt' = Append(burnedAt, burned)
    BY <1>4 DEF Finalize
  <2>2. \A i \in 1..(slot + 1) : chainAt'[i] = chainAt[i] /\ burnedAt'[i] = burnedAt[i]
    BY <1>1, <2>1
  <2>3. \A s \in 0..slot : s + 1 \in 1..(slot + 1)
    BY <1>1
  <2> QED
    BY <1>1, <2>1, <2>2, <2>3 DEF PastKept, ChainGrows, Snapshot
<1> QED
  BY <1>2, <1>3, <1>4

LEMMA SamePastKept ==
    ASSUME IInv, UNCHANGED chainVars
    PROVE  PastKept
<1>1. Len(log) \in Nat /\ DOMAIN log = 1..Len(log) /\ slot \in Nat
  BY BoundsAssumption DEF IInv, LogTyped, TypeOK
<1> QED
  BY <1>1 DEF chainVars, PastKept, ChainGrows, Snapshot

\* An event of a slot after the snapshot is claimed and takes effect.
LEMMA EventApplied ==
    ASSUME IInv, ExactlyOnce, ApplyEvent
    PROVE  ExactlyOnce'
<1> DEFINE ev == Events(work.tx)[work.at]
<1>1. /\ AtEvent /\ Claim \notin claims /\ claims' = claims \cup {Claim}
      /\ positions' = IF Covered(work.tx) THEN positions ELSE Effect(ev, positions)
      /\ UNCHANGED chainVars /\ barrier' = barrier
  BY DEF ApplyEvent
<1>2. ev \in Event /\ Claim \in ClaimsOf(DOMAIN log) /\ Claim[1] = work.tx
      /\ Events(Claim[1])[Claim[2]] = ev
  BY <1>1, ClaimKnown, LoggedClaims DEF Claim
<1>3. PastKept
  BY <1>1, SamePastKept
<1>4. After \in SUBSET ClaimsOf(DOMAIN log) /\ Claim \notin After
  BY <1>1, LoggedClaims DEF After
<1>5. \A c \in ClaimsOf(DOMAIN log) : (Covered(c[1]))' <=> Covered(c[1])
  BY <1>1, <1>3, CoveredStays DEF PastKept
<1>6. After' = IF Covered(work.tx) THEN After ELSE After \cup {Claim}
  BY <1>1, <1>2, <1>5, LoggedClaims DEF After
<1> HIDE DEF ev
<1>7. ASSUME NEW u \in Users
      PROVE  positions'[u] = (Published(u))' + (Applied(After, u))'
  <2>1. (Published(u))' = Published(u)
    BY <1>1, <1>3, PublishedStays
  <2>2. positions[u] = Published(u) + Applied(After, u) /\ Applied(After, u) \in Int
        /\ positions \in [Users -> Int] /\ positions[u] \in Int
    <3>1. positions[u] = Published(u) + Applied(After, u)
      BY ExactlyOnceSum
    <3>2. Applied(After, u) \in Int
      BY <1>4, AppliedType
    <3>3. positions \in [Users -> Int] /\ positions[u] \in Int
      BY DEF IInv, TypeOK
    <3> QED
      BY <3>1, <3>2, <3>3
  <2>3. CASE Covered(work.tx)
    <3>1. (Applied(After, u))' = Applied(After, u)
      BY <1>3, <1>4, <1>6, <2>3, AppliedStays DEF PastKept, Applied
    <3> QED
      BY <1>1, <2>1, <2>2, <2>3, <3>1
  <2>4. CASE ~Covered(work.tx)
    <3> DEFINE wider == After \cup {Claim}
               f == [c \in After |-> Delta(Events(c[1])[c[2]], u)]
               h == [c \in wider |-> Delta(Events(c[1])[c[2]], u)]
    <3>1. wider \in SUBSET ClaimsOf(DOMAIN log)
      BY <1>2, <1>4
    <3>2. (Applied(After, u))' = Applied(wider, u)
      BY <1>3, <1>6, <2>4, <3>1, AppliedStays DEF PastKept, Applied
    <3>3. f \in [After -> Int] /\ IsFiniteSet(After) /\ h \in [wider -> Int]
      BY <1>4, <3>1, AppliedType
    <3>4. \A c \in After : h[c] = f[c]
      OBVIOUS
    <3>5. h[Claim] = Delta(ev, u)
      BY <1>2
    <3>6. Applied(After, u) = NetTotal(f) /\ Applied(wider, u) = NetTotal(h)
      BY DEF Applied
    <3> HIDE DEF f, h
    <3>7. NetTotal(h) = NetTotal(f) + h[Claim]
      BY <1>4, <3>3, <3>4, NetAdd
    <3>8. positions'[u] = positions[u] + Delta(ev, u) /\ Delta(ev, u) \in Int
      BY <1>1, <1>2, <2>2, <2>4, DeltaIs
    <3>9. Published(u) \in Int
      <4>1. barrier # None => barrier \in 0..slot
        BY DEF IInv, TypeOK
      <4>2. barrier # None => Snapshot(barrier)[u] \in Int
        BY <4>1, SnapshotTyped DEF Balances
      <4> QED
        BY <4>2 DEF Published
    <3> QED
      BY <2>1, <2>2, <3>2, <3>5, <3>6, <3>7, <3>8, <3>9
  <2> QED
    BY <2>3, <2>4
<1> QED
  BY <1>7 DEF ExactlyOnce, Applied, Published, After

LEMMA SnapshotPublished ==
    ASSUME IInv, IInv', PublishSnapshot
    PROVE  ExactlyOnce'
<1>1. PICK s : s = reading["sync"]
  OBVIOUS
<1>2. /\ s \in 0..slot /\ barrier' = s /\ positions' = Snapshot(s)
      /\ UNCHANGED chainVars /\ claims' = claims /\ NothingAfter(ClaimedTxs, s)
  BY <1>1 DEF PublishSnapshot, Publishable, IInv, TypeOK, Readers
<1>3. PastKept
  BY <1>2, SamePastKept
<1>4. \A c \in claims' : (SlotOf(c[1]))' <= s
  BY <1>2, SameChain DEF NothingAfter, ClaimedTxs
<1> QED
  BY <1>2, <1>3, <1>4, SnapshotApplied

LEMMA RebuildActivated ==
    ASSUME IInv, IInv', ActivateRebuild
    PROVE  ExactlyOnce'
<1>1. PICK s : s = reading["operator"]
  OBVIOUS
<1>2. /\ s \in 0..slot /\ barrier' = s /\ positions' = Snapshot(s)
      /\ UNCHANGED chainVars /\ claims' = claims \cup ClaimsOf(facts)
      /\ NothingAfter(facts, s) /\ claims \subseteq ClaimsOf(facts)
  BY <1>1 DEF ActivateRebuild, Activatable, PublishedClaims, IInv, TypeOK, Readers
<1>3. PastKept
  BY <1>2, SamePastKept
<1>4. \A c \in claims' : c[1] \in facts
  BY <1>2 DEF ClaimsOf
<1>5. \A c \in claims' : (SlotOf(c[1]))' <= s
  BY <1>2, <1>4, SameChain DEF NothingAfter
<1> QED
  BY <1>2, <1>3, <1>5, SnapshotApplied

LEMMA NextExactlyOnce == IInv /\ IInv' /\ ExactlyOnce /\ [Next]_vars => ExactlyOnce'
<1> SUFFICES ASSUME IInv, IInv', ExactlyOnce, [Next]_vars
             PROVE  ExactlyOnce'
  OBVIOUS
<1>1. CASE Chain
  BY <1>1, ChainMoves, ChainPastKept, NothingApplied DEF dbVars
<1>2. CASE ApplyEvent
  BY <1>2, EventApplied
<1>3. CASE PublishSnapshot
  BY <1>3, SnapshotPublished
<1>4. CASE ActivateRebuild
  BY <1>4, RebuildActivated
<1>5. CASE Discover \/ Take \/ CollectFacts \/ SkipClaimed \/ FindGap \/ MarkRebuild \/ Finish
  <2>1. UNCHANGED chainVars /\ UNCHANGED <<claims, positions, barrier>>
    BY <1>5 DEF Discover, Take, CollectFacts, SkipClaimed, FindGap, MarkRebuild, Finish, dbVars
  <2> QED
    BY <2>1, SamePastKept, NothingApplied
<1>6. CASE SyncFetches \/ OperatorFetches \/ (ProcedureFollowed /\ Replay) \/ StageRebuild \/ Crash \/ UNCHANGED vars
  <2>1. UNCHANGED chainVars /\ UNCHANGED <<claims, positions, barrier>>
    BY <1>6 DEF SyncFetches, OperatorFetches, FetchSnapshot, Replay, StageRebuild, Crash, vars,
       dbVars
  <2> QED
    BY <2>1, SamePastKept, NothingApplied
<1> QED
  BY <1>1, <1>2, <1>3, <1>4, <1>5, <1>6 DEF Next, Poll, Publish

LEMMA InitExactlyOnce == Init => ExactlyOnce
<1> SUFFICES ASSUME Init, NEW u \in Users
             PROVE  positions[u] = Published(u) + Applied(After, u)
  BY DEF ExactlyOnce, Published, Applied, After
<1> DEFINE f == [c \in {} |-> Delta(Events(c[1])[c[2]], u)]
<1>1. After = {} /\ f \in [{} -> Int]
  BY DEF Init, After
<1>2. Applied(After, u) = NetTotal(f)
  BY <1>1 DEF Applied
<1> HIDE DEF f
<1>3. Applied(After, u) = 0
  BY <1>1, <1>2, NetNone
<1> QED
  BY <1>3 DEF Init, Published

-----------------------------------------------------------------------------
(* The finalized balances follow the events, as long as every movement of  *)
(* shares has one, and the finalized supply, with what holders burned at   *)
(* the token program, follows them in any case.                            *)

\* The logged events of the slots after s0 and up to s, the sum of a measure
\* over events, and the balances of slot s, which for the slot to come are
\* those of now.
Logged(s0, s) == {c \in ClaimsOf(DOMAIN log) : s0 < SlotOf(c[1]) /\ SlotOf(c[1]) <= s}
Moved(S, d)   == NetTotal([c \in S |-> d[Events(c[1])[c[2]]]])
At(s)         == IF s <= slot THEN Snapshot(s) ELSE chain
BurntBy(s)    == IF s <= slot THEN burnedAt[s + 1] ELSE burned
Supplied(s)   == Total(At(s)) + BurntBy(s)

\* What is measured: the balance of u and the supply.
Measure    == [Event -> Int]
Balance(u) == [ev \in Event |-> ChainDelta(ev, u)]
Shares     == [ev \in Event |-> Emission(ev)]

Gained(s0, s, u) == Moved(Logged(s0, s), Balance(u))
Issued(s)        == Moved(Logged(0, s), Shares)

Accounted(s0, s) ==
    (\A k \in unlogged : k <= s0 \/ k > s) =>
        \A u \in Users : At(s)[u] = At(s0)[u] + Gained(s0, s, u)
SupplyAccounted(s) == Supplied(s) = GENESIS + Issued(s)

ChainInv ==
    /\ \A t \in DOMAIN log : SlotOf(t) \in 1..(slot + 1)
    /\ \A t1, t2 \in DOMAIN log : t1 <= t2 => SlotOf(t1) <= SlotOf(t2)
    /\ \A s0 \in 0..slot, s \in 0..(slot + 1) : s0 <= s => Accounted(s0, s)
    /\ \A s \in 0..(slot + 1) : SupplyAccounted(s)

\* The exit fee that the indexer takes from the redeemer beside the shares.
FeeTwice(ev, u) == IF ev.type = "Redeemed" /\ ev.user = u THEN ev.fee ELSE 0

LEMMA ChainDeltaType ==
    ASSUME NEW ev \in Event, NEW u \in Users
    PROVE  /\ ChainDelta(ev, u) \in Int /\ FeeTwice(ev, u) \in Int
           /\ ChainDelta(ev, u) = Delta(ev, u) + FeeTwice(ev, u)
<1>1. ev.shares \in Nat /\ ev.fee \in Nat /\ SharesRemoved(ev) = ev.shares + ev.fee
      /\ ev.type \in {"Minted", "Redeemed", "FeeAccrued"}
  BY DEF Event, SharesRemoved
<1>2. Delta(ev, u) = Own(ev, SharesRemoved(ev), u) + FeePart(ev.fee, u)
  BY DeltaIs
<1>3. FeePart(ev.fee, u) \in Int
  <2>1. [v \in Users |-> 0] \in [Users -> Int]
    OBVIOUS
  <2> QED
    BY <1>1, <2>1, SplitAdds
<1>4. Own(ev, ev.shares, u) \in Int /\ FeeTwice(ev, u) \in Int
  BY <1>1 DEF Own, FeeTwice
<1>5. Own(ev, ev.shares, u) = Own(ev, SharesRemoved(ev), u) + FeeTwice(ev, u)
  BY <1>1 DEF Own, FeeTwice
<1>6. Own(ev, SharesRemoved(ev), u) \in Int
  BY <1>1 DEF Own
<1> QED
  BY <1>2, <1>3, <1>4, <1>5, <1>6 DEF ChainDelta

LEMMA MeasureType == Shares \in Measure /\ \A u \in Users : Balance(u) \in Measure
<1> HIDE DEF Event
<1> QED
  BY EmissionType, ChainDeltaType DEF Shares, Balance, Measure

LEMMA MovedType ==
    ASSUME IInv, NEW S \in SUBSET ClaimsOf(DOMAIN log), NEW d \in Measure
    PROVE  IsFiniteSet(S) /\ Moved(S, d) \in Int
<1>1. IsFiniteSet(S)
  BY LoggedClaims, FS_Subset
<1>2. \A c \in S : d[Events(c[1])[c[2]]] \in Int
  BY LoggedClaims DEF Measure
<1>3. [c \in S |-> d[Events(c[1])[c[2]]]] \in [S -> Int]
  BY <1>2
<1> QED
  BY <1>1, <1>3, NetType DEF Moved

LEMMA MovedStays ==
    ASSUME ChainGrows, NEW S \in SUBSET ClaimsOf(DOMAIN log), NEW d
    PROVE  (Moved(S, d))' = Moved(S, d)
<1>1. \A c \in S : c[1] \in DOMAIN log
  BY DEF ClaimsOf
<1>2. \A c \in S : (Events(c[1]))' = Events(c[1])
  BY <1>1, EventsStay
<1>3. [c \in S |-> d[(Events(c[1]))'[c[2]]]] = [c \in S |-> d[Events(c[1])[c[2]]]]
  BY <1>2
<1> QED
  BY <1>3 DEF Moved

LEMMA MovedNone ==
    ASSUME NEW d
    PROVE  Moved({}, d) = 0 /\ (Moved({}, d))' = 0
<1> DEFINE f == [c \in {} |-> d[Events(c[1])[c[2]]]]
           g == [c \in {} |-> d[(Events(c[1]))'[c[2]]]]
<1>1. f \in [{} -> Int] /\ g \in [{} -> Int]
  OBVIOUS
<1>2. Moved({}, d) = NetTotal(f) /\ (Moved({}, d))' = NetTotal(g)
  BY DEF Moved
<1> HIDE DEF f, g
<1> QED
  BY <1>1, <1>2, NetNone

LogKnown == /\ IsFiniteSet(ClaimsOf(DOMAIN log))
            /\ \A c \in ClaimsOf(DOMAIN log) : /\ Events(c[1])[c[2]] \in Event
                                               /\ SlotOf(c[1]) \in Nat

LEMMA NextLogKnown == IInv' => LogKnown'
<1>1. IInv => LogKnown
  BY LoggedClaims DEF LogKnown
<1> QED
  BY <1>1, PTL

LEMMA MovedMore ==
    ASSUME IInv', NEW S, NEW a, a \notin S, S \cup {a} \subseteq (ClaimsOf(DOMAIN log))',
           NEW d \in Measure
    PROVE  (Moved(S \cup {a}, d))' = (Moved(S, d))' + d[(Events(a[1]))'[a[2]]]
<1> DEFINE T == S \cup {a}
           f == [c \in S |-> d[(Events(c[1]))'[c[2]]]]
           h == [c \in T |-> d[(Events(c[1]))'[c[2]]]]
<1>1. /\ IsFiniteSet((ClaimsOf(DOMAIN log))')
      /\ \A c \in (ClaimsOf(DOMAIN log))' : (Events(c[1]))'[c[2]] \in Event
  BY NextLogKnown DEF LogKnown
<1>2. \A c \in T : d[(Events(c[1]))'[c[2]]] \in Int
  BY <1>1 DEF Measure
<1>3. IsFiniteSet(S)
  BY <1>1, FS_Subset
<1>4. f \in [S -> Int] /\ h \in [S \cup {a} -> Int] /\ (\A c \in S : h[c] = f[c])
      /\ h[a] = d[(Events(a[1]))'[a[2]]]
  BY <1>2
<1>5. (Moved(S, d))' = NetTotal(f) /\ (Moved(T, d))' = NetTotal(h)
  BY DEF Moved
<1> HIDE DEF f, h
<1>6. NetTotal(h) = NetTotal(f) + h[a]
  BY <1>3, <1>4, NetAdd
<1> QED
  BY <1>4, <1>5, <1>6

\* The log as the steps of the chain find it.
LEMMA LogShape ==
    ASSUME IInv
    PROVE  /\ log \in Seq(Transaction) /\ Len(log) \in Nat /\ DOMAIN log = 1..Len(log)
           /\ slot \in Nat /\ \A t \in DOMAIN log : SlotOf(t) \in Nat
           /\ \A s \in 0..slot : Snapshot(s) \in Balances /\ burnedAt[s + 1] \in Nat
           /\ chain \in Balances /\ burned \in Nat
<1>1. log \in Seq(Transaction) /\ Len(log) \in Nat /\ DOMAIN log = 1..Len(log)
  BY DEF IInv, LogTyped
<1>2. \A t \in DOMAIN log : log[t] \in Transaction
  BY <1>1
<1>3. burned \in Nat /\ \A s \in 0..slot : burnedAt[s + 1] \in Nat
  <2>1. slot \in Nat /\ burned \in Nat /\ burnedAt \in Seq(Nat) /\ Len(burnedAt) = slot + 1
    BY BoundsAssumption DEF IInv, TypeOK
  <2> QED
    BY <2>1
<1>4. chain \in Balances /\ slot \in Nat
  BY BoundsAssumption DEF IInv, TypeOK, Balances
<1>5. \A t \in DOMAIN log : SlotOf(t) \in Nat
  BY <1>2 DEF SlotOf, Transaction
<1> QED
  BY <1>1, <1>3, <1>4, <1>5, SnapshotTyped

\* What is finalized stays as it is, whatever the chain does next.
LEMMA LoggedStays ==
    ASSUME IInv, IInv', PastKept, NEW s0 \in 0..slot, NEW s \in 0..slot,
           \A c \in (ClaimsOf(DOMAIN log))' : c \in ClaimsOf(DOMAIN log) \/ (SlotOf(c[1]))' > slot
    PROVE  /\ (At(s))' = At(s) /\ (Supplied(s))' = Supplied(s)
           /\ (Logged(s0, s))' = Logged(s0, s)
           /\ \A d : (Moved(Logged(s0, s), d))' = Moved(Logged(s0, s), d)
<1>1. slot \in Nat /\ slot' \in Nat /\ slot <= slot' /\ s \in Nat /\ s0 \in Nat
  BY LogShape DEF PastKept, ChainGrows
<1>2. (At(s))' = At(s) /\ (Supplied(s))' = Supplied(s)
  <2>1. (At(s))' = At(s) /\ (BurntBy(s))' = BurntBy(s)
    BY <1>1 DEF At, BurntBy, PastKept
  <2> QED
    BY <2>1 DEF Supplied
<1>3. (Logged(s0, s))' = Logged(s0, s)
  <2>1. DOMAIN log \subseteq DOMAIN log'
    BY LogShape DEF PastKept, ChainGrows
  <2>2. ClaimsOf(DOMAIN log) \subseteq (ClaimsOf(DOMAIN log))'
    BY <2>1, EventsStay DEF PastKept, ClaimsOf
  <2>3. \A c \in ClaimsOf(DOMAIN log) : (SlotOf(c[1]))' = SlotOf(c[1]) /\ SlotOf(c[1]) \in Nat
    BY LoggedClaims, EventsStay DEF PastKept
  <2>4. \A c \in (ClaimsOf(DOMAIN log))' : (SlotOf(c[1]))' <= s => c \in ClaimsOf(DOMAIN log)
    <3> SUFFICES ASSUME NEW c \in (ClaimsOf(DOMAIN log))', c \notin ClaimsOf(DOMAIN log),
                        (SlotOf(c[1]))' <= s
                 PROVE  FALSE
      OBVIOUS
    <3>1. (SlotOf(c[1]))' > slot
      OBVIOUS
    <3>2. (SlotOf(c[1]))' \in Nat
      BY NextLogKnown DEF LogKnown
    <3> QED
      BY <1>1, <3>1, <3>2
  <2> QED
    BY <2>2, <2>3, <2>4 DEF Logged
<1>4. Logged(s0, s) \in SUBSET ClaimsOf(DOMAIN log)
  BY DEF Logged
<1>5. \A d : (Moved(Logged(s0, s), d))' = Moved(Logged(s0, s), d)
  BY <1>3, <1>4, MovedStays DEF PastKept, Moved
<1> QED
  BY <1>2, <1>3, <1>5

LEMMA FinalizedAccounted ==
    ASSUME IInv, IInv', ChainInv, PastKept, NEW s0 \in 0..slot, NEW s \in 0..slot,
           unlogged \subseteq unlogged',
           \A c \in (ClaimsOf(DOMAIN log))' : c \in ClaimsOf(DOMAIN log) \/ (SlotOf(c[1]))' > slot
    PROVE  /\ s0 <= s => (Accounted(s0, s))'
           /\ (SupplyAccounted(s))'
<1>1. slot \in Nat /\ 0 \in 0..slot /\ s \in 0..(slot + 1)
  BY LogShape
<1>2. /\ (At(s))' = At(s) /\ (At(s0))' = At(s0) /\ (Supplied(s))' = Supplied(s)
      /\ \A d : (Moved(Logged(s0, s), d))' = Moved(Logged(s0, s), d)
  BY LoggedStays
<1>3. \A d : (Moved(Logged(0, s), d))' = Moved(Logged(0, s), d)
  BY <1>1, LoggedStays
<1>4. (s0 <= s => Accounted(s0, s)) /\ SupplyAccounted(s)
  BY <1>1 DEF ChainInv
<1>5. s0 <= s => (Accounted(s0, s))'
  BY <1>2, <1>4 DEF Accounted, Gained
<1>6. (SupplyAccounted(s))'
  BY <1>2, <1>3, <1>4 DEF SupplyAccounted, Issued
<1> QED
  BY <1>5, <1>6

\* A transaction goes to the end of the log.
LEMMA ExecutedLog ==
    ASSUME IInv, NEW events \in Seq(Event), ExecutedEvents(events), NEW n, n = Len(log) + 1
    PROVE  /\ Len(log) \in Nat /\ DOMAIN log = 1..Len(log) /\ DOMAIN log' = 1..n /\ n \in Nat
           /\ DOMAIN log' = DOMAIN log \cup {n} /\ n \notin DOMAIN log
           /\ (Events(n))' = events /\ (SlotOf(n))' = slot + 1
           /\ \A t \in DOMAIN log : (Events(t))' = Events(t) /\ (SlotOf(t))' = SlotOf(t)
           /\ (ClaimsOf(DOMAIN log))'
              = ClaimsOf(DOMAIN log) \cup {c \in {n} \X (1..2) : c[2] <= Len(events)}
<1> DEFINE tx == [slot |-> slot + 1, events |-> events]
<1>1. tx \in Transaction /\ tx.slot = slot + 1 /\ tx.events = events
  BY LogShape DEF Transaction
<1> HIDE DEF tx
<1>2. log' = Append(log, tx) /\ log \in Seq(Transaction) /\ Len(log) \in Nat
  BY LogShape DEF tx, ExecutedEvents
<1>3. log'[n] = tx /\ DOMAIN log' = 1..n
  BY <1>1, <1>2
<1>4. PastKept
  BY ChainPastKept DEF Executed
<1>5. /\ Len(log) \in Nat /\ DOMAIN log = 1..Len(log) /\ DOMAIN log' = 1..n /\ n \in Nat
      /\ DOMAIN log' = DOMAIN log \cup {n} /\ n \notin DOMAIN log
  BY <1>2, <1>3, LogShape
<1>6. /\ (Events(n))' = events /\ (SlotOf(n))' = slot + 1
      /\ \A t \in DOMAIN log : (Events(t))' = Events(t) /\ (SlotOf(t))' = SlotOf(t)
  BY <1>1, <1>3, <1>4, EventsStay DEF Events, SlotOf, PastKept
<1>7. (ClaimsOf(DOMAIN log))'
      = ClaimsOf(DOMAIN log) \cup {c \in {n} \X (1..2) : c[2] <= Len(events)}
  BY <1>5, <1>6 DEF ClaimsOf
<1> QED
  BY <1>5, <1>6, <1>7

\* ... and adds what its events measure.
LEMMA ExecutedMoves ==
    ASSUME IInv, IInv', NEW events \in Seq(Event), ExecutedEvents(events),
           NEW s0 \in 0..slot, NEW s, s = slot + 1, NEW d \in Measure
    PROVE  /\ (Moved(Logged(s0, s), d))'
              = Moved(Logged(s0, s), d) + d[events[1]]
                + (IF Len(events) = 2 THEN d[events[2]] ELSE 0)
           /\ Moved(Logged(s0, s), d) \in Int
<1>1. PICK n : n = Len(log) + 1
  OBVIOUS
<1> DEFINE new == {c \in {n} \X (1..2) : c[2] <= Len(events)}
<1>2. /\ n \notin DOMAIN log
      /\ (Events(n))' = events /\ (SlotOf(n))' = slot + 1
      /\ \A t \in DOMAIN log : (Events(t))' = Events(t) /\ (SlotOf(t))' = SlotOf(t)
      /\ (ClaimsOf(DOMAIN log))' = ClaimsOf(DOMAIN log) \cup new
  BY <1>1, ExecutedLog
<1>3. PICK old : old = Logged(s0, s)
  OBVIOUS
<1>4. old \in SUBSET ClaimsOf(DOMAIN log) /\ old \cap new = {}
  BY <1>2, <1>3 DEF Logged, ClaimsOf
<1>5. (Logged(s0, s))' = old \cup new
  <2>1. slot \in Nat
    BY LogShape
  <2>2. \A c \in new : c[1] = n /\ s0 < (SlotOf(c[1]))' /\ (SlotOf(c[1]))' <= s
    BY <1>2, <2>1
  <2>3. \A c \in ClaimsOf(DOMAIN log) : (SlotOf(c[1]))' = SlotOf(c[1])
    BY <1>2 DEF ClaimsOf
  <2> HIDE DEF new
  <2> QED
    BY <1>2, <1>3, <2>2, <2>3 DEF Logged
<1>6. (Moved(old, d))' = Moved(old, d) /\ Moved(old, d) \in Int
  <2>1. \A S \in SUBSET ClaimsOf(DOMAIN log) : (Moved(S, d))' = Moved(S, d)
    BY MovedStays, ChainPastKept DEF PastKept, Executed
  <2> QED
    BY <1>4, <2>1, MovedType
<1>7. Len(events) \in 1..2
  BY DEF ExecutedEvents
<1>8. PICK a1, a2 : a1 = <<n, 1>> /\ a2 = <<n, 2>>
  OBVIOUS
<1>9. /\ a1 # a2 /\ a1 \notin old /\ a2 \notin old
      /\ a1[1] = n /\ a1[2] = 1 /\ a2[1] = n /\ a2[2] = 2
  BY <1>2, <1>4, <1>8 DEF ClaimsOf
<1>10. /\ old \subseteq (ClaimsOf(DOMAIN log))' /\ a1 \in new
       /\ (Events(a1[1]))'[a1[2]] = events[1] /\ (Events(a2[1]))'[a2[2]] = events[2]
  BY <1>2, <1>4, <1>7, <1>8, <1>9
<1>11. PICK S : S = old \cup {a1}
  OBVIOUS
<1>12. (Moved(S, d))' = Moved(old, d) + d[events[1]] /\ d[events[1]] \in Int
  <2>1. old \cup {a1} \subseteq (ClaimsOf(DOMAIN log))'
    BY <1>2, <1>10
  <2>2. (Moved(old \cup {a1}, d))' = (Moved(old, d))' + d[(Events(a1[1]))'[a1[2]]]
    BY <1>9, <2>1, MovedMore
  <2>3. events[1] \in Event
    BY <1>7
  <2> QED
    BY <1>6, <1>10, <1>11, <2>2, <2>3 DEF Moved, Measure
<1>13. CASE Len(events) = 1
  <2>1. new = {a1}
    BY <1>8, <1>13
  <2> HIDE DEF new
  <2>2. (Moved(Logged(s0, s), d))' = (Moved(S, d))'
    BY <1>5, <1>11, <2>1 DEF Moved
  <2> QED
    BY <1>3, <1>6, <1>12, <1>13, <2>2
<1>14. CASE Len(events) = 2
  <2>1. new = {a1} \cup {a2}
    BY <1>8, <1>14
  <2>2. a1 \in (ClaimsOf(DOMAIN log))' /\ a2 \in (ClaimsOf(DOMAIN log))'
    BY <1>2, <2>1
  <2> HIDE DEF new
  <2>3. a2 \notin S /\ S \cup {a2} \subseteq (ClaimsOf(DOMAIN log))' /\ old \cup new = S \cup {a2}
    BY <1>9, <1>10, <1>11, <2>1, <2>2
  <2>4. (Moved(S \cup {a2}, d))' = (Moved(S, d))' + d[(Events(a2[1]))'[a2[2]]]
    BY <2>3, MovedMore
  <2>5. (Moved(Logged(s0, s), d))' = (Moved(S \cup {a2}, d))'
    BY <1>5, <2>3 DEF Moved
  <2> QED
    BY <1>3, <1>6, <1>10, <1>12, <1>14, <2>4, <2>5
<1> QED
  BY <1>7, <1>13, <1>14

LEMMA ExecutedAccounted ==
    ASSUME IInv, IInv', ChainInv, Executed
    PROVE  ChainInv'
<1>1. PICK events \in Seq(Event) : ExecutedEvents(events)
  BY DEF Executed
<1>2. PICK n : n = Len(log) + 1
  OBVIOUS
<1>3. /\ Len(log) \in Nat /\ DOMAIN log = 1..Len(log) /\ DOMAIN log' = 1..n /\ n \in Nat
      /\ DOMAIN log' = DOMAIN log \cup {n} /\ n \notin DOMAIN log
      /\ (SlotOf(n))' = slot + 1
      /\ \A t \in DOMAIN log : (SlotOf(t))' = SlotOf(t)
  BY <1>1, <1>2, ExecutedLog
<1>4. /\ slot \in Nat /\ UNCHANGED <<slot, chainAt, unlogged, burned, burnedAt>>
      /\ Len(events) \in 1..2 /\ events[1] \in Event
      /\ Len(events) = 2 => events[2] \in Event
  <2>1. Len(events) \in 1..2 /\ UNCHANGED <<slot, chainAt, unlogged, burned, burnedAt>>
    BY <1>1 DEF ExecutedEvents
  <2> QED
    BY <2>1, LogShape
<1>5. \A t \in DOMAIN log' : (SlotOf(t))' \in 1..(slot' + 1)
  <2>1. \A t \in DOMAIN log : SlotOf(t) \in 1..(slot + 1)
    BY DEF ChainInv
  <2>2. (SlotOf(n))' \in 1..(slot' + 1)
    BY <1>3, <1>4
  <2>3. \A t \in DOMAIN log : (SlotOf(t))' \in 1..(slot' + 1)
    BY <1>3, <1>4, <2>1
  <2> QED
    BY <1>3, <2>2, <2>3
<1>6. \A t1, t2 \in DOMAIN log' : t1 <= t2 => (SlotOf(t1))' <= (SlotOf(t2))'
  <2> SUFFICES ASSUME NEW t1 \in DOMAIN log', NEW t2 \in DOMAIN log', t1 <= t2
               PROVE  (SlotOf(t1))' <= (SlotOf(t2))'
    OBVIOUS
  <2>1. CASE t2 = n
    BY <1>3, <1>4, <1>5, <2>1
  <2>2. CASE t2 # n
    <3>1. t2 \in DOMAIN log /\ t1 \in DOMAIN log
      BY <1>2, <1>3, <2>2
    <3> QED
      BY <1>3, <3>1 DEF ChainInv
  <2> QED
    BY <2>1, <2>2
<1>7. ASSUME NEW s0 \in 0..slot, NEW s \in 0..slot
      PROVE  (s0 <= s => (Accounted(s0, s))') /\ (SupplyAccounted(s))'
  <2>1. \A c \in (ClaimsOf(DOMAIN log))' : c \in ClaimsOf(DOMAIN log) \/ (SlotOf(c[1]))' > slot
    <3>1. (ClaimsOf(DOMAIN log))'
          = ClaimsOf(DOMAIN log) \cup {c \in {n} \X (1..2) : c[2] <= Len(events)}
      BY <1>1, <1>2, ExecutedLog
    <3> QED
      BY <1>3, <1>4, <3>1
  <2> QED
    BY <1>4, <2>1, ChainPastKept, FinalizedAccounted
<1>8. ASSUME NEW s0 \in 0..slot, NEW s, s = slot + 1
      PROVE  (Accounted(s0, s))' /\ (SupplyAccounted(s))'
  <2>1. /\ (At(s))' = chain' /\ At(s) = chain /\ (At(s0))' = At(s0)
        /\ s \in 0..(slot + 1) /\ 0 \in 0..slot
    BY <1>4, <1>8 DEF At, Snapshot
  <2>2. Accounted(s0, s) /\ SupplyAccounted(s)
    BY <1>4, <1>8, <2>1 DEF ChainInv
  <2>3. ASSUME \A k \in unlogged' : k <= s0 \/ k > s, NEW u \in Users
        PROVE  (At(s))'[u] = (At(s0))'[u] + (Gained(s0, s, u))'
    <3>1. PICK d : d = Balance(u)
      OBVIOUS
    <3>2. /\ (Moved(Logged(s0, s), d))'
             = Moved(Logged(s0, s), d) + d[events[1]] + (IF Len(events) = 2 THEN d[events[2]] ELSE 0)
          /\ Moved(Logged(s0, s), d) \in Int /\ d \in Measure
      BY <1>1, <1>8, <3>1, MeasureType, ExecutedMoves
    <3>3. chain[u] = At(s0)[u] + Moved(Logged(s0, s), d)
      BY <1>4, <2>1, <2>2, <2>3, <3>1 DEF Accounted, Gained
    <3>4. d[events[1]] = ChainDelta(events[1], u)
          /\ (Len(events) = 2 => d[events[2]] = ChainDelta(events[2], u))
      BY <1>4, <3>1 DEF Balance
    <3>5. /\ d[events[1]] \in Int /\ (Len(events) = 2 => d[events[2]] \in Int)
          /\ At(s0)[u] \in Int
      <4>1. Snapshot(s0)[u] \in Int
        BY LogShape DEF Balances
      <4> QED
        BY <1>4, <3>2, <4>1 DEF Measure, At
    <3>6. chain'[u] = chain[u] + d[events[1]] + (IF Len(events) = 2 THEN d[events[2]] ELSE 0)
      BY <1>1, <3>4 DEF ExecutedEvents
    <3>7. (Gained(s0, s, u))' = (Moved(Logged(s0, s), d))'
      BY <3>1 DEF Gained, Moved, Balance, ChainDelta, Own, FeePart, CreatorShare
    <3> QED
      BY <2>1, <3>2, <3>3, <3>5, <3>6, <3>7
  <2>4. (SupplyAccounted(s))'
    <3>1. PICK d : d = Shares
      OBVIOUS
    <3>2. /\ (Moved(Logged(0, s), d))'
             = Moved(Logged(0, s), d) + d[events[1]] + (IF Len(events) = 2 THEN d[events[2]] ELSE 0)
          /\ Moved(Logged(0, s), d) \in Int /\ d \in Measure
      BY <1>1, <1>8, <2>1, <3>1, MeasureType, ExecutedMoves
    <3>3. Total(chain) + burned = GENESIS + Moved(Logged(0, s), d)
      <4>1. Supplied(s) = Total(chain) + burned
        BY <1>4, <1>8, <2>1 DEF Supplied, BurntBy
      <4> QED
        BY <2>2, <3>1, <4>1 DEF SupplyAccounted, Issued
    <3>4. d[events[1]] = Emission(events[1])
          /\ (Len(events) = 2 => d[events[2]] = Emission(events[2]))
      BY <1>4, <3>1 DEF Shares
    <3>5. /\ d[events[1]] \in Int /\ (Len(events) = 2 => d[events[2]] \in Int)
          /\ GENESIS \in Int
      BY <1>4, <3>2, AmountsAssumption DEF Measure
    <3>6. Total(chain') = Total(chain) + d[events[1]] + (IF Len(events) = 2 THEN d[events[2]] ELSE 0)
      BY <1>1, <3>4 DEF ExecutedEvents
    <3>7. (Issued(s))' = (Moved(Logged(0, s), d))'
      BY <3>1 DEF Issued, Moved, Shares, Emission
    <3>8. Total(chain') + burned = GENESIS + (Issued(s))'
      <4>1. Total(chain) \in Nat /\ burned \in Nat
        BY LogShape, UsersAssumption, TotalType DEF Balances
      <4>2. PICK k \in Int : k = d[events[1]] + (IF Len(events) = 2 THEN d[events[2]] ELSE 0)
        BY <3>5
      <4>3. PICK old \in Int : old = Moved(Logged(0, s), d)
        BY <3>2
      <4>4. (Moved(Logged(0, s), d))' = old + k /\ Total(chain') = Total(chain) + k
        BY <3>2, <3>5, <3>6, <4>1, <4>2, <4>3
      <4> QED
        BY <3>3, <3>5, <3>7, <4>1, <4>3, <4>4
    <3>9. (Supplied(s))' = Total(chain') + burned
      BY <1>4, <1>8, <2>1 DEF Supplied, BurntBy
    <3> QED
      BY <3>8, <3>9 DEF SupplyAccounted, Issued
  <2> QED
    BY <2>3, <2>4 DEF Accounted, Gained
<1>9. \A s0 \in 0..slot', s \in 0..(slot' + 1) : s0 <= s => (Accounted(s0, s))'
  <2>1. \A s \in 0..(slot' + 1) : s \in 0..slot \/ s = slot + 1
    BY <1>4
  <2> QED
    BY <1>4, <1>7, <1>8, <2>1
<1>10. \A s \in 0..(slot' + 1) : (SupplyAccounted(s))'
  <2>1. \A s \in 0..(slot' + 1) : s \in 0..slot \/ s = slot + 1
    BY <1>4
  <2>2. 0 \in 0..slot
    BY <1>4
  <2> QED
    BY <1>7, <1>8, <2>1, <2>2
<1> QED
  BY <1>5, <1>6, <1>9, <1>10 DEF ChainInv

\* What a set of claims moved stays the same as long as their events and the
\* set do.
LEMMA MovedSame ==
    ASSUME NEW s0, NEW s, (Logged(s0, s))' = Logged(s0, s),
           \A t : (Events(t))' = Events(t)
    PROVE  /\ \A u : (Gained(s0, s, u))' = Gained(s0, s, u)
           /\ s0 = 0 => (Issued(s))' = Issued(s)
<1>1. \A S, d : (Moved(S, d))' = Moved(S, d)
  BY DEF Moved
<1>2. PICK S : S = Logged(s0, s)
  OBVIOUS
<1>3. \A u : (Gained(s0, s, u))' = Gained(s0, s, u)
  <2> TAKE u
  <2>1. PICK d : d = Balance(u)
    OBVIOUS
  <2>2. (Gained(s0, s, u))' = (Moved(Logged(s0, s), d))'
    BY <2>1 DEF Gained, Moved, Balance, ChainDelta, Own, FeePart, CreatorShare
  <2>3. (Moved(Logged(s0, s), d))' = (Moved(S, d))'
    BY <1>2 DEF Moved
  <2> QED
    BY <1>1, <1>2, <2>1, <2>2, <2>3 DEF Gained, Issued
<1>4. ASSUME s0 = 0 PROVE (Issued(s))' = Issued(s)
  <2>1. PICK d : d = Shares
    OBVIOUS
  <2>2. (Issued(s))' = (Moved(Logged(0, s), d))'
    BY <2>1 DEF Issued, Moved, Shares, Emission
  <2>3. (Moved(Logged(0, s), d))' = (Moved(S, d))'
    BY <1>2, <1>4 DEF Moved
  <2> QED
    BY <1>1, <1>2, <1>4, <2>1, <2>2, <2>3 DEF Gained, Issued
<1>5. s0 = 0 => (Issued(s))' = Issued(s)
  BY <1>4
<1> QED
  BY <1>3, <1>5

LEMMA TransferAccounted ==
    ASSUME IInv, IInv', ChainInv, Transferred
    PROVE  ChainInv'
<1>1. UNCHANGED <<log, slot, chainAt, burnedAt>> /\ unlogged' = unlogged \cup {slot + 1}
      /\ Total(chain') + burned' = Total(chain) + burned
  BY DEF Transferred
<1>2. PastKept
  BY ChainPastKept
<1>3. \A t : (SlotOf(t))' = SlotOf(t) /\ (Events(t))' = Events(t)
  BY <1>1 DEF SlotOf, Events
<1>4. (ClaimsOf(DOMAIN log))' = ClaimsOf(DOMAIN log) /\ slot \in Nat
  BY <1>1, <1>3, LogShape DEF ClaimsOf
<1>5. ASSUME NEW s0 \in 0..slot, NEW s \in 0..(slot + 1), s0 <= s
      PROVE  (Accounted(s0, s))'
  <2>1. CASE s <= slot
    <3>1. s \in 0..slot
      BY <1>4, <2>1
    <3> QED
      BY <1>1, <1>2, <1>4, <1>5, <3>1, FinalizedAccounted
  <2>2. CASE s = slot + 1
    <3>1. slot + 1 \in unlogged' /\ ~(slot + 1 <= s0 \/ slot + 1 > s)
      BY <1>1, <1>4, <2>2
    <3> QED
      BY <3>1 DEF Accounted, Gained
  <2> QED
    BY <1>4, <2>1, <2>2
<1>6. ASSUME NEW s \in 0..(slot + 1)
      PROVE  (SupplyAccounted(s))'
  <2>1. SupplyAccounted(s)
    BY DEF ChainInv
  <2>2. (Logged(0, s))' = Logged(0, s)
    BY <1>3, <1>4 DEF Logged
  <2>3. (Issued(s))' = Issued(s)
    BY <1>3, <2>2, MovedSame
  <2>4. (Supplied(s))' = Supplied(s)
    <3>1. CASE s <= slot
      BY <1>1, <3>1 DEF Supplied, At, BurntBy, Snapshot
    <3>2. CASE ~(s <= slot)
      <4>1. (Supplied(s))' = Total(chain') + burned' /\ Supplied(s) = Total(chain) + burned
        BY <1>1, <3>2 DEF Supplied, At, BurntBy
      <4> QED
        BY <1>1, <4>1
    <3> QED
      BY <3>1, <3>2
  <2> QED
    BY <2>1, <2>3, <2>4 DEF SupplyAccounted, Issued
<1> QED
  BY <1>1, <1>3, <1>5, <1>6 DEF ChainInv

LEMMA FinalizeAccounted ==
    ASSUME IInv, IInv', ChainInv, Finalize
    PROVE  ChainInv'
<1>1. /\ slot' = slot + 1 /\ chainAt' = Append(chainAt, chain)
      /\ burnedAt' = Append(burnedAt, burned)
      /\ UNCHANGED <<log, chain, unlogged, burned>>
  BY DEF Finalize
<1>2. PastKept /\ slot \in Nat
  BY ChainPastKept, LogShape
<1>3. \A t : (SlotOf(t))' = SlotOf(t) /\ (Events(t))' = Events(t)
  BY <1>1 DEF SlotOf, Events
<1>4. (ClaimsOf(DOMAIN log))' = ClaimsOf(DOMAIN log)
  BY <1>1, <1>3 DEF ClaimsOf
<1>5. \A S, d : (Moved(S, d))' = Moved(S, d)
  BY <1>3 DEF Moved
<1>6. /\ \A s0, s : (Logged(s0, s))' = Logged(s0, s)
      /\ \A s0, s, u : (Gained(s0, s, u))' = Gained(s0, s, u)
      /\ \A s : (Issued(s))' = Issued(s)
  <2>1. \A s0, s : (Logged(s0, s))' = Logged(s0, s)
    BY <1>3, <1>4 DEF Logged
  <2> QED
    BY <1>3, <2>1, MovedSame
<1>now. PICK m : m = slot
  OBVIOUS
<1>7. (Snapshot(m + 1))' = chain /\ burnedAt'[(m + 1) + 1] = burned
  <2>1. /\ chainAt \in Seq(Balances) /\ Len(chainAt) = slot + 1
        /\ burned \in Nat /\ burnedAt \in Seq(Nat) /\ Len(burnedAt) = slot + 1
    BY DEF IInv, ChainTyped, TypeOK
  <2>2. chainAt'[(m + 1) + 1] = chain /\ burnedAt'[(m + 1) + 1] = burned
    BY <1>1, <1>2, <1>now, <2>1
  <2> QED
    BY <2>2 DEF Snapshot
<1>8. /\ \A s \in 0..(slot + 1) : (At(s))' = At(s)
      /\ (At(m + 2))' = chain /\ At(m + 1) = chain
  <2>1. ASSUME NEW s \in 0..(slot + 1) PROVE (At(s))' = At(s)
    <3>1. CASE s \in 0..slot
      BY <1>1, <1>2, <3>1 DEF At, PastKept
    <3>2. CASE s = slot + 1
      BY <1>1, <1>2, <1>7, <1>now, <3>2 DEF At
    <3> QED
      BY <1>2, <3>1, <3>2
  <2>2. (At(m + 2))' = chain /\ At(m + 1) = chain
    BY <1>1, <1>2, <1>now DEF At
  <2> QED
    BY <2>1, <2>2
<1>15. /\ slot' = slot + 1 /\ burned' = burned /\ slot \in Nat
       /\ \A s \in 0..slot : burnedAt'[s + 1] = burnedAt[s + 1]
  BY <1>1, <1>2 DEF PastKept
<1>14. /\ \A s \in 0..(slot + 1) : (BurntBy(s))' = BurntBy(s)
       /\ (BurntBy(m + 2))' = burned /\ BurntBy(m + 1) = burned
  <2>1. ASSUME NEW s \in 0..(slot + 1) PROVE (BurntBy(s))' = BurntBy(s)
    <3>1. CASE s \in 0..slot
      BY <1>15, <3>1 DEF BurntBy
    <3>2. CASE s = slot + 1
      BY <1>7, <1>15, <1>now, <3>2 DEF BurntBy
    <3> QED
      BY <1>2, <3>1, <3>2
  <2>2. (BurntBy(m + 2))' = burned /\ BurntBy(m + 1) = burned
    BY <1>15, <1>now DEF BurntBy
  <2> QED
    BY <2>1, <2>2
<1>9. \A c \in ClaimsOf(DOMAIN log) : SlotOf(c[1]) \in 1..(slot + 1)
  BY DEF ChainInv, ClaimsOf
<1>10. ASSUME NEW s0 \in 0..(slot + 1), NEW s \in 0..(slot + 2), s0 <= s
       PROVE  (Accounted(s0, s))'
  <2>1. CASE s0 <= slot /\ s <= slot + 1
    <3>1. s0 \in 0..slot /\ s \in 0..(slot + 1) /\ s0 \in 0..(slot + 1)
      BY <1>2, <2>1
    <3>2. Accounted(s0, s)
      BY <1>10, <3>1 DEF ChainInv
    <3> QED
      BY <1>1, <1>6, <1>8, <3>1, <3>2 DEF Accounted, Gained
  <2>2. CASE s0 <= slot /\ s = slot + 2
    <3>1. s0 \in 0..slot /\ s0 \in 0..(slot + 1) /\ slot + 1 \in 0..(slot + 1) /\ s0 <= slot + 1
      BY <1>2, <2>2
    <3>2. Accounted(s0, slot + 1)
      BY <3>1 DEF ChainInv
    <3>3. Logged(s0, s) = Logged(s0, slot + 1)
      BY <1>2, <1>9, <2>2 DEF Logged
    <3>4. ASSUME \A k \in unlogged : k <= s0 \/ k > s
          PROVE  \A k \in unlogged : k <= s0 \/ k > slot + 1
      <4>1. \A k \in unlogged : k \in Nat
        BY DEF IInv, TypeOK
      <4> QED
        BY <1>2, <2>2, <3>4, <4>1
    <3> QED
      BY <1>1, <1>6, <1>8, <1>now, <2>2, <3>1, <3>2, <3>3, <3>4 DEF Accounted, Gained
  <2>3. CASE s0 = slot + 1
    <3>1. Logged(s0, s) = {}
      BY <1>2, <1>9, <2>3 DEF Logged
    <3>2. (At(s))' = chain /\ (At(s0))' = chain
      <4>1. s = slot + 1 \/ s = slot + 2
        BY <1>2, <1>10, <2>3
      <4>2. slot + 1 \in 0..(slot + 1)
        BY <1>2
      <4> QED
        BY <1>8, <1>now, <2>3, <4>1, <4>2
    <3>3. \A u \in Users : chain[u] = chain[u] + Moved({}, Balance(u))
      BY MovedNone, LogShape DEF Balances
    <3> QED
      BY <1>6, <3>1, <3>2, <3>3 DEF Accounted, Gained
  <2> QED
    BY <1>2, <2>1, <2>2, <2>3
<1>13. ASSUME NEW s \in 0..(slot + 2)
       PROVE  (SupplyAccounted(s))'
  <2>1. CASE s \in 0..(slot + 1)
    <3>1. SupplyAccounted(s)
      BY <2>1 DEF ChainInv
    <3>2. (Supplied(s))' = Supplied(s)
      BY <1>8, <1>14, <2>1 DEF Supplied
    <3> QED
      BY <1>6, <3>1, <3>2 DEF SupplyAccounted, Issued
  <2>2. CASE s = slot + 2
    <3>1. slot + 1 \in 0..(slot + 1)
      BY <1>2
    <3>2. SupplyAccounted(slot + 1)
      BY <3>1 DEF ChainInv
    <3>3. Logged(0, s) = Logged(0, slot + 1)
      BY <1>2, <1>9, <2>2 DEF Logged
    <3>4. (At(s))' = chain /\ At(slot + 1) = chain
      BY <1>8, <1>now, <2>2
    <3>5. (Supplied(s))' = Total(chain) + burned /\ Supplied(slot + 1) = Total(chain) + burned
      BY <1>14, <1>now, <2>2, <3>4 DEF Supplied
    <3> QED
      BY <1>1, <1>6, <3>2, <3>3, <3>4, <3>5 DEF SupplyAccounted, Issued
  <2> QED
    BY <1>2, <2>1, <2>2
<1>11. (slot + 1) + 1 = slot + 2 /\ \A t \in DOMAIN log : SlotOf(t) \in 1..((slot + 1) + 1)
  BY <1>2 DEF ChainInv
<1>12. \A t1, t2 \in DOMAIN log : t1 <= t2 => SlotOf(t1) <= SlotOf(t2)
  BY DEF ChainInv
<1> QED
  BY <1>1, <1>3, <1>10, <1>11, <1>12, <1>13 DEF ChainInv

LEMMA InitChainInv == Init => ChainInv
<1> SUFFICES ASSUME Init
             PROVE  ChainInv
  OBVIOUS
<1>1. DOMAIN log = {} /\ slot = 0 /\ chainAt = <<chain>> /\ chain \in [Users -> Int]
      /\ burned = 0 /\ burnedAt = <<0>>
  BY AmountsAssumption DEF Init
<1>2. \A s \in 0..1 : At(s) = chain /\ BurntBy(s) = 0
  BY <1>1 DEF At, BurntBy, Snapshot
<1>3. \A s0, s : Logged(s0, s) = {}
  BY <1>1 DEF Logged, ClaimsOf
<1>4. \A s0, s \in 0..1 : Accounted(s0, s)
  <2>1. \A u \in Users : chain[u] = chain[u] + Moved({}, Balance(u))
    BY <1>1, MovedNone
  <2> QED
    BY <1>2, <1>3, <2>1 DEF Accounted, Gained
<1>5. \A s \in 0..1 : SupplyAccounted(s)
  <2>1. Total(chain) = GENESIS
    <3>1. chain = [u \in Users |-> IF u = Creator THEN GENESIS ELSE 0]
      BY DEF Init
    <3>2. Creator \in Users /\ GENESIS \in Nat
      BY UsersAssumption, AmountsAssumption
    <3>3. chain \in [Users -> Nat] /\ \A x \in Users : chain[x] = IF x = Creator THEN GENESIS ELSE 0
      BY <3>1, <3>2
    <3> QED
      BY <3>2, <3>3, TotalSingle
  <2>2. Moved({}, Shares) = 0 /\ GENESIS = GENESIS + 0
    BY MovedNone, AmountsAssumption
  <2> QED
    BY <1>2, <1>3, <2>1, <2>2, AmountsAssumption DEF SupplyAccounted, Supplied, Issued
<1> QED
  BY <1>1, <1>4, <1>5 DEF ChainInv

LEMMA NextChainInv == IInv /\ IInv' /\ ChainInv /\ [Next]_vars => ChainInv'
<1> SUFFICES ASSUME IInv, IInv', ChainInv, [Next]_vars
             PROVE  ChainInv'
  OBVIOUS
<1>1. CASE Chain
  BY <1>1, ChainMoves, ExecutedAccounted, TransferAccounted, FinalizeAccounted
<1>2. CASE UNCHANGED chainVars
  <2>1. UNCHANGED <<log, chain, slot, chainAt, unlogged, burned, burnedAt>>
    BY <1>2 DEF chainVars
  <2>2. \A t : (SlotOf(t))' = SlotOf(t) /\ (Events(t))' = Events(t)
    BY <2>1 DEF SlotOf, Events
  <2>3. (ClaimsOf(DOMAIN log))' = ClaimsOf(DOMAIN log)
    BY <2>1, <2>2 DEF ClaimsOf
  <2>4. \A s0, s : (Logged(s0, s))' = Logged(s0, s)
    BY <2>2, <2>3 DEF Logged
  <2>5. /\ \A s0, s, u : (Gained(s0, s, u))' = Gained(s0, s, u)
        /\ \A s : (Issued(s))' = Issued(s)
    BY <2>2, <2>4, MovedSame
  <2>6. \A s : (At(s))' = At(s)
    BY <2>1 DEF At, Snapshot
  <2>7. \A s0, s : Accounted(s0, s) => (Accounted(s0, s))'
    BY <2>1, <2>5, <2>6 DEF Accounted
  <2>8. \A s : SupplyAccounted(s) => (SupplyAccounted(s))'
    <3>1. \A s : (Supplied(s))' = Supplied(s)
      <4> TAKE s
      <4>1. PICK b : b = At(s)
        OBVIOUS
      <4>2. (At(s))' = b /\ (BurntBy(s))' = BurntBy(s)
        BY <2>1, <2>6, <4>1 DEF BurntBy
      <4> QED
        BY <4>1, <4>2 DEF Supplied
    <3> QED
      BY <2>5, <3>1 DEF SupplyAccounted
  <2> QED
    BY <2>1, <2>2, <2>7, <2>8 DEF ChainInv
<1>3. Poll \/ Publish \/ Crash \/ UNCHANGED vars => UNCHANGED chainVars
  BY DEF Poll, Publish, Discover, Take, CollectFacts, SkipClaimed, ApplyEvent, FindGap,
     MarkRebuild, Finish, SyncFetches, OperatorFetches, FetchSnapshot, PublishSnapshot, Replay,
     StageRebuild, ActivateRebuild, Crash, vars
<1> QED
  BY <1>1, <1>2, <1>3 DEF Next

\* The queue holds transactions of finalized slots only: they come in the
\* order of their slots, and there are as many as the slots have.
LEMMA QueuedSlots ==
    ASSUME IInv, ChainInv, NEW t \in DOMAIN queue
    PROVE  SlotOf(t) <= slot
<1>1. /\ Len(log) \in Nat /\ DOMAIN log = 1..Len(log) /\ slot \in Nat /\ t \in DOMAIN log
      /\ \A r \in DOMAIN log : SlotOf(r) \in Nat
  BY LogShape, QueueTyped
<1>2. t \in Nat /\ t >= 1 /\ t <= Finalized
  BY QueueTyped, FinalizedBounded DEF IInv, QueueFinal
<1> DEFINE F == {r \in DOMAIN log : SlotOf(r) <= slot}
<1>3. ASSUME SlotOf(t) > slot PROVE FALSE
  <2>1. F \subseteq 1..(t - 1)
    <3> SUFFICES ASSUME NEW r \in DOMAIN log, SlotOf(r) <= slot
                 PROVE  r \in 1..(t - 1)
      OBVIOUS
    <3>1. ~(t <= r)
      BY <1>1, <1>3 DEF ChainInv
    <3> QED
      BY <1>1, <1>2, <3>1
  <2>2. IsFiniteSet(1..(t - 1)) /\ Cardinality(1..(t - 1)) = t - 1
    <3>1. 1 \in Int /\ t - 1 \in Int
      BY <1>2
    <3>2. /\ IsFiniteSet(1..(t - 1))
          /\ Cardinality(1..(t - 1)) = IF 1 > t - 1 THEN 0 ELSE (t - 1) - 1 + 1
      BY <3>1, FS_Interval
    <3> QED
      BY <1>2, <3>2
  <2>3. Cardinality(F) <= t - 1 /\ Cardinality(F) \in Nat
    BY <2>1, <2>2, FS_Subset, FS_CardinalityType
  <2> QED
    BY <1>2, <2>3 DEF Finalized
<1> QED
  BY <1>1, <1>3

\* With the projection and the chain both told by the events, they differ by
\* what the events tell the two differently.
LEMMA FollowsChain == IInv /\ ExactlyOnce /\ ChainInv => OnlyExitFeesDiffer
<1> SUFFICES ASSUME IInv, ExactlyOnce, ChainInv, UpToDate, NEW u \in Users
             PROVE  positions[u] = Snapshot(slot)[u] - ExitFeesSince(u)
  BY DEF OnlyExitFeesDiffer
<1>1. barrier \in 0..slot /\ slot \in Nat /\ barrier # None
  BY LogShape DEF UpToDate, IInv, TypeOK
<1>2. After = Logged(barrier, slot)
  <2>1. ASSUME NEW c \in After PROVE c \in Logged(barrier, slot)
    <3>1. c \in claims /\ ~(SlotOf(c[1]) <= barrier) /\ c[1] \in DOMAIN queue
          /\ c \in ClaimsOf(DOMAIN log) /\ SlotOf(c[1]) \in Nat
      BY <1>1, LoggedClaims DEF After, Covered, IInv, TypeOK, ClaimsOf
    <3>2. SlotOf(c[1]) <= slot
      BY <3>1, QueuedSlots
    <3> QED
      BY <1>1, <3>1, <3>2 DEF Logged
  <2>2. ASSUME NEW c \in Logged(barrier, slot) PROVE c \in After
    <3>1. c \in ClaimsOf({t \in DOMAIN log : SlotOf(t) <= slot})
      BY DEF Logged, ClaimsOf
    <3>2. c \in claims
      BY <3>1 DEF UpToDate
    <3>3. SlotOf(c[1]) \in Nat /\ barrier < SlotOf(c[1])
      BY LoggedClaims DEF Logged
    <3> QED
      BY <1>1, <3>2, <3>3 DEF After, Covered
  <2> QED
    BY <2>1, <2>2
<1>3. After \in SUBSET ClaimsOf(DOMAIN log)
  BY LoggedClaims DEF After
<1>4. Moved(After, Balance(u)) = Applied(After, u) + ExitFeesSince(u)
  <2> DEFINE moved   == [c \in After |-> ChainDelta(Events(c[1])[c[2]], u)]
             applied == [c \in After |-> Delta(Events(c[1])[c[2]], u)]
             fees    == [c \in After |-> FeeTwice(Events(c[1])[c[2]], u)]
  <2>1. IsFiniteSet(After)
    BY <1>3, AppliedType
  <2>2. ASSUME NEW c \in After
        PROVE  /\ moved[c] \in Int /\ applied[c] \in Int /\ fees[c] \in Int
               /\ moved[c] = applied[c] + fees[c]
    <3>1. Events(c[1])[c[2]] \in Event
      BY <1>3, LoggedClaims
    <3> QED
      BY <3>1, ChainDeltaType, DeltaIs
  <2>3. moved \in [After -> Int] /\ applied \in [After -> Int] /\ fees \in [After -> Int]
    BY <2>2
  <2>4. /\ Moved(After, Balance(u)) = NetTotal(moved) /\ Applied(After, u) = NetTotal(applied)
        /\ ExitFeesSince(u) = NetTotal(fees)
    <3>1. moved = [c \in After |-> Balance(u)[Events(c[1])[c[2]]]]
      BY <1>3, LoggedClaims DEF Balance
    <3> QED
      BY <3>1 DEF Moved, Applied, ExitFeesSince, After, FeeTwice
  <2> HIDE DEF moved, applied, fees
  <2>5. NetTotal(moved) = NetTotal(applied) + NetTotal(fees)
    BY <2>1, <2>2, <2>3, NetPlus
  <2> QED
    BY <2>4, <2>5
<1>5. At(slot)[u] = At(barrier)[u] + Gained(barrier, slot, u)
  <2>1. Accounted(barrier, slot)
    BY <1>1 DEF ChainInv
  <2> QED
    BY <2>1 DEF Accounted, Gained, UpToDate
<1>6. At(slot) = Snapshot(slot) /\ At(barrier) = Snapshot(barrier)
  BY <1>1 DEF At
<1>7. positions[u] = Snapshot(barrier)[u] + Applied(After, u)
  BY <1>1, ExactlyOnceSum DEF Published
<1>8. Snapshot(barrier)[u] \in Int /\ Applied(After, u) \in Int /\ ExitFeesSince(u) \in Int
  <2>1. Snapshot(barrier)[u] \in Int
    BY <1>1, SnapshotTyped DEF Balances
  <2>2. Applied(After, u) \in Int /\ IsFiniteSet(After)
    BY <1>3, AppliedType
  <2> DEFINE fees == [c \in After |-> FeeTwice(Events(c[1])[c[2]], u)]
  <2>3. fees \in [After -> Int]
    BY <1>3, LoggedClaims, ChainDeltaType
  <2>4. ExitFeesSince(u) = NetTotal(fees)
    BY DEF ExitFeesSince, After, FeeTwice
  <2> HIDE DEF fees
  <2> QED
    BY <2>1, <2>2, <2>3, <2>4, NetType
<1> QED
  BY <1>2, <1>4, <1>5, <1>6, <1>7, <1>8 DEF Gained

-----------------------------------------------------------------------------
(* The supply that the events add up to.                                   *)

FinalizedTo(s) == {t \in DOMAIN log : SlotOf(t) <= s}
ExitFee(ev)    == IF ev.type = "Redeemed" THEN ev.fee ELSE 0
ExitFeesTo(s)  == NetTotal([c \in ClaimsOf(FinalizedTo(s)) |-> ExitFee(Events(c[1])[c[2]])])

\* The events up to a finalized slot miss the chain's supply there by the
\* exit fees they announce, and exceed it by what holders burned at the token
\* program by then.
SupplyOffByFeesAndBurns ==
    \A s \in 0..slot :
        EventSupply(FinalizedTo(s)) = Total(Snapshot(s)) + burnedAt[s + 1] - ExitFeesTo(s)

LEMMA SupplyChangeIs ==
    ASSUME NEW ev \in Event
    PROVE  /\ Emission(ev) \in Int /\ SupplyChange(ev) \in Int /\ ExitFee(ev) \in Int
           /\ Emission(ev) = SupplyChange(ev) + ExitFee(ev)
BY DEF Event, Emission, SupplyChange, ExitFee

LEMMA SupplyOff ==
    ASSUME IInv, ChainInv
    PROVE  SupplyOffByFeesAndBurns
<1> SUFFICES ASSUME NEW s \in 0..slot
             PROVE  EventSupply(FinalizedTo(s))
                    = Total(Snapshot(s)) + burnedAt[s + 1] - ExitFeesTo(s)
  BY DEF SupplyOffByFeesAndBurns
<1> DEFINE S       == Logged(0, s)
           moved   == [c \in S |-> Emission(Events(c[1])[c[2]])]
           applied == [c \in S |-> SupplyChange(Events(c[1])[c[2]])]
           fees    == [c \in S |-> ExitFee(Events(c[1])[c[2]])]
<1>1. ClaimsOf(FinalizedTo(s)) = S
  BY DEF ClaimsOf, FinalizedTo, Logged, ChainInv
<1>2. S \in SUBSET ClaimsOf(DOMAIN log) /\ IsFiniteSet(S)
  BY LoggedClaims, FS_Subset DEF Logged
<1>3. \A c \in S : Events(c[1])[c[2]] \in Event
  BY <1>2, LoggedClaims
<1>4. /\ moved \in [S -> Int] /\ applied \in [S -> Int] /\ fees \in [S -> Int]
      /\ \A c \in S : moved[c] = applied[c] + fees[c]
  BY <1>3, SupplyChangeIs
<1>5. Issued(s) = NetTotal(moved)
  <2>1. moved = [c \in S |-> Shares[Events(c[1])[c[2]]]]
    BY <1>3 DEF Shares
  <2> QED
    BY <2>1 DEF Issued, Moved
<1>6. EventSupply(FinalizedTo(s)) = GENESIS + NetTotal(applied) /\ ExitFeesTo(s) = NetTotal(fees)
  BY <1>1 DEF EventSupply, ExitFeesTo
<1>7. Total(Snapshot(s)) + burnedAt[s + 1] = GENESIS + Issued(s)
      /\ Total(Snapshot(s)) \in Nat /\ burnedAt[s + 1] \in Nat
  <2>1. SupplyAccounted(s) /\ At(s) = Snapshot(s) /\ BurntBy(s) = burnedAt[s + 1]
    BY LogShape DEF ChainInv, At, BurntBy
  <2> QED
    BY <2>1, LogShape, UsersAssumption, TotalType DEF SupplyAccounted, Supplied, Balances
<1> HIDE DEF moved, applied, fees, S
<1>8. /\ NetTotal(moved) = NetTotal(applied) + NetTotal(fees)
      /\ NetTotal(applied) \in Int /\ NetTotal(fees) \in Int
  <2>1. NetTotal(moved) = NetTotal(applied) + NetTotal(fees)
    BY <1>2, <1>4, NetPlus
  <2>2. NetTotal(applied) \in Int /\ NetTotal(fees) \in Int
    BY <1>2, <1>4, NetType
  <2> QED
    BY <2>1, <2>2
<1>9. GENESIS \in Int
  BY AmountsAssumption
<1> QED
  BY <1>5, <1>6, <1>7, <1>8, <1>9

-----------------------------------------------------------------------------
(* The theorems.                                                           *)

LEMMA InitIInv == Init => IInv
<1> SUFFICES ASSUME Init
             PROVE  IInv
  OBVIOUS
<1>1. chain \in Balances
  BY AmountsAssumption DEF Init, Balances
<1>2. chainAt \in Seq(Balances) /\ Len(chainAt) = 1
  BY <1>1 DEF Init
<1>3. LogTyped /\ ChainTyped
  BY <1>2 DEF Init, LogTyped, ChainTyped
<1>4. TypeOK
  <2>1. burned \in Nat /\ burnedAt \in Seq(Nat) /\ Len(burnedAt) = 1
    BY DEF Init
  <2> QED
    BY <1>1, <1>2, <2>1, BoundsAssumption DEF Init, TypeOK, ClaimsOf, Balances
<1>5. QueueFinal
  BY <1>3, FinalizedBounded DEF Init, QueueFinal
<1>6. FactsKept /\ AtWork /\ NothingSkipped /\ InChainOrder
  BY DEF Init, FactsKept, AtWork, NothingSkipped, InChainOrder
<1> QED
  BY <1>3, <1>4, <1>5, <1>6 DEF IInv

LEMMA NextIInv == IInv /\ [Next]_vars => IInv'
<1> SUFFICES ASSUME IInv, [Next]_vars
             PROVE  IInv'
  OBVIOUS
<1>1. CASE Chain
  BY <1>1, ChainKeeps
<1>2. CASE Poll
  BY <1>2, DiscoverStep, TakeStep, CollectFactsStep, SkipClaimedStep, ApplyEventStep,
     FindGapStep, MarkRebuildStep, FinishStep DEF Poll
<1>3. CASE Publish
  BY <1>3, FetchStep, PublishSnapshotStep, ReplayStep, StageRebuildStep,
     ActivateRebuildStep DEF Publish
<1>4. CASE Crash
  BY <1>4, CrashStep
<1>5. CASE UNCHANGED vars
  BY <1>5, CollectionStep DEF vars, dbVars, IInv, TypeOK
<1> QED
  BY <1>1, <1>2, <1>3, <1>4, <1>5 DEF Next

\* The bookkeeping holds in every reachable state, for any numbers of users,
\* transactions, slots, amounts and crashes.
THEOREM ProjectionInvariant == Spec => []IInv
BY InitIInv, NextIInv, PTL DEF Spec

\* Rows are of their type and no balance is negative.
THEOREM ProjectionTypeCorrect == Spec => []TypeOK
<1>1. IInv => TypeOK
  BY DEF IInv
<1> QED
  BY <1>1, ProjectionInvariant, PTL

\* No effect is lost between the queue, a replay and the activation.
THEOREM NeverSkipped == Spec => []NothingSkipped
<1>1. IInv => NothingSkipped
  BY DEF IInv
<1> QED
  BY <1>1, ProjectionInvariant, PTL

\* No event is claimed before one that precedes it.
THEOREM AlwaysInChainOrder == Spec => []InChainOrder
<1>1. IInv => InChainOrder
  BY DEF IInv
<1> QED
  BY <1>1, ProjectionInvariant, PTL

\* The projection is the last published snapshot and, once each, the claimed
\* events of the slots after it.
THEOREM CountedExactlyOnce == Spec => []ExactlyOnce
BY ProjectionInvariant, InitExactlyOnce, NextExactlyOnce, PTL DEF Spec

\* The chain's balances are accounted for by its events between the slots in
\* which shares moved without one, and the supply by the events and what
\* holders burned at the token program.
THEOREM ChainAccounted == Spec => []ChainInv
BY ProjectionInvariant, InitChainInv, NextChainInv, PTL DEF Spec

\* An up-to-date projection is the chain's balances, less the exit fees of the
\* redemptions since the snapshot.
THEOREM FollowsButForExitFees == Spec => []OnlyExitFeesDiffer
BY ChainAccounted, ProjectionInvariant, CountedExactlyOnce, FollowsChain, PTL

\* The supply that navEngine.ts:449 and positions.ts:420 add up from the events
\* misses the chain's by the exit fees, exceeds it by what holders burned at the
\* token program, and differs by nothing else.
THEOREM EventSupplyOffByFeesAndBurns == Spec => []SupplyOffByFeesAndBurns
BY ChainAccounted, ProjectionInvariant, SupplyOff, PTL
=============================================================================
