------------------------------ MODULE Positions ------------------------------
(***************************************************************************)
(* The indexer's projection of share balances (backend/src/indexer:        *)
(* positions.ts, positionsSync.ts, positionRecovery.ts) of one basket.     *)
(*                                                                         *)
(* The chain finalises transactions of the basket program.  The indexer    *)
(* queues them, and a poll folds the events of one after the other into    *)
(* user_positions; the (signature, log index) of an event is claimed in    *)
(* the database transaction of its effect.  A finalized snapshot of the    *)
(* holders can replace the projection: the periodic sync does so while the *)
(* projection is sound, the reviewed recovery does so after a gap.  A      *)
(* snapshot is read before any lock is taken and published later, so polls *)
(* and crashes come between.                                               *)
(*                                                                         *)
(* The queue is fed in chain order here.  How it is fed (pages, cursors,   *)
(* several programs) is left out.                                          *)
(***************************************************************************)
EXTENDS Integers, Sequences, FiniteSets, FiniteSetsExt, Sums

CONSTANTS
    Users, Creator, Treasury,
    Traders,                  \* bound: who mints, redeems and transfers
    GENESIS,                  \* raw shares of the creation (1_000_000)
    MintedShares, BurnedShares,
    EntryFees, ExitFees, ManagementFees, \* fee shares a transaction may carry
    MaxTxs, MaxSlot, MaxCrashes, \* bounds
    None

ASSUME UsersAssumption ==
    IsFiniteSet(Users) /\ {Creator, Treasury} \cup Traders \subseteq Users
ASSUME AmountsAssumption ==
    /\ MintedShares \cup BurnedShares \subseteq Nat \ {0}
    /\ EntryFees \cup ExitFees \cup ManagementFees \subseteq Nat
    /\ GENESIS \in Nat
ASSUME BoundsAssumption ==
    /\ {MaxTxs, MaxSlot, MaxCrashes} \subseteq Nat
    /\ None \notin Nat

VARIABLES
    \* the chain
    log,          \* the basket's transactions: their slot and their events
    chain,        \* share balances now
    slot,         \* the last finalized slot
    chainAt,      \* share balances at the end of each finalized slot
    unlogged,     \* slots in which shares moved without a program event
    burned,       \* shares that holders have burned at the token program
    burnedAt,     \* the same at the end of each finalized slot
    \* the database
    queue,        \* status of the queued transactions, in order
    verified,     \* finalized_through_slot
    facts,        \* transactions whose event rows are stored
    claims,       \* position_events
    positions,    \* user_positions (no row: 0)
    barrier,      \* position_reconciliation_state.snapshot_slot
    rebuild,      \* position_rebuild_required and its resolution
    run,          \* the staged or activated recovery run
    \* processes
    work,         \* the transaction a poll is at, and the event in it
    reading,      \* slot of the snapshot a reader has fetched
    crashes

chainVars == <<log, chain, slot, chainAt, unlogged, burned, burnedAt>>
dbVars    == <<queue, verified, facts, claims, positions, barrier, rebuild, run>>
vars      == <<chainVars, dbVars, work, reading, crashes>>

Readers == {"sync", "operator"}

Credit(balances, u, n) == [balances EXCEPT ![u] = @ + n]

\* 90 % to the creator, rounded down, and the rest to the treasury.
CreatorShare(fee) == (fee * 9000) \div 10000
CreditFeeSplit(balances, fee) ==
    Credit(Credit(balances, Creator, CreatorShare(fee)), Treasury, fee - CreatorShare(fee))

-----------------------------------------------------------------------------
(* The chain.  A Redeemed event carries the shares handed in, the exit fee *)
(* among them: the program burns their difference.                         *)

Minted(u, net, fee)    == [type |-> "Minted", user |-> u, shares |-> net, fee |-> fee]
Redeemed(u, sold, fee) == [type |-> "Redeemed", user |-> u, shares |-> sold, fee |-> fee]
FeeAccrued(fee)        == [type |-> "FeeAccrued", user |-> Creator, shares |-> 0, fee |-> fee]

\* Every instruction accrues first; an accrual of no share emits nothing.
AccruedEvents(fee) == IF fee = 0 THEN <<>> ELSE <<FeeAccrued(fee)>>

Execute(events, balances) ==
    /\ Len(log) < MaxTxs /\ slot < MaxSlot
    /\ events # <<>>
    /\ log' = Append(log, [slot |-> slot + 1, events |-> events])
    /\ chain' = balances
    /\ UNCHANGED <<slot, chainAt, unlogged, burned, burnedAt, dbVars, work, reading, crashes>>

ChainMint(u) ==
    \E net \in MintedShares, fee \in EntryFees, accrued \in ManagementFees :
        Execute(AccruedEvents(accrued) \o <<Minted(u, net, fee)>>,
                CreditFeeSplit(Credit(CreditFeeSplit(chain, accrued), u, net), fee))

ChainRedeem(u) ==
    \E sold \in BurnedShares, fee \in ExitFees, accrued \in ManagementFees :
        LET before == CreditFeeSplit(chain, accrued) IN
        /\ fee <= sold /\ sold <= chain[u]
        /\ Execute(AccruedEvents(accrued) \o <<Redeemed(u, sold, fee)>>,
                   CreditFeeSplit(Credit(before, u, -sold), fee))

ChainAccrue ==
    \E accrued \in ManagementFees :
        Execute(AccruedEvents(accrued), CreditFeeSplit(chain, accrued))

\* A plain token transfer names no program: the indexer never hears of it.
ChainTransfer(u, v) ==
    /\ u # v /\ chain[u] > 0 /\ slot < MaxSlot
    /\ slot + 1 \notin unlogged   \* bound: one in a slot
    /\ chain' = Credit(Credit(chain, u, -1), v, 1)
    /\ unlogged' = unlogged \cup {slot + 1}
    /\ UNCHANGED <<log, slot, chainAt, burned, burnedAt, dbVars, work, reading, crashes>>

\* Nor of a holder who burns shares at the token program: the supply falls
\* and no event says so.
ChainBurn(u) ==
    /\ chain[u] > 0 /\ slot < MaxSlot
    /\ slot + 1 \notin unlogged   \* bound: one in a slot
    /\ chain' = Credit(chain, u, -1)
    /\ burned' = burned + 1
    /\ unlogged' = unlogged \cup {slot + 1}
    /\ UNCHANGED <<log, slot, chainAt, burnedAt, dbVars, work, reading, crashes>>

Finalize ==
    /\ slot < MaxSlot
    /\ slot' = slot + 1
    /\ chainAt' = Append(chainAt, chain)
    /\ burnedAt' = Append(burnedAt, burned)
    /\ UNCHANGED <<log, chain, unlogged, burned, dbVars, work, reading, crashes>>

\* Balances at the end of slot s; chainAt starts with slot 0, the creation.
Snapshot(s) == chainAt[s + 1]

-----------------------------------------------------------------------------
(* Polls: discovery, then the queue in order, one at a time                *)

Events(t)    == log[t].events
SlotOf(t)    == log[t].slot
ClaimsOf(T)  == {c \in T \X (1..2) : c[2] <= Len(Events(c[1]))}
Pending      == {t \in DOMAIN queue : queue[t] = "pending"}
Newest       == Max(Pending)
Oldest       == Min(Pending)
Finalized    == Cardinality({t \in DOMAIN log : SlotOf(t) <= slot})

Discover ==
    /\ work = None
    /\ verified < slot \/ Len(queue) < Finalized
    /\ queue' = [t \in 1..Finalized |-> IF t \in DOMAIN queue THEN queue[t] ELSE "pending"]
    /\ verified' = slot
    /\ UNCHANGED <<chainVars, facts, claims, positions, barrier, rebuild, run, work, reading, crashes>>

\* The event rows and the collection marker are committed together, before
\* any effect.
Take ==
    /\ work = None /\ rebuild # "required"
    /\ Pending # {}
    /\ LET t == Oldest IN
       /\ facts' = facts \cup {t}
       /\ work' = [tx |-> t, at |-> 1, gap |-> FALSE]
    /\ UNCHANGED <<chainVars, queue, verified, claims, positions, barrier, rebuild, run, reading, crashes>>

\* While a rebuild is required a poll stores the facts of queued transactions
\* and leaves them pending.
CollectFacts ==
    /\ work = None /\ rebuild = "required"
    /\ Pending \ facts # {}
    /\ facts' = facts \cup {Min(Pending \ facts)}
    /\ UNCHANGED <<chainVars, queue, verified, claims, positions, barrier, rebuild, run, work, reading, crashes>>

SharesRemoved(ev) == ev.shares + ev.fee
GapOverlooked(ev) == FALSE
Gap(ev) == ev.type = "Redeemed" /\ SharesRemoved(ev) > positions[ev.user]

EffectWithoutFee(ev, balances) ==
    CASE ev.type = "Minted"     -> Credit(balances, ev.user, ev.shares)
      [] ev.type = "Redeemed"   -> Credit(balances, ev.user, -SharesRemoved(ev))
      [] ev.type = "FeeAccrued" -> balances

\* The effect of an event on the balances it finds.
Effect(ev, balances) ==
    CreditFeeSplit(
        CASE ev.type = "Minted"     -> Credit(balances, ev.user, ev.shares)
          [] ev.type = "Redeemed"   -> Credit(balances, ev.user, -SharesRemoved(ev))
          [] ev.type = "FeeAccrued" -> balances,
        ev.fee)

Covered(t)   == barrier # None /\ SlotOf(t) <= barrier
AtEvent      == work # None /\ ~work.gap /\ work.at <= Len(Events(work.tx))
Claim        == <<work.tx, work.at>>
NextEvent    == work' = [work EXCEPT !.at = @ + 1]

\* Claimed already (an earlier attempt was cut off): nothing to do.
SkipClaimed ==
    /\ AtEvent /\ Claim \in claims
    /\ NextEvent
    /\ UNCHANGED <<chainVars, dbVars, reading, crashes>>

\* The claim and the effect are one database transaction; the effect of an
\* event that the published snapshot covers is already in the balances.
ApplyEvent ==
    /\ AtEvent /\ Claim \notin claims
    /\ LET ev == Events(work.tx)[work.at] IN
       /\ Covered(work.tx) \/ ~Gap(ev)
       /\ claims' = claims \cup {Claim}
       /\ positions' = IF Covered(work.tx) THEN positions ELSE Effect(ev, positions)
    /\ NextEvent
    /\ UNCHANGED <<chainVars, queue, verified, facts, barrier, rebuild, run, reading, crashes>>

FindGapUnmarked ==
    /\ AtEvent /\ Claim \notin claims
    /\ ~Covered(work.tx) /\ Gap(Events(work.tx)[work.at])
    /\ work' = None
    /\ UNCHANGED <<chainVars, dbVars, reading, crashes>>

\* A redemption of more than is projected rolls claim and effect back.
FindGap ==
    /\ AtEvent /\ Claim \notin claims
    /\ ~Covered(work.tx) /\ Gap(Events(work.tx)[work.at])
    /\ work' = [work EXCEPT !.gap = TRUE]
    /\ UNCHANGED <<chainVars, dbVars, reading, crashes>>

\* ... and a transaction of its own asks for a rebuild.  The transaction
\* stays queued and ends the poll.
MarkRebuild ==
    /\ work # None /\ work.gap
    /\ rebuild' = "required"
    /\ work' = None
    /\ UNCHANGED <<chainVars, queue, verified, facts, claims, positions, barrier, run, reading, crashes>>

Finish ==
    /\ work # None /\ ~work.gap /\ work.at > Len(Events(work.tx))
    /\ queue' = [queue EXCEPT ![work.tx] = "processed"]
    /\ work' = None
    /\ UNCHANGED <<chainVars, verified, facts, claims, positions, barrier, rebuild, run, reading, crashes>>

\* The process dies: what it had not written is gone.
Crash ==
    /\ crashes < MaxCrashes
    /\ crashes' = crashes + 1
    /\ work' = None
    /\ reading' = [r \in Readers |-> None]
    /\ UNCHANGED <<chainVars, dbVars>>

-----------------------------------------------------------------------------
(* Snapshots.  Publication takes the poll's lock: no poll is under way.    *)

FetchSnapshot(r) ==
    /\ reading[r] # slot
    /\ reading' = [reading EXCEPT ![r] = slot]
    /\ UNCHANGED <<chainVars, dbVars, work, crashes>>

\* The sync reads no chain state it could not publish, as far as a look at
\* the queue and the guard tells.
SyncFetches == Pending = {} /\ rebuild # "required" /\ FetchSnapshot("sync")

\* Operators read one while the basket awaits a rebuild.
OperatorFetches == rebuild = "required" /\ FetchSnapshot("operator")

CompleteThrough(s) == work = None /\ Pending = {} /\ verified >= s
NothingAfter(T, s) == \A t \in T : SlotOf(t) <= s
ClaimedTxs         == {c[1] : c \in claims}
NotBackwards(s)    == barrier # None => barrier <= s

PublishableAtAnyAge(s) ==
    CompleteThrough(s) /\ rebuild # "required" /\ NotBackwards(s)

Publishable(s) ==
    /\ CompleteThrough(s)
    /\ rebuild # "required"
    /\ NothingAfter(facts, s)
    /\ NothingAfter(ClaimedTxs, s)
    /\ NotBackwards(s)

PublishSnapshot ==
    /\ reading["sync"] # None
    /\ Publishable(reading["sync"])
    /\ positions' = Snapshot(reading["sync"])
    /\ barrier' = reading["sync"]
    /\ reading' = [reading EXCEPT !["sync"] = None]
    /\ UNCHANGED <<chainVars, queue, verified, facts, claims, rebuild, run, work, crashes>>

\* The share supply that the stored events add up to.
SupplyChange(ev) ==
    CASE ev.type = "Minted"     -> ev.shares + ev.fee
      [] ev.type = "Redeemed"   -> -ev.shares
      [] ev.type = "FeeAccrued" -> ev.fee
EventSupply(T) ==
    GENESIS + NetTotal([c \in ClaimsOf(T) |-> SupplyChange(Events(c[1])[c[2]])])

ValidHistory(s) == EventSupply(facts) = Total(Snapshot(s)) /\ NothingAfter(facts, s)

\* A replay in recovery stores the facts of a transaction, and finishes it
\* without effects.  It looks at no rebuild mark.
Replay ==
    /\ work = None
    /\ Pending # {}
    /\ LET t == Oldest IN
       /\ facts' = facts \cup {t}
       /\ queue' = [queue EXCEPT ![t] = "processed"]
    /\ UNCHANGED <<chainVars, verified, claims, positions, barrier, rebuild, run, work, reading, crashes>>

\* Environment: operators replay a projection that awaits a rebuild and no
\* other, as the recovery procedure has it.  No code holds them to it, and
\* NothingSkipped depends on it.
ProcedureFollowed == rebuild = "required"

StageRebuild ==
    /\ reading["operator"] # None
    /\ CompleteThrough(reading["operator"])
    /\ ValidHistory(reading["operator"])
    /\ run' = [slot |-> reading["operator"], facts |-> facts, status |-> "staged"]
    /\ run' # run
    /\ reading' = [reading EXCEPT !["operator"] = None]
    /\ UNCHANGED <<chainVars, queue, verified, facts, claims, positions, barrier, rebuild, work, crashes>>

\* The run that was reviewed must still be what the chain and history say.
Activatable(s) ==
    /\ rebuild = "required"
    /\ CompleteThrough(s)
    /\ facts = run.facts /\ ValidHistory(run.slot)
    /\ NothingAfter(facts, s) /\ run.slot <= s
    /\ Snapshot(s) = Snapshot(run.slot)
    /\ claims \subseteq ClaimsOf(facts)
    /\ NotBackwards(s)

ClaimsKept      == claims
PublishedClaims == claims \cup ClaimsOf(facts)

ActivateRebuild ==
    /\ reading["operator"] # None
    /\ run # None /\ run.status = "staged"
    /\ Activatable(reading["operator"])
    /\ positions' = Snapshot(reading["operator"])
    /\ claims' = PublishedClaims
    /\ barrier' = reading["operator"]
    /\ rebuild' = "resolved"
    /\ run' = [run EXCEPT !.status = "activated"]
    /\ reading' = [reading EXCEPT !["operator"] = None]
    /\ UNCHANGED <<chainVars, queue, verified, facts, work, crashes>>

-----------------------------------------------------------------------------
Init ==
    /\ log = <<>>
    /\ chain = [u \in Users |-> IF u = Creator THEN GENESIS ELSE 0]
    /\ slot = 0 /\ chainAt = <<chain>> /\ unlogged = {}
    /\ burned = 0 /\ burnedAt = <<burned>>
    /\ queue = <<>> /\ verified = 0
    /\ facts = {} /\ claims = {}
    /\ positions = [u \in Users |-> 0]
    /\ barrier = None /\ rebuild = "no" /\ run = None
    /\ work = None /\ reading = [r \in Readers |-> None]
    /\ crashes = 0

Chain ==
    \/ \E u \in Traders : ChainMint(u) \/ ChainRedeem(u) \/ ChainBurn(u)
    \/ ChainAccrue
    \/ \E u \in Traders, v \in Users : ChainTransfer(u, v)
    \/ Finalize

Poll ==
    \/ Discover \/ Take \/ CollectFacts
    \/ SkipClaimed \/ ApplyEvent \/ FindGap \/ MarkRebuild \/ Finish

Publish ==
    \/ SyncFetches \/ OperatorFetches
    \/ PublishSnapshot \/ StageRebuild \/ ActivateRebuild
    \/ (ProcedureFollowed /\ Replay)

Next == Chain \/ Poll \/ Publish \/ Crash

Spec == Init /\ [][Next]_vars

\* The poll runs on a timer, and a poll that is not cut off goes on to its
\* next step.  Nothing is assumed of the chain, the snapshots, the operator.
FairSpec == Spec /\ WF_vars(Poll)

-----------------------------------------------------------------------------
(* Properties *)

\* Every row is of its shape, and no balance is negative.
TypeOK ==
    /\ chain \in [Users -> Nat] /\ positions \in [Users -> Nat]
    /\ slot \in 0..MaxSlot /\ verified \in 0..slot
    /\ Len(chainAt) = slot + 1
    /\ unlogged \subseteq 1..(slot + 1)
    /\ burned \in Nat /\ burnedAt \in Seq(Nat) /\ Len(burnedAt) = slot + 1
    /\ queue \in Seq({"pending", "processed"}) /\ Len(queue) <= Len(log)
    /\ facts \subseteq DOMAIN queue
    /\ claims \subseteq ClaimsOf(DOMAIN queue)
    /\ barrier \in {None} \cup 0..slot
    /\ rebuild \in {"no", "required", "resolved"}
    /\ run = None \/ run \in [slot : 0..slot, facts : SUBSET facts, status : {"staged", "activated"}]
    /\ work = None \/ work \in [tx : DOMAIN queue, at : 1..3, gap : BOOLEAN]
    /\ reading \in [Readers -> {None} \cup 0..slot]

\* What one event adds to the balance of u.
Delta(ev, u) == LET flat == [v \in Users |-> GENESIS] IN Effect(ev, flat)[u] - flat[u]

\* Exactly once: whatever was cut off, retried, published or recovered, the
\* projection is the last published snapshot and, once each, the claimed
\* events of the slots after it (applyAtomic, positions.ts:334).
ExactlyOnce ==
    LET after == {c \in claims : ~Covered(c[1])} IN
    \A u \in Users :
        positions[u] = (IF barrier = None THEN 0 ELSE Snapshot(barrier)[u])
                       + NetTotal([c \in after |-> Delta(Events(c[1])[c[2]], u)])

\* A transaction leaves the queue only when all its events are claimed, or
\* while the basket awaits a rebuild: no effect is lost between the queue,
\* a replay without effects and the activation that makes up for it.
NothingSkipped ==
    rebuild # "required" =>
        \A t \in DOMAIN queue : queue[t] = "processed" => ClaimsOf({t}) \subseteq claims

\* Events take effect in chain order: no event is claimed before one that
\* precedes it (positions.ts:334 under the order of history.ts:96).
InChainOrder ==
    \A c \in claims, d \in ClaimsOf(DOMAIN queue) :
        d[1] < c[1] \/ (d[1] = c[1] /\ d[2] < c[2]) => d \in claims

\* The projection is comparable to the chain: built on a snapshot, free of a
\* pending rebuild, with every event of the finalized slots claimed, and
\* without a transfer or a burn the program's events cannot tell of.
UpToDate ==
    /\ barrier # None /\ rebuild # "required"
    /\ ClaimsOf({t \in DOMAIN log : SlotOf(t) <= slot}) \subseteq claims
    /\ \A s \in unlogged : s <= barrier \/ s > slot

\* An up-to-date projection is the chain's balances.
ProjectionFollowsChain == UpToDate => positions = Snapshot(slot)

\* ... but for the exit fees of the redemptions since the snapshot, which are
\* taken from the redeemer once too often; nothing else makes them differ
\* (positions.ts:249-332 against lib.rs:539-850).
ExitFeesSince(u) ==
    LET after == {c \in claims : ~Covered(c[1])} IN
    NetTotal([c \in after |-> LET ev == Events(c[1])[c[2]] IN
                              IF ev.type = "Redeemed" /\ ev.user = u THEN ev.fee ELSE 0])

OnlyExitFeesDiffer ==
    UpToDate => \A u \in Users : positions[u] = Snapshot(slot)[u] - ExitFeesSince(u)

\* As long as no holder burned shares at the token program, the stored events
\* of a finished history add up to the chain's supply (navEngine.ts:449, and
\* positions.ts:420 before a rebuild is staged).
EventSupplyReconciles ==
    burned = 0 /\ Len(log) = Finalized => EventSupply(DOMAIN log) = Total(Snapshot(slot))

\* Every finalized transaction is folded into the projection, or the basket
\* comes to ask for a rebuild.
EventuallyProjected ==
    \A t \in 1..MaxTxs :
        (t \in DOMAIN log /\ SlotOf(t) <= slot) ~>
            (rebuild = "required" \/ (t \in DOMAIN log /\ ClaimsOf({t}) \subseteq claims))
=============================================================================
