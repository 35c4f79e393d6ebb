---------------------------- MODULE LookupTables ---------------------------
(***************************************************************************)
(* The wallet-paid setup of an address lookup table before a large trade   *)
(* (transactions.ts: ensureAltCovering, sendWithWallet and the setup       *)
(* receipt), as the trade form runs it (use-alt-prewarm.ts).               *)
(*                                                                         *)
(* A table is named by the slot it is derived from.  The accounts it must  *)
(* hold come in Chunks, one extension each; the creation shares the packet *)
(* of the first one.  Every submission costs the wallet an approval and    *)
(* rent, and every read may lag behind what has landed.                    *)
(*                                                                         *)
(* Left out: what is specific to one caller's accounts, a receipt that     *)
(* somebody else damaged, tables closed or frozen from outside, and a form *)
(* that is switched to another wallet and back during a setup.             *)
(***************************************************************************)
EXTENDS Naturals, Sequences

CONSTANTS
    NChunks,    \* how many packets the wanted accounts fill
    MaxSlot,    \* bound on the finalized slots a run may read
    MaxSubs,    \* bound on submissions
    MaxFaults   \* bound on refusals, lost answers, reloads, failures, expiries
                \* and nodes that do not know a status

ASSUME SetupAssumption ==
    /\ NChunks \in Nat \ {0}
    /\ MaxSlot \in Nat \ {0} /\ MaxSubs \in Nat /\ MaxFaults \in Nat

Chunks == 1..NChunks

VARIABLES
    subs,       \* every transaction a wallet broadcast, by signature 1..
    latest,     \* the latest finalized slot a run has read
    receipt,    \* the saved AltSetupReceipt
    storage,    \* does the browser keep localStorage?
    run,        \* the preparation in progress
    faults      \* how many faults have happened

vars == <<subs, latest, receipt, storage, run, faults>>

\* 0 is no signature; slot 0 is no receipt.
NoReceipt == [slot |-> 0, creation |-> 0, pending |-> 0, expected |-> {},
              confirmed |-> FALSE]

\* The locals of ensureAltCovering.
Idle == [pc |-> "idle", slot |-> 0, create |-> FALSE, left |-> {}, cover |-> {},
         target |-> 0, back |-> "idle", out |-> 0]

Returns == {"idle", "decide", "prompt", "finish"}
Reads == {"exist", "status", "height", "table", "visible", "verify"}
Stages == Returns \cup Reads \cup {"loop", "confirm", "done"}

Signatures == 0..MaxSubs

TypeOK ==
    /\ subs \in Seq([slot : 1..MaxSlot, creates : BOOLEAN, adds : SUBSET Chunks,
                     st : {"inflight", "landed", "shown", "failed", "expired"},
                     lost : BOOLEAN, struck : BOOLEAN])
    /\ Len(subs) <= MaxSubs
    /\ latest \in 0..MaxSlot
    /\ receipt \in [slot : 0..MaxSlot, creation : Signatures, pending : Signatures,
                    expected : SUBSET Chunks, confirmed : BOOLEAN]
    /\ receipt.slot = 0 => receipt = NoReceipt
    /\ storage \in BOOLEAN
    /\ run \in [pc : Stages, slot : 0..MaxSlot, create : BOOLEAN, left : SUBSET Chunks,
                cover : SUBSET Chunks, target : Signatures, back : Returns,
                out : Signatures]
    /\ faults \in 0..MaxFaults

Init ==
    /\ subs = <<>> /\ latest = 0 /\ receipt = NoReceipt /\ storage \in BOOLEAN
    /\ run = Idle /\ faults = 0

-----------------------------------------------------------------------------
(* What the reads return.                                                  *)

Landed(i) == subs[i].st \in {"landed", "shown"}

Shown(s) == {i \in DOMAIN subs : subs[i].slot = s /\ subs[i].st = "shown"}

\* The account read, and the addresses in the table it shows.
Exists(s) == \E i \in Shown(s) : subs[i].creates
Have(s) == UNION {subs[i].adds : i \in Shown(s)}

\* Variant: a confirmed transaction is taken for a readable table.
ConfirmedCover(s, wanted) ==
    wanted \subseteq UNION {subs[i].adds :
                  i \in {j \in DOMAIN subs : subs[j].slot = s /\ Landed(j)}}
Covers(s, wanted) == Exists(s) /\ wanted \subseteq Have(s)

-----------------------------------------------------------------------------
(* Pieces of the preparation.                                              *)

\* An error ends the run; what the receipt says stays for the next one.
Stop == run' = Idle

\* Variants: the fields are not cleared, the creation goes with its extension,
\* and the other way round.
ForgetSlotOnly(t) ==
    IF receipt.creation = t THEN [receipt EXCEPT !.slot = 0]
    ELSE [receipt EXCEPT !.pending = 0, !.expected = {}, !.confirmed = FALSE]
ForgetEverything(t) == NoReceipt
ForgetPendingOnly(t) == [receipt EXCEPT !.pending = 0, !.expected = {},
                                        !.confirmed = FALSE]

\* removeAltReceipt, or the receipt without its pending extension, depending
\* on whether the submission that came to nothing was the creation.
Forget(t) ==
    IF receipt.creation = t THEN NoReceipt
    ELSE [receipt EXCEPT !.pending = 0, !.expected = {}, !.confirmed = FALSE]

\* reconcilePending, up to its first read.
Reconcile(r, back) ==
    run' = IF receipt.slot # r.slot \/ receipt.pending = 0 THEN [r EXCEPT !.pc = back]
           ELSE [r EXCEPT !.pc = IF receipt.confirmed THEN "table" ELSE "status",
                          !.target = receipt.pending, !.back = back]

\* The next packet: the creation rides with the first extension.  Which chunk
\* is next matters to nothing.
Packet == [slot |-> run.slot, creates |-> run.create /\ run.cover = {},
           adds |-> {CHOOSE c \in run.left : TRUE},
           st |-> "inflight", lost |-> FALSE, struck |-> FALSE]

\* Variant: the packets still to be sent are expected too.
SavedExpectingAll(signature, packet) ==
    [slot |-> run.slot,
     creation |-> IF packet.creates THEN signature ELSE receipt.creation,
     pending |-> signature, expected |-> Chunks, confirmed |-> FALSE]

\* What onSubmitted saves: before confirmation and before the next packet.
Saved(signature, packet) ==
    [slot |-> run.slot,
     creation |-> IF packet.creates THEN signature ELSE receipt.creation,
     pending |-> signature, expected |-> run.cover \cup packet.adds,
     confirmed |-> FALSE]

Fault == faults < MaxFaults /\ faults' = faults + 1

-----------------------------------------------------------------------------
(* The preparation.                                                        *)

\* The form prewarms, or the user asks (again): the saved slot, else a fresh one,
\* which is a new one: a run takes longer than a slot.
\* AltPreparationScope joins a preparation under way and keeps a finished one.
Start ==
    /\ run.pc = "idle"
    /\ \/ /\ receipt.slot # 0
          /\ run' = [Idle EXCEPT !.pc = "exist", !.slot = receipt.slot]
          /\ UNCHANGED latest
       \/ /\ receipt.slot = 0 /\ latest < MaxSlot
          /\ latest' = latest + 1
          /\ run' = [Idle EXCEPT !.pc = "exist", !.slot = latest + 1]
    /\ UNCHANGED <<subs, receipt, storage, faults>>

\* The existence read, before the reconciliation.
ReadExistence ==
    /\ run.pc = "exist"
    /\ Reconcile([run EXCEPT !.create = ~Exists(run.slot)], "decide")
    /\ UNCHANGED <<subs, latest, receipt, storage, faults>>

\* getSignatureStatuses for a pending or a creating submission.  A node that
\* lags behind, or another one behind the balancer, has no status of a
\* submission that was processed long ago.
ReadStatus ==
    /\ run.pc = "status"
    /\ \/ /\ subs[run.target].st = "failed"
          /\ receipt' = Forget(run.target)
          /\ Stop
          /\ UNCHANGED faults
       \/ /\ Landed(run.target)
          /\ IF receipt.pending = run.target THEN run' = [run EXCEPT !.pc = "table"]
                                             ELSE Stop
          /\ UNCHANGED <<receipt, faults>>
       \/ /\ run' = [run EXCEPT !.pc = "height"]
          /\ IF subs[run.target].st \in {"inflight", "expired"}
             THEN UNCHANGED faults ELSE Fault
          /\ UNCHANGED receipt
       \/ /\ subs[run.target].st = "inflight"  \* processed, not yet confirmed
          /\ Stop
          /\ UNCHANGED <<receipt, faults>>
    /\ UNCHANGED <<subs, latest, storage>>

\* What was bought and is no longer on any receipt: a submission, or all that
\* went into a table.
StruckOff(t) ==
    [i \in DOMAIN subs |->
        [subs[i] EXCEPT !.struck =
            @ \/ i = t \/ (receipt.creation = t /\ subs[i].slot = receipt.slot)]]

\* getBlockHeight after an empty status: past the last valid height the
\* submission is taken for expired, even if it has landed, before the status
\* read or after it.
ReadHeight ==
    /\ run.pc = "height"
    /\ \/ /\ subs[run.target].st \in {"expired", "failed"}
          /\ receipt' = Forget(run.target)
          /\ UNCHANGED <<subs, faults>>
       \/ /\ Landed(run.target)
          /\ receipt' = Forget(run.target)
          /\ subs' = StruckOff(run.target)
          /\ Fault
       \/ /\ subs[run.target].st # "expired"
          /\ UNCHANGED <<receipt, subs, faults>>
    /\ Stop
    /\ UNCHANGED <<latest, storage>>

\* The end of reconcilePending: the table must show what the submission added.
ReadTable ==
    /\ run.pc = "table"
    /\ IF Covers(run.slot, receipt.expected)
       THEN /\ receipt' = [receipt EXCEPT !.pending = 0, !.expected = {},
                                          !.confirmed = FALSE]
            /\ run' = [run EXCEPT !.pc = run.back, !.target = 0, !.back = "idle"]
       ELSE Stop /\ UNCHANGED receipt
    /\ UNCHANGED <<subs, latest, storage, faults>>

\* No table to be seen but a receipt for it: resolve its creation first.
ResolveCreation ==
    /\ run.pc = "decide" /\ run.create /\ receipt.slot = run.slot
    /\ IF receipt.creation # 0
       THEN run' = [run EXCEPT !.pc = "status", !.target = receipt.creation]
            /\ UNCHANGED receipt
       ELSE Stop /\ receipt' = NoReceipt
    /\ UNCHANGED <<subs, latest, storage, faults>>

\* The packets are decided before anything is signed.
Decide ==
    /\ run.pc = "decide"
    /\ \/ /\ run.create /\ receipt.slot # run.slot
          /\ run' = [run EXCEPT !.pc = "loop", !.left = Chunks]
          /\ UNCHANGED receipt
       \/ /\ ~run.create
          /\ run' = [run EXCEPT !.pc = "loop", !.left = Chunks \ Have(run.slot),
                                !.cover = Have(run.slot)]
          /\ receipt' = [receipt EXCEPT !.slot = run.slot]
    /\ UNCHANGED <<subs, latest, storage, faults>>

\* The head of the packet loop.
Loop ==
    /\ run.pc = "loop"
    /\ IF run.left # {} THEN Reconcile(run, "prompt")
       ELSE run' = [run EXCEPT !.pc = IF run.create THEN "visible" ELSE "verify"]
    /\ UNCHANGED <<subs, latest, receipt, storage, faults>>

\* The wallet broadcasts the packet: a first time, or once more the same bytes.
Broadcast(lost) ==
    IF run.out = 0
    THEN /\ Len(subs) < MaxSubs
         /\ subs' = Append(subs, [Packet EXCEPT !.lost = lost])
    ELSE subs' = [subs EXCEPT ![run.out].lost = lost]
Signature == IF run.out = 0 THEN Len(subs) + 1 ELSE run.out

\* The answer arrives: the receipt is saved in the same turn.
Approve ==
    /\ run.pc = "prompt"
    /\ Broadcast(FALSE)
    /\ receipt' = Saved(Signature, Packet)
    /\ run' = [run EXCEPT !.pc = "confirm", !.out = 0, !.cover = @ \cup Packet.adds,
                          !.left = @ \ Packet.adds]
    /\ UNCHANGED <<latest, storage, faults>>

\* The answer is lost on the way: withRetry prompts for the same transaction.
LoseAnswer ==
    /\ run.pc = "prompt" /\ run.out = 0
    /\ Broadcast(TRUE)
    /\ run' = [run EXCEPT !.out = Signature]
    /\ Fault
    /\ UNCHANGED <<latest, receipt, storage>>

\* The user refuses, or the attempts are used up.
Refuse ==
    /\ run.pc = "prompt"
    /\ Stop
    /\ Fault
    /\ UNCHANGED <<subs, latest, receipt, storage>>

\* confirmTransaction: landed, or any error, a timeout included.
Confirm ==
    /\ run.pc = "confirm"
    /\ \/ /\ Landed(receipt.pending)
          /\ receipt' = [receipt EXCEPT !.confirmed = TRUE]
          /\ run' = [run EXCEPT !.pc = "loop"]
       \/ Stop /\ UNCHANGED receipt
    /\ UNCHANGED <<subs, latest, storage, faults>>

\* The visibility poll and the verification: each sees it, or gives up.
Poll ==
    /\ run.pc = "visible"
    /\ IF Exists(run.slot) THEN run' = [run EXCEPT !.pc = "verify"] ELSE Stop
    /\ UNCHANGED <<subs, latest, receipt, storage, faults>>

Verify ==
    /\ run.pc = "verify"
    /\ IF Covers(run.slot, Chunks) THEN Reconcile(run, "finish") ELSE Stop
    /\ UNCHANGED <<subs, latest, receipt, storage, faults>>

Finish ==
    /\ run.pc = "finish"
    /\ receipt' = [receipt EXCEPT !.slot = run.slot]
    /\ run' = [run EXCEPT !.pc = "done"]
    /\ UNCHANGED <<subs, latest, storage, faults>>

\* A read fails for good (RpcRetriesExhaustedError).
ReadFails ==
    /\ run.pc \in Reads
    /\ Stop
    /\ Fault
    /\ UNCHANGED <<subs, latest, receipt, storage>>

-----------------------------------------------------------------------------
(* The page and the cluster.                                               *)

\* The tab is reloaded: only localStorage survives.
Reload ==
    /\ run' = Idle
    /\ IF storage THEN UNCHANGED <<receipt, subs>>
       ELSE /\ receipt' = NoReceipt
            /\ subs' = [i \in DOMAIN subs |-> [subs[i] EXCEPT !.lost = TRUE]]
    /\ Fault
    /\ UNCHANGED <<latest, storage>>

\* What the lookup-table program accepts.
Executes(i) ==
    LET others == {j \in DOMAIN subs : Landed(j) /\ subs[j].slot = subs[i].slot
                                                 /\ subs[j].creates} IN
    IF subs[i].creates THEN others = {} ELSE others # {}

Land(i) ==
    /\ subs[i].st = "inflight"
    /\ subs' = [subs EXCEPT ![i].st = IF Executes(i) THEN "landed" ELSE "failed"]
    /\ UNCHANGED <<latest, receipt, storage, run, faults>>

\* It fails on chain all the same, or its blockhash expires before it lands.
ComeToNothing(i) ==
    /\ subs[i].st = "inflight"
    /\ \E st \in {"failed", "expired"} : subs' = [subs EXCEPT ![i].st = st]
    /\ Fault
    /\ UNCHANGED <<latest, receipt, storage, run>>

\* Account reads catch up, in the order of the chain.
Show(i) ==
    /\ subs[i].st = "landed"
    /\ subs[i].creates \/ Exists(subs[i].slot)
    /\ subs' = [subs EXCEPT ![i].st = "shown"]
    /\ UNCHANGED <<latest, receipt, storage, run, faults>>

Prepare ==
    \/ Start \/ ReadExistence \/ ReadStatus \/ ReadHeight \/ ReadTable
    \/ ResolveCreation \/ Decide \/ Loop \/ Approve \/ Confirm
    \/ Poll \/ Verify \/ Finish

Cluster(i) == Land(i) \/ Show(i)

Next ==
    \/ Prepare \/ LoseAnswer \/ Refuse \/ ReadFails \/ Reload
    \/ \E i \in DOMAIN subs : Cluster(i) \/ ComeToNothing(i)

\* Reads return, the user retries and answers, transactions are processed.
Fairness ==
    /\ WF_vars(Prepare)
    /\ \A i \in 1..MaxSubs : WF_vars(i \in DOMAIN subs /\ Cluster(i))

Spec == Init /\ [][Next]_vars /\ Fairness

-----------------------------------------------------------------------------
(* Properties.                                                             *)

\* On the chain, or still able to get there.
Stands(i) == Landed(i) \/ subs[i].st = "inflight"

\* Two submissions that pay for the same thing: a second table, or the same
\* extension again.
SamePurchase(i, j) ==
    \/ subs[i].creates /\ subs[j].creates /\ subs[i].slot # subs[j].slot
    \/ subs[i].slot = subs[j].slot /\ subs[i].adds \cap subs[j].adds # {}

\* However often the setup is retried, times out, loses its page or sees old
\* state, the wallet pays twice only after a submission no receipt could keep or
\* one that had landed when it, or the creation of its table, was struck off the
\* receipt as expired: the status was read too early, or from a node without it.
PaidTwiceOnlyBlind ==
    \A i, j \in DOMAIN subs :
        i < j /\ Stands(i) /\ Stands(j) /\ SamePurchase(i, j)
            => subs[i].lost \/ subs[i].struck

\* "Never charge for another table until the previous submission is resolved":
\* no second purchase as long as the receipt of the first was there to see.
ChargedOnce ==
    \A i, j \in DOMAIN subs :
        i < j /\ Stands(i) /\ Stands(j) /\ SamePurchase(i, j) => subs[i].lost

\* The address handed to the trade is of a table that account reads show with
\* every wanted chunk: no compiled index can be invalid.
ReturnedIsCovered ==
    run.pc = "done" => Exists(run.slot) /\ Chunks \subseteq Have(run.slot)

\* A receipt with nothing pending speaks of a creation that landed: a retry can
\* rely on it without another status.
ReceiptIsResumable ==
    receipt.creation # 0 /\ receipt.pending # receipt.creation =>
        Landed(receipt.creation)

\* Once the faults are over, retrying leads to a usable table: no receipt
\* wedges the setup.
EventuallyReady == <>(run.pc = "done")
=============================================================================
