------------------------------- MODULE History -------------------------------
(***************************************************************************)
(* Durable ingestion of finalized transactions (backend/src/indexer:       *)
(* history.ts and the poll loop of listener.ts).                           *)
(*                                                                         *)
(* For each program a scan pages backwards, newest first, through the      *)
(* transactions that mention it, from a head down to the head of the scan  *)
(* before; its cursors and the queue live in the database.  One poll scans *)
(* every program, then drains the queues in the order of the chain.  The   *)
(* programs belong to namespaces, each a deployment of its own: effects of *)
(* one do not wait for the other unless a transaction mentions both.       *)
(*                                                                         *)
(* A poll holds the database's poll lock, so one poll runs at a time and   *)
(* nothing else writes these tables; it may die between any two steps.     *)
(* What the effects of a transaction are, and a transaction that asks for  *)
(* a rebuild of the projection, is module Positions.                       *)
(***************************************************************************)
EXTENDS Integers, Sequences, FiniteSets, FiniteSetsExt

CONSTANTS
    Programs,          \* program ids, in the order the database sorts them
    Namespace,         \* program -> the namespace it is registered in
    Shapes,            \* bound: what transactions look like
    ShapesAt,          \* bound: ... and which of them the n-th one may have
    SignaturesPerPoll, \* page size and the poll's budget of transactions
    HistoryPagesPerPoll,
    MaxTxs, MaxFaults, \* bounds
    None

ASSUME ProgramsAssumption == Programs \subseteq Nat /\ Programs # {}
\* A transaction's events are emitted by programs it mentions, and one that
\* failed or was cut has none to show.
ASSUME ShapesAssumption ==
    \A s \in Shapes : /\ s.emitters \subseteq s.programs /\ s.programs \subseteq Programs
                      /\ s.kind \in {"complete", "failed", "truncated"}
                      /\ s.kind # "complete" => s.emitters = {}
ASSUME BudgetsAssumption ==
    /\ {SignaturesPerPoll, HistoryPagesPerPoll} \subseteq Nat \ {0}
    /\ {MaxTxs, MaxFaults} \subseteq Nat
    /\ None \notin Nat

VARIABLES
    ledger,     \* the finalized transactions that mention a program, in order
    state,      \* program -> its row of indexer_program_state
    rows,       \* program -> transaction -> status in indexer_signature_queue
    indexed,    \* rows whose tx_index is known
    collected,  \* rows whose canonical_collected_at is set
    applied,    \* transactions whose effects are in the projection
    poll,       \* the poll under way
    faults      \* reads and writes that failed, and crashes, so far

dbVars == <<state, rows, indexed, collected, applied>>
vars   == <<ledger, dbVars, poll, faults>>

Namespaces == {Namespace[p] : p \in Programs}
Txs        == DOMAIN ledger
Ids(n)     == {p \in Programs : Namespace[p] = n}

\* What a transaction carries: mentioned programs, the emitters of its events,
\* and whether it failed or the runtime cut its log.
Mentioned(t)       == {Namespace[p] : p \in ledger[t].programs}
EventNamespaces(t) == {Namespace[p] : p \in ledger[t].emitters}
SlotOf(t)          == ledger[t].slot
Slot               == IF ledger = <<>> THEN 0 ELSE SlotOf(Len(ledger))
Mixed(t)           == Cardinality(EventNamespaces(t)) > 1

\* The chain finalises a slot of one or two transactions.
FinalizeSlot ==
    \E shapes \in {<<a>> : a \in Shapes} \cup (Shapes \X Shapes) :
        /\ Len(ledger) + Len(shapes) <= MaxTxs
        /\ \A i \in DOMAIN shapes : shapes[i] \in ShapesAt[Len(ledger) + i]
        /\ ledger' = ledger \o [i \in DOMAIN shapes |->
               [slot |-> Slot + 1, programs |-> shapes[i].programs,
                emitters |-> shapes[i].emitters, kind |-> shapes[i].kind]]
        /\ UNCHANGED <<dbVars, poll, faults>>

-----------------------------------------------------------------------------
(* Discovery.  No await separates what a page was read for and its saving  *)
(* from the rest of the poll, and the ledger only grows, so one step does  *)
(* both.                                                                   *)

\* getSignaturesForAddress: the newest below `before' and above `until'.
SignaturesFor(p, before, until) ==
    LET all == {t \in Txs : /\ p \in ledger[t].programs
                            /\ before # None => t < before
                            /\ until # None => t > until} IN
    {t \in all : Cardinality({u \in all : u >= t}) <= SignaturesPerPoll}

Else(a, b)  == IF a # None THEN a ELSE b
Newest(S)   == IF S = {} THEN None ELSE Max(S)
Page(p)     == SignaturesFor(p, state[p].scan_before, Else(state[p].scan_until, state[p].head))
Complete(S) == Cardinality(S) < SignaturesPerPoll

\* What the queues of all programs have for the transaction.  A completion
\* counts when its facts were collected; variant: the facts count alone.
Quarantined(t)   == \E p \in Programs : rows[p][t] = "quarantined"
CompletedEarly(t) == \E p \in Programs : <<p, t>> \in collected
Completed(t)     == \E p \in Programs : rows[p][t] = "processed" /\ <<p, t>> \in collected
Settled(t)       == Quarantined(t) \/ Completed(t)

NewStatus(t) ==
    IF Quarantined(t) THEN "quarantined"
    ELSE IF Completed(t) \/ ledger[t].kind = "failed" THEN "processed"
    ELSE "pending"

Enqueue(p, page) ==
    /\ rows' = [rows EXCEPT ![p] = [t \in DOMAIN @ |->
           IF t \in page /\ (@[t] = "absent" \/ Quarantined(t)) THEN NewStatus(t) ELSE @[t]]]
    /\ LET inherited(S) == {<<p, t>> : t \in {u \in page : /\ rows[p][u] = "absent" /\ Settled(u)
                                                           /\ \E q \in Programs : <<q, u>> \in S}} IN
       /\ indexed'   = indexed \cup inherited(indexed)
       /\ collected' = collected \cup inherited(collected)

\* The program's row after a page.  The head moves when a scan is complete.
NewHead(st, page) ==
    IF Complete(page) THEN Else(Else(st.scan_head, Newest(page)), st.head) ELSE st.head
\* variant: the head of a finished scan stays behind
AfterPageHeadKept(st, page) ==
    LET open(x) == IF Complete(page) THEN None ELSE x IN
    [st EXCEPT !.head        = NewHead(st, page),
               !.scan_before = open(Min(page)),
               !.scan_until  = open(Else(st.scan_until, st.head)),
               !.scan_head   = Else(st.scan_head, Newest(page)),
               !.complete    = @ \/ Complete(page)]
AfterPage(st, page) ==
    LET open(x) == IF Complete(page) THEN None ELSE x IN
    [st EXCEPT !.head        = NewHead(st, page),
               !.scan_before = open(Min(page)),
               !.scan_until  = open(Else(st.scan_until, st.head)),
               !.scan_head   = open(Else(st.scan_head, Newest(page))),
               !.complete    = @ \/ Complete(page)]

\* A scan resumed from an earlier poll has an older head: another follows;
\* variant: it does not.
FreshOrResumed(st) == TRUE
Fresh(st) == st.scan_before = None /\ st.scan_head = None

StartPoll ==
    /\ poll.at = "idle"
    /\ poll' = [poll EXCEPT !.at = "scan", !.watermark = Slot, !.program = Min(Programs),
                            !.pages = HistoryPagesPerPoll]
    /\ UNCHANGED <<ledger, dbVars, faults>>

NextProgram(found) ==
    LET later == {p \in Programs : p > poll.program} IN
    poll' = [poll EXCEPT !.discovered = @ \cup found,
                         !.pages = HistoryPagesPerPoll,
                         !.program = IF later = {} THEN None ELSE Min(later),
                         !.at = IF later = {} THEN "discovered" ELSE "scan"]

ScanPage ==
    /\ poll.at = "scan"
    /\ LET p == poll.program  page == Page(p)  st == state[p] IN
       /\ Enqueue(p, page)
       /\ state' = [state EXCEPT ![p] = AfterPage(st, page)]
       /\ IF Complete(page) /\ Fresh(st) THEN poll' = [poll EXCEPT !.at = "verify"]
          ELSE IF poll.pages = 1 THEN NextProgram({})
          ELSE poll' = [poll EXCEPT !.pages = @ - 1]
    /\ UNCHANGED <<ledger, applied, faults>>

MarkVerifiedThrough ==
    /\ poll.at = "verify"
    /\ state' = [state EXCEPT ![poll.program].finalized_through =
                     IF @ = None THEN poll.watermark ELSE Max({@, poll.watermark})]
    /\ NextProgram({poll.program})
    /\ UNCHANGED <<ledger, rows, indexed, collected, applied, faults>>

-----------------------------------------------------------------------------
(* Draining                                                                *)

\* variant: any queue counts
HasQuarantinedAnywhere(n) == \E p \in Programs : \E t \in Txs : rows[p][t] = "quarantined"
HasQuarantined(n) == \E p \in Ids(n) : \E t \in Txs : rows[p][t] = "quarantined"

ChooseEligible ==
    /\ poll.at = "discovered"
    /\ poll' = [poll EXCEPT
           !.at = "drain",
           !.eligible = {n \in Namespaces : Ids(n) \subseteq poll.discovered /\ ~HasQuarantined(n)},
           !.quarantined = \E n \in Namespaces : HasQuarantined(n),
           !.budget = SignaturesPerPoll]
    /\ UNCHANGED <<ledger, dbVars, faults>>

\* The rows that nextPendingGlobal and nextUncollectedGlobal choose from.
Active    == {p \in Programs : Namespace[p] \in poll.eligible}
Pending   == {r \in Programs \X Txs : rows[r[1]][r[2]] = "pending"}
WorkRows  == IF poll.at = "evidence" THEN Pending \ collected
             ELSE {r \in Pending : r[1] \in Active}
Takers(t) == {p \in Programs : <<p, t>> \in WorkRows}
Work      == {t \in Txs : Takers(t) # {}}
IndexKnown(t) == \E p \in Takers(t) : <<p, t>> \in indexed

\* slot ASC, tx_index ASC NULLS FIRST; variant: NULLS LAST
PrecedesNullsLast(t, u) ==
    \/ SlotOf(t) < SlotOf(u)
    \/ SlotOf(t) = SlotOf(u) /\ (IndexKnown(u) => IndexKnown(t) /\ t < u)
Precedes(t, u) ==
    \/ SlotOf(t) < SlotOf(u)
    \/ SlotOf(t) = SlotOf(u) /\ (IndexKnown(t) => IndexKnown(u) /\ t < u)
IsFirst(t, S) == t \in S /\ \A u \in S \ {t} : Precedes(t, u)

\* variant: whatever was discovered
Discovered(t)  == TRUE
InWatermark(t) == SlotOf(t) <= poll.watermark
Due(t)   == /\ poll.at \in {"drain", "evidence"} /\ poll.tx = None /\ poll.budget > 0
            /\ IsFirst(t, Work) /\ InWatermark(t)
NoneDue  == poll.budget = 0 \/ \A t \in Work : ~InWatermark(t)

\* assignTransactionIndices: the block's order for all its queued signatures.
OrderSlot(t) ==
    /\ Due(t) /\ ~IndexKnown(t)
    /\ indexed' = indexed \cup {r \in Pending : SlotOf(r[2]) = SlotOf(t)}
    /\ UNCHANGED <<ledger, state, rows, collected, applied, poll, faults>>

\* finishGlobal: every program's pending row of the transaction.
FinishGlobal(t, status) ==
    rows' = [p \in Programs |-> [rows[p] EXCEPT ![t] = IF @ = "pending" THEN status ELSE @]]

Idle == [at |-> "idle", watermark |-> 0, program |-> None, pages |-> 0, discovered |-> {},
         eligible |-> {}, quarantined |-> FALSE, budget |-> 0,
         tx |-> None, via |-> None, attempted |-> {}, halfDone |-> {}]

Via(t)  == Namespace[Min(Takers(t))]
Release == [poll EXCEPT !.tx = None, !.via = None, !.budget = @ - 1]
EndWith(drain) == poll' = IF poll.at = "evidence" THEN Idle ELSE drain

\* A transaction that is not to be passed: the namespace it was taken for
\* leaves the drain, and so does one that its handling put in quarantine.
Block(n) ==
    EndWith([Release EXCEPT !.at = "drain",
                            !.eligible = {m \in @ \ {n} : \A p \in Ids(m) : \A u \in Txs :
                                                             rows'[p][u] # "quarantined"}])

\* An error that reaches the drain's loop, from a write of the handling itself
\* or from the look for namespaces in quarantine: only the namespace it was
\* taken for leaves, also when the transaction is in quarantine by now
\* (halfDone, which no code keeps).
Retain(t, n) ==
    EndWith([Release EXCEPT !.at = "drain", !.eligible = @ \ {n},
                            !.halfDone = @ \cup {u \in {t} : \E p \in Programs :
                                                             rows'[p][u] = "quarantined"}])

Fault       == faults < MaxFaults /\ faults' = faults + 1
Stop(t, n)  == (Block(n) /\ UNCHANGED faults) \/ (Retain(t, n) /\ Fault)

Take(t) ==
    /\ Due(t) /\ IndexKnown(t)
    /\ t \notin poll.attempted
    /\ poll.at = "drain" => ~Settled(t)
    /\ poll' = [poll EXCEPT !.tx = t, !.via = Via(t), !.attempted = @ \cup {t}]
    /\ UNCHANGED <<ledger, dbVars, faults>>

\* Already finished in another queue, so finished here; already tried in this
\* poll, so not passed.
TakeFinished(t) ==
    /\ Due(t) /\ IndexKnown(t)
    /\ poll.at = "drain" /\ Settled(t)
    /\ FinishGlobal(t, NewStatus(t))
    /\ IF Quarantined(t) THEN Stop(t, Via(t)) ELSE poll' = Release /\ UNCHANGED faults
    /\ UNCHANGED <<ledger, state, indexed, collected, applied>>
TakeAgain(t) ==
    /\ Due(t) /\ IndexKnown(t)
    /\ t \in poll.attempted
    /\ poll.at = "drain" => ~Settled(t)
    /\ UNCHANGED rows /\ Block(Via(t))
    /\ UNCHANGED <<ledger, state, indexed, collected, applied, faults>>

Fetched(t) == poll.at \in {"drain", "evidence"} /\ poll.tx = t
Ready(t)   == poll.at = "drain" => EventNamespaces(t) \subseteq poll.eligible

\* A log cut by the runtime, or the second step for a mixed transaction.
Quarantine(t) ==
    /\ Fetched(t)
    /\ ledger[t].kind = "truncated" \/ (Mixed(t) /\ \A p \in ledger[t].emitters : rows[p][t] = "quarantined")
    /\ FinishGlobal(t, "quarantined")
    /\ Stop(t, poll.via)
    /\ UNCHANGED <<ledger, state, indexed, collected, applied>>

\* quarantineEmitters, in the queues that have not seen the transaction too.
QuarantineEmitters(t) ==
    /\ Fetched(t) /\ ledger[t].kind = "complete" /\ Mixed(t)
    /\ \E p \in ledger[t].emitters : rows[p][t] # "quarantined"
    /\ rows' = [p \in Programs |-> IF p \in ledger[t].emitters
                                   THEN [rows[p] EXCEPT ![t] = "quarantined"] ELSE rows[p]]
    /\ UNCHANGED <<ledger, state, indexed, collected, applied, poll, faults>>

\* Its namespace does not take part in this drain: retained for retry.
NotReady(t) ==
    /\ Fetched(t) /\ ledger[t].kind = "complete" /\ ~Mixed(t) /\ ~Ready(t)
    /\ UNCHANGED rows /\ Block(poll.via)
    /\ UNCHANGED <<ledger, state, indexed, collected, applied, faults>>

\* The facts and their marker; an evidence pass stops at that.
Collect(t) ==
    /\ Fetched(t) /\ ledger[t].kind = "complete" /\ ~Mixed(t) /\ Ready(t)
    /\ collected' = collected \cup {r \in Pending \cap indexed : r[2] = t}
    /\ poll' = IF poll.at = "drain" THEN [poll EXCEPT !.at = "apply"]
               ELSE Release
    /\ UNCHANGED <<ledger, state, rows, indexed, applied, faults>>

ApplyEffects ==
    /\ poll.at = "apply"
    /\ applied' = applied \cup {poll.tx}
    /\ poll' = [poll EXCEPT !.at = "finish"]
    /\ UNCHANGED <<ledger, state, rows, indexed, collected, faults>>

Finish ==
    /\ poll.at = "finish"
    /\ FinishGlobal(poll.tx, "processed")
    /\ poll' = [Release EXCEPT !.at = "drain"]
    /\ UNCHANGED <<ledger, state, indexed, collected, applied, faults>>

EndDrain ==
    /\ poll.at \in {"drain", "evidence"} /\ poll.tx = None /\ NoneDue
    /\ poll' = IF poll.at = "drain" /\ poll.quarantined
               THEN [poll EXCEPT !.at = "evidence", !.budget = SignaturesPerPoll]
               ELSE Idle
    /\ UNCHANGED <<ledger, dbVars, faults>>

-----------------------------------------------------------------------------
(* An RPC read or a database write fails: the scan goes on to the next     *)
(* program, a transaction is kept for retry and blocks the drain, or, when *)
(* the failure reaches the loop, only its namespace.  The process dies, or *)
(* an error ends the poll.                                                 *)

Fail == Fault /\ UNCHANGED <<ledger, dbVars>>
ScanFails     == poll.at = "scan" /\ Fail /\ NextProgram({})
StepFails(t) ==
    /\ Fail
    /\ \/ poll.tx = t /\ poll.at # "finish" /\ ~Quarantined(t) /\ Block(poll.via)
       \/ poll.tx = t /\ Retain(t, poll.via)
       \/ Due(t) /\ Retain(t, Via(t))

Crash ==
    /\ poll.at # "idle" /\ Fail
    /\ poll' = Idle

Init ==
    /\ ledger = <<>>
    /\ state = [p \in Programs |-> [head |-> None, scan_before |-> None, scan_until |-> None,
                   scan_head |-> None, complete |-> FALSE, finalized_through |-> None]]
    /\ rows = [p \in Programs |-> [t \in 1..MaxTxs |-> "absent"]]
    /\ indexed = {} /\ collected = {} /\ applied = {}
    /\ poll = Idle
    /\ faults = 0

Poll ==
    \/ StartPoll \/ ScanPage \/ MarkVerifiedThrough \/ ChooseEligible
    \/ \E t \in Txs :
         \/ OrderSlot(t) \/ Take(t) \/ TakeFinished(t) \/ TakeAgain(t)
         \/ Quarantine(t) \/ QuarantineEmitters(t) \/ NotReady(t) \/ Collect(t)
    \/ ApplyEffects \/ Finish \/ EndDrain

Next ==
    \/ FinalizeSlot \/ Poll \/ Crash
    \/ ScanFails \/ \E t \in Txs : StepFails(t)

Spec == Init /\ [][Next]_vars

\* Polls run on a timer and go on to their next step.
FairSpec == Spec /\ WF_vars(Poll)

-----------------------------------------------------------------------------
(* Properties *)

Tx == 1..MaxTxs
ProgramState ==
    [head : Tx \cup {None}, scan_before : Tx \cup {None}, scan_until : Tx \cup {None},
     scan_head : Tx \cup {None}, complete : BOOLEAN, finalized_through : 0..MaxTxs \cup {None}]

\* Every row is of its shape, and cursors are set together.
TypeOK ==
    /\ Len(ledger) <= MaxTxs
    /\ state \in [Programs -> ProgramState]
    /\ \A p \in Programs : state[p].scan_before = None <=> state[p].scan_head = None
    /\ rows \in [Programs -> [Tx -> {"absent", "pending", "processed", "quarantined"}]]
    /\ indexed \cup collected \subseteq {r \in Programs \X Tx : rows[r[1]][r[2]] # "absent"}
    /\ applied \subseteq Txs
    /\ poll.tx \in Tx \cup {None} /\ poll.eligible \subseteq Namespaces /\ poll.halfDone \subseteq Tx

\* A slot attested for a program is discovered: every transaction that
\* mentions the program up to that slot is in its queue, however many pages,
\* restarts and failures the scans took and whatever arrived meanwhile
\* (markVerifiedThrough, history.ts:80).
AttestedIsDiscovered ==
    \A p \in Programs : state[p].finalized_through # None =>
        \A t \in Txs : (p \in ledger[t].programs /\ SlotOf(t) <= state[p].finalized_through)
            => rows[p][t] # "absent"

\* Effects of a namespace are applied in chain order and without a gap: when
\* an event of it takes effect, every earlier transaction that mentions the
\* namespace was understood and took effect, or failed on the chain
\* (listener.ts:831, "Never pass a failed global predecessor").  What can be
\* passed is a transaction in quarantine whose handling an error cut short,
\* and that only until the end of the same poll (listener.ts:585).
EffectsInOrder ==
    [][\A t \in applied' \ applied, u \in Txs :
           (u < t /\ Mentioned(u) \cap EventNamespaces(t) # {}) =>
               \/ /\ ledger[u].kind # "truncated" /\ ~Mixed(u)
                  /\ u \in applied \/ ledger[u].kind = "failed"
               \/ u \in poll.halfDone]_vars

\* A transaction is finished in a queue only when its effects are in, also if
\* the queue took the completion over from another program's.
FinishedIsApplied ==
    \A p \in Programs, t \in Txs :
        rows[p][t] = "processed" => t \in applied \/ ledger[t].kind = "failed"

\* What stands in a namespace's way for good: a transaction in quarantine, or
\* one that awaits another namespace that has one.
Poisoned(n) == \E u \in Txs : n \in Mentioned(u) /\ (ledger[u].kind = "truncated" \/ Mixed(u))
Jammed(n) ==
    Poisoned(n) \/ \E u \in Txs : n \in Mentioned(u) /\ \E m \in EventNamespaces(u) : Poisoned(m)

\* Every finalized transaction takes effect, unless its own namespace is
\* jammed: trouble in one namespace does not hold the other up.
EventuallyApplied ==
    \A t \in Tx :
        (t \in Txs) ~> /\ t \in Txs
                       /\ \/ t \in applied \/ ledger[t].kind # "complete"
                          \/ \E n \in Mentioned(t) : Jammed(n)
=============================================================================
