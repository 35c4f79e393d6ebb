---------------------------- MODULE HistoryProofs ----------------------------
(***************************************************************************)
(* Ingestion, for any programs and namespaces, page sizes, transactions    *)
(* and faults: what a namespace was attested for is in its queues, and its *)
(* effects are applied in the order of the chain and without a gap.        *)
(***************************************************************************)
EXTENDS History, TLAPS, WellFoundedInduction, FiniteSetTheorems

Kinds    == {"complete", "failed", "truncated"}
Statuses == {"absent", "pending", "processed", "quarantined"}

Transaction == [slot : Nat, programs : SUBSET Programs, emitters : SUBSET Programs, kind : Kinds]

PollState ==
    [at : {"idle", "scan", "verify", "discovered", "drain", "apply", "finish", "evidence"},
     watermark : 0..Slot, program : Programs \cup {None}, pages : Int,
     discovered : SUBSET Programs, eligible : SUBSET Namespaces, quarantined : BOOLEAN,
     budget : Int, tx : Txs \cup {None}, via : Namespaces \cup {None}, attempted : SUBSET Tx,
     halfDone : SUBSET Tx]

-----------------------------------------------------------------------------
(* The invariant, in named parts.                                          *)

\* Slots only rise along the ledger, and a transaction has events only if it
\* succeeded.
LedgerTyped ==
    /\ ledger \in Seq(Transaction) /\ Len(ledger) <= MaxTxs
    /\ \A t \in Txs : SlotOf(t) \in 1..t
    /\ \A t, u \in Txs : t <= u => SlotOf(t) <= SlotOf(u)
    /\ \A t \in Txs : /\ ledger[t].emitters \subseteq ledger[t].programs
                      /\ ledger[t].kind # "complete" => ledger[t].emitters = {}

\* Only finalized transactions are queued.
RowsTyped ==
    /\ rows \in [Programs -> [Tx -> Statuses]]
    /\ \A p \in Programs, t \in Tx : rows[p][t] # "absent" => t \in Txs
    /\ indexed \cup collected \subseteq {r \in Programs \X Tx : rows[r[1]][r[2]] # "absent"}
    /\ applied \subseteq Txs

\* Every transaction of the program from a to b is in its queue.
QueuedBetween(p, a, b) ==
    \A t \in Txs : p \in ledger[t].programs /\ a <= t /\ t <= b => rows[p][t] # "absent"

\* What a program's cursors say: all is queued up to the head, and in a scan
\* also from where it is back to where it began; it goes down to the head.
Scanned(p) ==
    LET st == state[p] IN
    /\ st \in ProgramState
    /\ {st.head, st.scan_head, st.scan_before} \subseteq Txs \cup {None}
    /\ st.scan_before = None <=> st.scan_head = None
    /\ st.scan_until = IF st.scan_before = None THEN None ELSE st.head
    /\ st.head # None => QueuedBetween(p, 1, st.head)
    /\ st.scan_before # None => QueuedBetween(p, st.scan_before, st.scan_head)
    /\ st.finalized_through # None => st.finalized_through <= Slot

ScansSound ==
    /\ DOMAIN state = Programs /\ state = [p \in Programs |-> state[p]]
    /\ \A p \in Programs : Scanned(p)
    /\ AttestedIsDiscovered

\* Only transactions that were understood took effect.
EffectsSound ==
    /\ \A t \in applied : ledger[t].kind = "complete" /\ ~Mixed(t)
    /\ FinishedIsApplied

PollTyped ==
    /\ poll \in PollState
    /\ poll.at = "idle" => poll = Idle
    /\ poll.at \in {"idle", "scan", "verify", "discovered"} => poll.eligible = {} /\ poll.tx = None
    /\ poll.at \in {"apply", "finish"} => poll.tx # None
    /\ poll.at \in {"scan", "verify"} => poll.program \in Programs

\* A scan that began at the newest transaction reached the head: the poll's
\* watermark is about to be attested, or was.
ScanAttests ==
    /\ poll.at = "verify" =>
           \A t \in Txs : poll.program \in ledger[t].programs /\ SlotOf(t) <= poll.watermark
                              => rows[poll.program][t] # "absent"
    /\ \A p \in poll.discovered : /\ state[p].finalized_through # None
                                  /\ state[p].finalized_through >= poll.watermark

\* A namespace in the drain was discovered and has nothing in quarantine, but
\* for the mixed transaction that is being put there and for those that an
\* error cut short in this poll.
EligibleSound ==
    \A n \in poll.eligible :
        /\ Ids(n) \subseteq poll.discovered
        /\ \A p \in Ids(n), u \in Txs :
               rows[p][u] = "quarantined" => u \in poll.halfDone \/ (u = poll.tx /\ Mixed(u))

\* The transaction at work is the oldest of the drain, and it takes effect only
\* when all of its namespaces are in the drain.
AtWork ==
    /\ poll.tx # None /\ poll.at # "evidence" =>
           /\ SlotOf(poll.tx) <= poll.watermark
           /\ \A p \in Active, u \in Txs : u < poll.tx => rows[p][u] # "pending"
    /\ poll.at \in {"apply", "finish"} =>
           /\ ledger[poll.tx].kind = "complete" /\ ~Mixed(poll.tx)
           /\ EventNamespaces(poll.tx) \subseteq poll.eligible
    /\ poll.at = "finish" => poll.tx \in applied

PollSound == PollTyped /\ ScanAttests /\ EligibleSound /\ AtWork

IInv == LedgerTyped /\ RowsTyped /\ ScansSound /\ EffectsSound /\ PollSound

-----------------------------------------------------------------------------
(* Least and greatest.                                                     *)

LEMMA MinOf ==
    ASSUME NEW S \in SUBSET Nat, S # {}
    PROVE  Min(S) \in S /\ \A x \in S : Min(S) <= x
<1>1. PICK m \in S : \A x \in S : <<x, m>> \notin OpToRel(<, Nat)
  BY WFMin, NatLessThanWellFounded, Zenon
<1>2. \A x \in S : m <= x
  <2> TAKE x \in S
  <2>1. x \in Nat /\ m \in Nat
    OBVIOUS
  <2>2. ~(x < m)
    <3>1. <<x, m>> \notin {ss \in Nat \X Nat : ss[1] < ss[2]}
      BY <1>1 DEF OpToRel
    <3> QED
      BY <2>1, <3>1
  <2> QED
    BY <2>1, <2>2
<1> QED
  BY <1>1, <1>2 DEF Min

\* Reflected at the bound, the greatest is the least.
LEMMA MaxOf ==
    ASSUME NEW n \in Nat, NEW S \in SUBSET (1..n), S # {}
    PROVE  Max(S) \in S /\ \A x \in S : x <= Max(S)
<1> DEFINE T == {n - x : x \in S}
<1>1. T \in SUBSET Nat /\ T # {}
  <2>1. \A x \in S : n - x \in Nat
    OBVIOUS
  <2>2. PICK x \in S : TRUE
    OBVIOUS
  <2> QED
    BY <2>1, <2>2
<1>2. Min(T) \in T /\ \A y \in T : Min(T) <= y
  BY <1>1, MinOf
<1>3. PICK m \in S : Min(T) = n - m
  BY <1>2
<1>4. \A x \in S : x <= m
  <2> TAKE x \in S
  <2>1. n - m <= n - x
    BY <1>2, <1>3
  <2> QED
    BY <2>1
<1> QED
  BY <1>4 DEF Max

LEMMA MaxOfTwo ==
    ASSUME NEW a \in Nat, NEW b \in Nat
    PROVE  Max({a, b}) \in {a, b} /\ Max({a, b}) >= a /\ Max({a, b}) >= b
<1>1. \E x \in {a, b} : \A y \in {a, b} : x >= y
  OBVIOUS
<1> QED
  BY <1>1 DEF Max

\* At the top of a finite set: if fewer than k are the newest k, they are all.
LEMMA NewestAreAll ==
    ASSUME NEW n \in Nat, NEW S \in SUBSET (1..n), NEW k \in Nat \ {0},
           Cardinality({t \in S : Cardinality({u \in S : u >= t}) <= k}) < k
    PROVE  {t \in S : Cardinality({u \in S : u >= t}) <= k} = S
<1> DEFINE P == {t \in S : Cardinality({u \in S : u >= t}) <= k}
<1>1. IsFiniteSet(1..n)
  BY FS_Interval
<1>2. \A T \in SUBSET S : IsFiniteSet(T) /\ Cardinality(T) \in Nat
  BY <1>1, FS_Subset, FS_CardinalityType
<1> SUFFICES ASSUME S \ P # {}
             PROVE  FALSE
  OBVIOUS
<1> DEFINE m == Max(S \ P)
           above == {u \in S : u > m}
           from == {u \in S : u >= m}
<1>3. m \in S \ P /\ \A x \in S \ P : x <= m
  BY MaxOf
<1> HIDE DEF m
<1>4. above \subseteq P
  <2> SUFFICES ASSUME NEW u \in S, u > m, u \notin P
               PROVE  FALSE
    OBVIOUS
  <2>1. u <= m
    BY <1>3
  <2>2. u \in Nat /\ m \in Nat
    BY <1>3
  <2> QED
    BY <2>1, <2>2
<1>5. Cardinality(from) > k
  <2>1. Cardinality(from) \in Nat
    BY <1>2
  <2> QED
    BY <1>3, <2>1
<1>6. from = above \cup {m} /\ m \notin above
  <2>1. m \in S /\ m \in Nat /\ \A u \in S : u \in Nat
    BY <1>3
  <2>2. ~(m > m) /\ m >= m
    BY <2>1
  <2>3. \A u \in S : u >= m <=> u \in above \/ u = m
    BY <2>1
  <2> QED
    BY <2>1, <2>2, <2>3
<1>7. Cardinality(from) = Cardinality(above) + 1
  BY <1>2, <1>6, FS_AddElement
<1>8. Cardinality(above) <= Cardinality(P)
  <2>1. IsFiniteSet(P)
    BY <1>2
  <2> QED
    BY <1>4, <2>1, FS_Subset
<1>9. Cardinality(above) \in Nat /\ Cardinality(P) \in Nat
  BY <1>2
<1> HIDE DEF above, from, P
<1>10. Cardinality(P) < k
  BY DEF P
<1> QED
  BY <1>5, <1>7, <1>8, <1>9, <1>10

-----------------------------------------------------------------------------
(* The ledger.                                                             *)

LEMMA LedgerFacts ==
    ASSUME LedgerTyped
    PROVE  /\ Len(ledger) \in Nat /\ Txs = 1..Len(ledger) /\ Txs \subseteq Tx /\ Slot \in Nat
           /\ \A t \in Txs : /\ ledger[t] \in Transaction /\ SlotOf(t) \in Nat /\ SlotOf(t) <= Slot
                             /\ SlotOf(t) = ledger[t].slot
           /\ Slot <= Len(ledger)
<1>1. /\ Len(ledger) \in Nat /\ Txs = 1..Len(ledger) /\ Txs \subseteq Tx
      /\ \A t \in Txs : ledger[t] \in Transaction
  <2>1. ledger \in Seq(Transaction) /\ Len(ledger) <= MaxTxs /\ MaxTxs \in Nat
    BY BudgetsAssumption DEF LedgerTyped
  <2> QED
    BY <2>1 DEF Txs, Tx
<1>2. CASE ledger = <<>>
  BY <1>1, <1>2 DEF Slot
<1>3. CASE ledger # <<>>
  <2>1. Len(ledger) \in Txs /\ Slot = SlotOf(Len(ledger))
    BY <1>1, <1>3 DEF Slot, LedgerTyped
  <2>2. \A t \in Txs : SlotOf(t) <= Slot
    BY <1>1, <2>1 DEF LedgerTyped
  <2>3. \A t \in Txs : SlotOf(t) \in 1..t
    BY DEF LedgerTyped
  <2> QED
    BY <1>1, <2>1, <2>2, <2>3 DEF SlotOf
<1> QED
  BY <1>2, <1>3

\* Nothing about the transactions changes while the ledger does not.
LEMMA SameLedger ==
    ASSUME UNCHANGED ledger
    PROVE  /\ Txs' = Txs /\ Slot' = Slot
           /\ \A t : /\ (SlotOf(t))' = SlotOf(t) /\ (Mixed(t))' = Mixed(t)
                     /\ (Mentioned(t))' = Mentioned(t)
                     /\ (EventNamespaces(t))' = EventNamespaces(t)
           /\ LedgerTyped => LedgerTyped'
BY DEF Txs, Slot, SlotOf, Mixed, Mentioned, EventNamespaces, LedgerTyped

\* The chain finalises one or two transactions, all in the next slot.
LedgerGrows ==
    /\ Len(ledger) <= Len(ledger') /\ Len(ledger') <= MaxTxs /\ Len(ledger') \in Nat
    /\ ledger' \in Seq(Transaction)
    /\ \A t \in Txs : ledger'[t] = ledger[t]
    /\ \A t \in Len(ledger) + 1..Len(ledger') :
           /\ ledger'[t].slot = Slot + 1
           /\ ledger'[t].emitters \subseteq ledger'[t].programs
           /\ ledger'[t].kind # "complete" => ledger'[t].emitters = {}

LEMMA FinalizeGrows ==
    ASSUME LedgerTyped, FinalizeSlot
    PROVE  LedgerGrows
<1>1. PICK shapes \in {<<a>> : a \in Shapes} \cup (Shapes \X Shapes) :
          /\ Len(ledger) + Len(shapes) <= MaxTxs
          /\ ledger' = ledger \o [i \in DOMAIN shapes |->
                 [slot |-> Slot + 1, programs |-> shapes[i].programs,
                  emitters |-> shapes[i].emitters, kind |-> shapes[i].kind]]
  BY DEF FinalizeSlot
<1> DEFINE new == [i \in DOMAIN shapes |->
                 [slot |-> Slot + 1, programs |-> shapes[i].programs,
                  emitters |-> shapes[i].emitters, kind |-> shapes[i].kind]]
<1>2. /\ Len(shapes) \in 1..2 /\ DOMAIN shapes = 1..Len(shapes)
      /\ \A i \in DOMAIN shapes : shapes[i] \in Shapes
  <2>1. CASE shapes \in {<<a>> : a \in Shapes}
    BY <2>1
  <2>2. CASE shapes \in Shapes \X Shapes
    <3>1. PICK a \in Shapes, b \in Shapes : shapes = <<a, b>>
      BY <2>2
    <3> QED
      BY <3>1
  <2> QED
    BY <1>1, <2>1, <2>2
<1>3. Slot \in Nat /\ Len(ledger) \in Nat /\ Txs = 1..Len(ledger) /\ ledger \in Seq(Transaction)
  BY LedgerFacts DEF LedgerTyped
<1>4. \A i \in DOMAIN shapes : new[i] \in Transaction
  BY <1>2, <1>3, ShapesAssumption DEF Transaction, Kinds
<1>5. new \in Seq(Transaction) /\ Len(new) = Len(shapes) /\ DOMAIN new = 1..Len(shapes)
  BY <1>2, <1>4
<1>6. \A i \in 1..Len(new) : /\ new[i].slot = Slot + 1
                             /\ new[i].emitters \subseteq new[i].programs
                             /\ new[i].kind # "complete" => new[i].emitters = {}
  BY <1>2, <1>5, ShapesAssumption
<1>7. ledger' = ledger \o new
  BY <1>1
<1> HIDE DEF new
<1>8. /\ ledger' \in Seq(Transaction) /\ Len(ledger') = Len(ledger) + Len(new)
      /\ \A t \in 1..Len(ledger) : ledger'[t] = ledger[t]
  BY <1>3, <1>5, <1>7
<1>9. Len(ledger') <= MaxTxs /\ Len(ledger) <= Len(ledger') /\ Len(ledger') \in Nat
  BY <1>1, <1>2, <1>3, <1>5, <1>8
<1>10. \A t \in Len(ledger) + 1..Len(ledger') :
          ledger'[t] = new[t - Len(ledger)] /\ t - Len(ledger) \in 1..Len(new)
  <2> TAKE t \in Len(ledger) + 1..Len(ledger')
  <2>1. t \in 1..Len(ledger) + Len(new) /\ ~(t <= Len(ledger)) /\ Len(new) \in Nat
    BY <1>2, <1>3, <1>5, <1>8
  <2>2. t - Len(ledger) \in 1..Len(new)
    BY <1>3, <2>1
  <2> QED
    BY <1>3, <1>5, <1>7, <2>1, <2>2
<1>11. \A t \in Len(ledger) + 1..Len(ledger') :
          /\ ledger'[t].slot = Slot + 1
          /\ ledger'[t].emitters \subseteq ledger'[t].programs
          /\ ledger'[t].kind # "complete" => ledger'[t].emitters = {}
  BY <1>6, <1>10
<1> QED
  BY <1>3, <1>8, <1>9, <1>11 DEF LedgerGrows

LEMMA GrownLedger ==
    ASSUME LedgerTyped, LedgerGrows
    PROVE  /\ LedgerTyped' /\ Slot' \in Nat /\ Slot <= Slot' /\ Txs \subseteq Txs'
           /\ Txs = 1..Len(ledger) /\ Txs' \subseteq Tx
           /\ \A t \in Txs : /\ (SlotOf(t))' = SlotOf(t) /\ (Mixed(t))' = Mixed(t)
                             /\ (Mentioned(t))' = Mentioned(t)
                             /\ (EventNamespaces(t))' = EventNamespaces(t)
                             /\ ledger'[t] = ledger[t]
           /\ \A t \in Txs' \ Txs : /\ t > Len(ledger) /\ (SlotOf(t))' = Slot + 1
<1>1. /\ Len(ledger) \in Nat /\ Txs = 1..Len(ledger) /\ Slot \in Nat /\ Slot <= Len(ledger)
      /\ \A t \in Txs : SlotOf(t) \in Nat /\ SlotOf(t) <= Slot
  BY LedgerFacts
<1>2. /\ Txs' = 1..Len(ledger') /\ Len(ledger') \in Nat /\ Len(ledger) <= Len(ledger')
      /\ ledger' \in Seq(Transaction) /\ Len(ledger') <= MaxTxs
  BY DEF LedgerGrows, Txs
<1>3. \A t \in Txs : ledger'[t] = ledger[t] /\ (SlotOf(t))' = SlotOf(t)
  BY DEF LedgerGrows, SlotOf
<1>4. \A t \in Txs' \ Txs : t \in Len(ledger) + 1..Len(ledger')
  BY <1>1, <1>2
<1>5. \A t \in Txs' \ Txs : t > Len(ledger) /\ (SlotOf(t))' = Slot + 1 /\ (SlotOf(t))' \in 1..t
  BY <1>1, <1>2, <1>4 DEF LedgerGrows, SlotOf
<1>6. \A t \in Txs' : (SlotOf(t))' \in 1..t
  BY <1>3, <1>5 DEF LedgerTyped
<1>7. \A t, u \in Txs' : t <= u => (SlotOf(t))' <= (SlotOf(u))'
  <2> TAKE t, u \in Txs'
  <2>1. CASE t \in Txs /\ u \in Txs
    BY <1>3, <2>1 DEF LedgerTyped
  <2>2. CASE t \in Txs /\ u \notin Txs
    BY <1>1, <1>3, <1>5, <2>2
  <2>3. CASE t \notin Txs /\ u \in Txs
    <3>1. t > Len(ledger) /\ u <= Len(ledger) /\ t \in Nat /\ u \in Nat
      BY <1>1, <1>2, <1>5, <2>3
    <3> QED
      BY <1>1, <3>1
  <2>4. CASE t \notin Txs /\ u \notin Txs
    BY <1>1, <1>5, <2>4
  <2> QED
    BY <2>1, <2>2, <2>3, <2>4
<1>8. \A t \in Txs' : /\ ledger'[t].emitters \subseteq ledger'[t].programs
                      /\ ledger'[t].kind # "complete" => ledger'[t].emitters = {}
  BY <1>3, <1>4 DEF LedgerGrows, LedgerTyped
<1>9. LedgerTyped'
  BY <1>2, <1>6, <1>7, <1>8 DEF LedgerTyped
<1>10. Slot' \in Nat /\ Slot <= Slot'
  <2>1. CASE Len(ledger') = Len(ledger)
    <3>1. ledger' = <<>> <=> ledger = <<>>
      BY <1>1, <1>2, <2>1 DEF LedgerTyped
    <3>2. CASE ledger = <<>>
      BY <3>1, <3>2 DEF Slot
    <3>3. CASE ledger # <<>>
      <4>1. Len(ledger) \in Txs
        BY <1>1, <3>3 DEF LedgerTyped
      <4> QED
        BY <1>1, <1>3, <2>1, <3>1, <3>3, <4>1 DEF Slot, SlotOf
    <3> QED
      BY <3>2, <3>3
  <2>2. CASE Len(ledger') > Len(ledger)
    <3>1. Len(ledger') \in Txs' \ Txs /\ ledger' # <<>>
      BY <1>1, <1>2, <2>2
    <3>2. Slot' = ledger'[Len(ledger')].slot
      BY <3>1 DEF Slot, SlotOf
    <3>3. ledger'[Len(ledger')].slot = Slot + 1
      BY <1>4, <3>1 DEF LedgerGrows
    <3> QED
      BY <1>1, <3>2, <3>3
  <2> QED
    BY <1>1, <1>2, <2>1, <2>2
<1>11. \A t \in Txs : /\ (Mixed(t))' = Mixed(t) /\ (Mentioned(t))' = Mentioned(t)
                      /\ (EventNamespaces(t))' = EventNamespaces(t)
  BY <1>3 DEF Mixed, Mentioned, EventNamespaces
<1>12. Txs \subseteq Txs' /\ Txs' \subseteq Tx
  <2>1. MaxTxs \in Nat
    BY BudgetsAssumption
  <2> QED
    BY <1>1, <1>2, <2>1 DEF Tx
<1> QED
  BY <1>1, <1>3, <1>5, <1>9, <1>10, <1>11, <1>12

LEMMA FinalizeStep ==
    ASSUME IInv, FinalizeSlot
    PROVE  IInv'
<1>1. /\ UNCHANGED <<state, rows, indexed, collected, applied, poll>>
      /\ LedgerTyped /\ LedgerGrows
  BY FinalizeGrows DEF IInv, FinalizeSlot, dbVars
<1>2. /\ LedgerTyped' /\ Slot' \in Nat /\ Slot <= Slot' /\ Txs \subseteq Txs'
      /\ Len(ledger) \in Nat /\ Txs = 1..Len(ledger) /\ Txs' \subseteq Tx /\ Slot \in Nat
  BY <1>1, GrownLedger, LedgerFacts
<1>3. \A t \in Txs : /\ (SlotOf(t))' = SlotOf(t) /\ (Mixed(t))' = Mixed(t)
                     /\ (Mentioned(t))' = Mentioned(t)
                     /\ (EventNamespaces(t))' = EventNamespaces(t)
                     /\ ledger'[t] = ledger[t]
  BY <1>1, GrownLedger
<1>4. \A t \in Txs' \ Txs : t > Len(ledger) /\ (SlotOf(t))' = Slot + 1
  BY <1>1, GrownLedger
<1>5. \A p \in Programs, t \in Txs' \ Txs : rows[p][t] = "absent"
  BY <1>2 DEF IInv, RowsTyped
<1>6. RowsTyped'
  BY <1>1, <1>2 DEF IInv, RowsTyped, Tx
<1>7. ScansSound'
  <2>1. DOMAIN state' = Programs /\ state' = [p \in Programs |-> state'[p]]
    BY <1>1 DEF IInv, ScansSound
  <2>2. ASSUME NEW p \in Programs, NEW a, NEW b \in Txs, QueuedBetween(p, a, b)
        PROVE  QueuedBetween(p, a, b)'
    BY <1>1, <1>2, <1>3, <1>4, <2>2 DEF QueuedBetween
  <2>3. ASSUME NEW p \in Programs
        PROVE  Scanned(p)'
    <3>0. PICK st : st = state[p]
      OBVIOUS
    <3>1. /\ st \in ProgramState
          /\ st.head \in Txs \cup {None} /\ st.scan_head \in Txs \cup {None}
          /\ st.scan_before \in Txs \cup {None}
          /\ st.scan_before = None <=> st.scan_head = None
          /\ st.scan_until = IF st.scan_before = None THEN None ELSE st.head
          /\ st.head # None => QueuedBetween(p, 1, st.head)
          /\ st.scan_before # None => QueuedBetween(p, st.scan_before, st.scan_head)
          /\ st.finalized_through # None => st.finalized_through <= Slot
      BY <3>0 DEF IInv, ScansSound, Scanned
    <3>2. st.head # None => QueuedBetween(p, 1, st.head)'
      BY <2>2, <3>1
    <3>3. st.scan_before # None => QueuedBetween(p, st.scan_before, st.scan_head)'
      BY <2>2, <3>1
    <3>4. st.finalized_through # None => st.finalized_through <= Slot'
      <4>1. st.finalized_through \in 0..MaxTxs \cup {None}
        BY <3>1 DEF ProgramState
      <4> QED
        BY <1>2, <3>1, <4>1, BudgetsAssumption
    <3>5. state'[p] = st
      BY <1>1, <3>0
    <3> QED
      BY <1>2, <3>1, <3>2, <3>3, <3>4, <3>5 DEF Scanned
  <2>4. AttestedIsDiscovered'
    <3> SUFFICES ASSUME NEW p \in Programs, state[p].finalized_through # None,
                        NEW t \in Txs', p \in ledger'[t].programs,
                        (SlotOf(t))' <= state[p].finalized_through
                 PROVE  rows[p][t] # "absent"
      BY <1>1 DEF AttestedIsDiscovered
    <3>1. t \in Txs
      <4>1. state[p].finalized_through \in 0..MaxTxs /\ state[p].finalized_through <= Slot
        BY DEF IInv, ScansSound, Scanned, ProgramState
      <4> QED
        BY <1>2, <1>4, <4>1, BudgetsAssumption
    <3> QED
      BY <1>3, <3>1 DEF IInv, ScansSound, AttestedIsDiscovered
  <2> QED
    BY <2>1, <2>3, <2>4 DEF ScansSound
<1>8. EffectsSound'
  <2>1. \A t \in applied' : ledger'[t].kind = "complete" /\ ~(Mixed(t))'
    BY <1>1, <1>3 DEF IInv, RowsTyped, EffectsSound
  <2>2. FinishedIsApplied'
    BY <1>1, <1>3, <1>5 DEF IInv, EffectsSound, FinishedIsApplied
  <2> QED
    BY <2>1, <2>2 DEF EffectsSound
<1>9. PollTyped'
  <2>1. poll \in PollState'
    <3>1. poll \in PollState
      BY DEF IInv, PollSound, PollTyped
    <3>2. 0..Slot \subseteq 0..Slot' /\ Txs \cup {None} \subseteq Txs' \cup {None}
      BY <1>2
    <3> QED
      BY <3>1, <3>2 DEF PollState, Namespaces, Tx
  <2> QED
    BY <1>1, <2>1 DEF IInv, PollSound, PollTyped, Idle
<1>10. poll.watermark \in 0..Slot /\ poll.tx \in Txs \cup {None}
  BY DEF IInv, PollSound, PollTyped, PollState
<1>11. ScanAttests'
  <2>1. poll.at = "verify" =>
           \A t \in Txs' : poll.program \in ledger'[t].programs /\ (SlotOf(t))' <= poll.watermark
                               => rows[poll.program][t] # "absent"
    <3> SUFFICES ASSUME poll.at = "verify", NEW t \in Txs', poll.program \in ledger'[t].programs,
                        (SlotOf(t))' <= poll.watermark
                 PROVE  rows[poll.program][t] # "absent"
      OBVIOUS
    <3>1. t \in Txs
      BY <1>2, <1>4, <1>10
    <3> QED
      BY <1>3, <3>1 DEF IInv, PollSound, ScanAttests
  <2> QED
    BY <1>1, <2>1 DEF IInv, PollSound, ScanAttests
<1>12. EligibleSound'
  <2> SUFFICES ASSUME NEW n \in poll.eligible
               PROVE  /\ Ids(n) \subseteq poll.discovered
                      /\ \A p \in Ids(n), u \in Txs' : rows[p][u] = "quarantined" =>
                             u \in poll.halfDone \/ (u = poll.tx /\ (Mixed(u))')
    BY <1>1 DEF EligibleSound, Ids
  <2>1. /\ Ids(n) \subseteq poll.discovered
        /\ \A p \in Ids(n), u \in Txs :
               rows[p][u] = "quarantined" => u \in poll.halfDone \/ (u = poll.tx /\ Mixed(u))
    BY DEF IInv, PollSound, EligibleSound
  <2>2. \A p \in Ids(n), u \in Txs' : rows[p][u] = "quarantined" => u \in Txs
    BY <1>5 DEF Ids
  <2> QED
    BY <1>3, <2>1, <2>2
<1>13. AtWork'
  <2>1. poll.tx # None /\ poll.at # "evidence" =>
           /\ (SlotOf(poll.tx))' <= poll.watermark
           /\ \A p \in Active, u \in Txs' : u < poll.tx => rows[p][u] # "pending"
    BY <1>1, <1>3, <1>5, <1>10 DEF IInv, PollSound, AtWork, Active
  <2>2. poll.at \in {"apply", "finish"} =>
           /\ ledger'[poll.tx].kind = "complete" /\ ~(Mixed(poll.tx))'
           /\ (EventNamespaces(poll.tx))' \subseteq poll.eligible
    BY <1>1, <1>3, <1>10 DEF IInv, PollSound, PollTyped, AtWork
  <2>3. Active' = Active
    BY <1>1 DEF Active
  <2> QED
    BY <1>1, <2>1, <2>2, <2>3 DEF IInv, PollSound, AtWork
<1> QED
  BY <1>2, <1>6, <1>7, <1>8, <1>9, <1>11, <1>12, <1>13 DEF IInv, PollSound

-----------------------------------------------------------------------------
(* Steps that change rows.                                                 *)

\* Rows are written for finalized transactions, none is taken back, and one
\* becomes processed only if its effects are in or it failed.
RowsSettle ==
    /\ UNCHANGED <<ledger, applied>>
    /\ rows' \in [Programs -> [Tx -> Statuses]]
    /\ \A p \in Programs, t \in Tx : rows'[p][t] # "absent" => rows[p][t] # "absent" \/ t \in Txs
    /\ \A p \in Programs, t \in Tx : rows[p][t] # "absent" => rows'[p][t] # "absent"
    /\ \A p \in Programs, t \in Txs :
           rows'[p][t] = "processed" =>
               rows[p][t] = "processed" \/ t \in applied \/ ledger[t].kind = "failed"
    /\ indexed' \cup collected' \subseteq {r \in Programs \X Tx : rows'[r[1]][r[2]] # "absent"}

\* ... and only the given transactions are put in quarantine.
HeldOnly(S) ==
    \A p \in Programs, u \in Txs : rows'[p][u] = "quarantined" => rows[p][u] = "quarantined" \/ u \in S

LEMMA SettleKeeps ==
    ASSUME IInv, RowsSettle
    PROVE  /\ LedgerTyped' /\ RowsTyped' /\ EffectsSound' /\ Slot' \in Nat
           /\ UNCHANGED state => ScansSound'
<1>1. /\ Txs' = Txs /\ Slot' = Slot /\ LedgerTyped' /\ Txs \subseteq Tx /\ Slot \in Nat
      /\ \A t : /\ (SlotOf(t))' = SlotOf(t) /\ (Mixed(t))' = Mixed(t)
                /\ (Mentioned(t))' = Mentioned(t)
                /\ (EventNamespaces(t))' = EventNamespaces(t)
  BY SameLedger, LedgerFacts DEF IInv, RowsSettle
<1>2. RowsTyped'
  BY <1>1 DEF IInv, RowsTyped, RowsSettle, Tx
<1>3. EffectsSound'
  <2>1. FinishedIsApplied'
    BY <1>1 DEF IInv, EffectsSound, FinishedIsApplied, RowsSettle
  <2>2. \A t \in applied' : ledger'[t].kind = "complete" /\ ~(Mixed(t))'
    BY <1>1 DEF IInv, EffectsSound, RowsSettle
  <2> QED
    BY <2>1, <2>2 DEF EffectsSound
<1>4. ASSUME UNCHANGED state
      PROVE  ScansSound'
  <2>1. ASSUME NEW p \in Programs, NEW a, NEW b, QueuedBetween(p, a, b)
        PROVE  QueuedBetween(p, a, b)'
    BY <1>1, <2>1 DEF QueuedBetween, RowsSettle
  <2>2. ASSUME NEW p \in Programs
        PROVE  Scanned(p)'
    <3>1. PICK st : st = state[p]
      OBVIOUS
    <3>2. state'[p] = st
      BY <1>4, <3>1
    <3>3. /\ st \in ProgramState
          /\ {st.head, st.scan_head, st.scan_before} \subseteq Txs \cup {None}
          /\ st.scan_before = None <=> st.scan_head = None
          /\ st.scan_until = IF st.scan_before = None THEN None ELSE st.head
          /\ st.head # None => QueuedBetween(p, 1, st.head)
          /\ st.scan_before # None => QueuedBetween(p, st.scan_before, st.scan_head)
          /\ st.finalized_through # None => st.finalized_through <= Slot
      BY <3>1 DEF IInv, ScansSound, Scanned
    <3> QED
      BY <1>1, <2>1, <3>2, <3>3 DEF Scanned
  <2>3. AttestedIsDiscovered'
    BY <1>1, <1>4 DEF IInv, ScansSound, AttestedIsDiscovered, RowsSettle
  <2> QED
    BY <1>4, <2>2, <2>3 DEF IInv, ScansSound
<1> QED
  BY <1>1, <1>2, <1>3, <1>4

\* A poll that is over, or that died, promises nothing.
LEMMA IdleIsSound ==
    ASSUME Slot' \in Nat, poll' = Idle
    PROVE  PollSound'
BY DEF PollSound, PollTyped, PollState, ScanAttests, EligibleSound, AtWork, Idle

\* A failed transaction emitted nothing, so it is not mixed.
LEMMA FailedIsNotMixed ==
    ASSUME LedgerTyped, NEW t \in Txs, ledger[t].kind # "complete"
    PROVE  EventNamespaces(t) = {} /\ ~Mixed(t)
<1>1. EventNamespaces(t) = {}
  BY DEF LedgerTyped, EventNamespaces
<1> QED
  BY <1>1, FS_EmptySet DEF Mixed

\* Unless a mixed transaction is at work, only what an error cut short in this
\* poll is in quarantine in a namespace of the drain.
LEMMA NoneHeld ==
    ASSUME IInv, poll.tx = None \/ ~Mixed(poll.tx)
    PROVE  \A n \in poll.eligible :
               /\ Ids(n) \subseteq poll.discovered
               /\ \A p \in Ids(n), u \in Txs : rows[p][u] = "quarantined" => u \in poll.halfDone
<1>1. \A u \in Txs : u # None
  BY LedgerFacts, BudgetsAssumption DEF IInv
<1> QED
  BY <1>1 DEF IInv, PollSound, EligibleSound

\* What BlockSound, RetainSound and ReleaseSound have in common: the drain goes on without
\* a transaction at work.
LEMMA DrainGoesOn ==
    ASSUME IInv, RowsSettle, UNCHANGED state,
           poll.at \in {"discovered", "drain", "apply", "finish", "evidence"},
           poll' \in PollState,
           poll'.at = poll.at \/ poll'.at \in {"drain", "evidence"}, poll'.at \notin {"apply", "finish"},
           poll'.watermark = poll.watermark, poll'.discovered = poll.discovered, poll'.tx = None,
           poll'.at = "discovered" => poll'.eligible = {},
           \A n \in poll'.eligible :
               /\ Ids(n) \subseteq poll.discovered
               /\ \A p \in Ids(n), u \in Txs : rows'[p][u] = "quarantined" => u \in poll'.halfDone
    PROVE  PollSound'
<1>1. Txs' = Txs /\ Slot' = Slot
  BY SameLedger DEF RowsSettle
<1>2. PollTyped'
  BY <1>1 DEF PollTyped, PollState
<1>3. ScanAttests'
  BY DEF IInv, PollSound, ScanAttests
<1>4. EligibleSound'
  BY <1>1 DEF EligibleSound, Ids
<1>5. AtWork'
  BY DEF AtWork
<1> QED
  BY <1>2, <1>3, <1>4, <1>5 DEF PollSound

-----------------------------------------------------------------------------
(* Discovery.                                                              *)

\* All that a scan could still find for a program.
Unscanned(p) ==
    LET st == state[p] IN
    {t \in Txs : /\ p \in ledger[t].programs
                 /\ st.scan_before # None => t < st.scan_before
                 /\ st.head # None => t > st.head}

\* A page is the newest part of it, and a short page is all of it.
LEMMA PageIsNewest ==
    ASSUME LedgerTyped, NEW p \in Programs, Scanned(p)
    PROVE  /\ Page(p) \subseteq Unscanned(p)
           /\ \A t \in Unscanned(p), m \in Page(p) : m <= t => t \in Page(p)
           /\ Complete(Page(p)) => Page(p) = Unscanned(p)
           /\ Page(p) = {} => Complete(Page(p))
<1>1. Else(state[p].scan_until, state[p].head) = state[p].head
  BY DEF Scanned, Else
<1>2. Page(p) = {t \in Unscanned(p) :
                    Cardinality({u \in Unscanned(p) : u >= t}) <= SignaturesPerPoll}
  BY <1>1 DEF Page, SignaturesFor, Unscanned
<1>3. SignaturesPerPoll \in Nat \ {0}
  BY BudgetsAssumption
<1>4. Len(ledger) \in Nat /\ Unscanned(p) \in SUBSET (1..Len(ledger))
  BY LedgerFacts DEF Unscanned
<1>5. Complete(Page(p)) => Page(p) = Unscanned(p)
  BY <1>2, <1>3, <1>4, NewestAreAll DEF Complete
<1>6. Page(p) = {} => Complete(Page(p))
  BY <1>3, FS_EmptySet DEF Complete
<1>7. ASSUME NEW t \in Unscanned(p), NEW m \in Page(p), m <= t
      PROVE  t \in Page(p)
  <2> DEFINE from(x) == {u \in Unscanned(p) : u >= x}
  <2>1. \A x : IsFiniteSet(from(x)) /\ Cardinality(from(x)) \in Nat
    <3>1. IsFiniteSet(1..Len(ledger))
      BY <1>4, FS_Interval
    <3>2. \A x : from(x) \subseteq 1..Len(ledger)
      BY <1>4
    <3> HIDE DEF from
    <3> QED
      BY <3>1, <3>2, FS_Subset, FS_CardinalityType
  <2>2. from(t) \subseteq from(m)
    BY <1>2, <1>4, <1>7
  <2>3. Cardinality(from(m)) <= SignaturesPerPoll
    BY <1>2
  <2>4. Cardinality(from(t)) <= Cardinality(from(m))
    BY <2>1, <2>2, FS_Subset
  <2>5. Cardinality(from(t)) \in Nat /\ Cardinality(from(m)) \in Nat
    BY <2>1
  <2>6. Cardinality(from(t)) <= SignaturesPerPoll
    BY <1>3, <2>3, <2>4, <2>5
  <2> QED
    BY <1>2, <2>6
<1> QED
  BY <1>2, <1>5, <1>6, <1>7

\* A page ends up in the queue and disturbs nothing that is there.
LEMMA EnqueueSettles ==
    ASSUME IInv, NEW p \in Programs, NEW page \in SUBSET Txs, Enqueue(p, page),
           UNCHANGED <<ledger, applied>>
    PROVE  RowsSettle /\ \A t \in page : rows'[p][t] # "absent"
<1>1. /\ Txs \subseteq Tx /\ rows \in [Programs -> [Tx -> Statuses]]
      /\ DOMAIN rows[p] = Tx
  BY LedgerFacts DEF IInv, RowsTyped
<1>2. \A t : NewStatus(t) \in {"pending", "processed", "quarantined"}
  BY DEF NewStatus
<1>3. rows' = [rows EXCEPT ![p] = [t \in Tx |->
          IF t \in page /\ (rows[p][t] = "absent" \/ Quarantined(t)) THEN NewStatus(t) ELSE rows[p][t]]]
  BY <1>1 DEF Enqueue
<1>4. /\ \A q \in Programs \ {p} : rows'[q] = rows[q]
      /\ \A t \in Tx : rows'[p][t] = IF t \in page /\ (rows[p][t] = "absent" \/ Quarantined(t))
                                     THEN NewStatus(t) ELSE rows[p][t]
  BY <1>1, <1>3
<1>5. rows' \in [Programs -> [Tx -> Statuses]]
  <2>1. [t \in Tx |-> IF t \in page /\ (rows[p][t] = "absent" \/ Quarantined(t))
                      THEN NewStatus(t) ELSE rows[p][t]] \in [Tx -> Statuses]
    BY <1>1, <1>2 DEF Statuses
  <2> QED
    BY <1>1, <1>3, <2>1
<1>6. \A t \in page : rows'[p][t] # "absent"
  BY <1>1, <1>2, <1>4
<1>7. \A q \in Programs, t \in Tx : rows'[q][t] # "absent" => rows[q][t] # "absent" \/ t \in Txs
  BY <1>4
<1>8. \A q \in Programs, t \in Tx : rows[q][t] # "absent" => rows'[q][t] # "absent"
  BY <1>2, <1>4
<1>9. ASSUME NEW q \in Programs, NEW t \in Txs, rows'[q][t] = "processed"
      PROVE  rows[q][t] = "processed" \/ t \in applied \/ ledger[t].kind = "failed"
  <2>1. CASE rows'[q][t] = rows[q][t]
    BY <1>9, <2>1
  <2>2. CASE rows'[q][t] = NewStatus(t)
    <3>1. Completed(t) \/ ledger[t].kind = "failed"
      BY <1>9, <2>2 DEF NewStatus
    <3> QED
      BY <3>1 DEF Completed, IInv, EffectsSound, FinishedIsApplied
  <2> QED
    BY <1>1, <1>4, <2>1, <2>2
<1>10. indexed' \cup collected' \subseteq {r \in Programs \X Tx : rows'[r[1]][r[2]] # "absent"}
  <2>1. indexed' \cup collected' \subseteq indexed \cup collected \cup {<<p, t>> : t \in page}
    BY DEF Enqueue
  <2>2. \A t \in page : <<p, t>> \in {r \in Programs \X Tx : rows'[r[1]][r[2]] # "absent"}
    BY <1>1, <1>6
  <2>3. \A r \in indexed \cup collected : r \in {s \in Programs \X Tx : rows'[s[1]][s[2]] # "absent"}
    BY <1>8 DEF IInv, RowsTyped
  <2> QED
    BY <2>1, <2>2, <2>3
<1> QED
  BY <1>5, <1>6, <1>7, <1>8, <1>9, <1>10 DEF RowsSettle

\* After a page the cursors say what is queued, and after a short page of a
\* fresh scan that is everything.
LEMMA PageScanned ==
    ASSUME IInv, RowsSettle, NEW p \in Programs, NEW page, page = Page(p),
           \A t \in page : rows'[p][t] # "absent",
           state'[p] = AfterPage(state[p], page)
    PROVE  /\ Scanned(p)'
           /\ state'[p].finalized_through = state[p].finalized_through
           /\ Complete(page) /\ Fresh(state[p]) =>
                  \A t \in Txs : p \in ledger[t].programs => rows'[p][t] # "absent"
<1>1. PICK st : st = state[p]
  OBVIOUS
<1>2. /\ st \in ProgramState
      /\ st.head \in Txs \cup {None} /\ st.scan_head \in Txs \cup {None}
      /\ st.scan_before \in Txs \cup {None}
      /\ st.scan_before = None <=> st.scan_head = None
      /\ st.scan_until = IF st.scan_before = None THEN None ELSE st.head
      /\ st.finalized_through # None => st.finalized_through <= Slot
  BY <1>1 DEF IInv, ScansSound, Scanned
<1>3. /\ st.head # None => \A t \in Txs : p \in ledger[t].programs /\ t <= st.head => rows'[p][t] # "absent"
      /\ st.scan_before # None => \A t \in Txs : /\ p \in ledger[t].programs
                                                 /\ st.scan_before <= t /\ t <= st.scan_head
                                                 => rows'[p][t] # "absent"
  <2>1. Txs \subseteq Tx
    BY LedgerFacts DEF IInv
  <2>2. /\ st.head # None => QueuedBetween(p, 1, st.head)
        /\ st.scan_before # None => QueuedBetween(p, st.scan_before, st.scan_head)
    BY <1>1 DEF IInv, ScansSound, Scanned
  <2>3. \A t \in Txs : t >= 1
    BY LedgerFacts DEF IInv
  <2> QED
    BY <2>1, <2>2, <2>3 DEF QueuedBetween, RowsSettle
<1>4. /\ page \subseteq Unscanned(p)
      /\ \A t \in Unscanned(p), m \in page : m <= t => t \in page
      /\ Complete(page) => page = Unscanned(p)
      /\ page = {} => Complete(page)
  BY PageIsNewest DEF IInv, ScansSound
<1>5. Unscanned(p) = {t \in Txs : /\ p \in ledger[t].programs
                                  /\ st.scan_before # None => t < st.scan_before
                                  /\ st.head # None => t > st.head}
  BY <1>1 DEF Unscanned
<1>6. Txs = 1..Len(ledger) /\ Len(ledger) \in Nat /\ Txs \subseteq Tx /\ None \notin Nat
      /\ Txs' = Txs /\ Slot' = Slot
  BY LedgerFacts, SameLedger, BudgetsAssumption DEF IInv, RowsSettle
<1>7. page # {} => /\ Min(page) \in page /\ \A x \in page : Min(page) <= x
                   /\ Max(page) \in page /\ \A x \in page : x <= Max(page)
  <2>1. page \in SUBSET Nat /\ page \in SUBSET (1..Len(ledger))
    BY <1>4, <1>5, <1>6
  <2> QED
    BY <1>6, <2>1, MinOf, MaxOf
<1>8. PICK new : new = state'[p]
  OBVIOUS
<1>9. /\ new.head = NewHead(st, page)
      /\ new.scan_before = IF Complete(page) THEN None ELSE Min(page)
      /\ new.scan_until = IF Complete(page) THEN None ELSE Else(st.scan_until, st.head)
      /\ new.scan_head = IF Complete(page) THEN None ELSE Else(st.scan_head, Newest(page))
      /\ new.complete = (st.complete \/ Complete(page))
      /\ new.finalized_through = st.finalized_through
      /\ new = [head |-> new.head, scan_before |-> new.scan_before, scan_until |-> new.scan_until,
                scan_head |-> new.scan_head, complete |-> new.complete,
                finalized_through |-> new.finalized_through]
  BY <1>1, <1>2, <1>8 DEF AfterPage, ProgramState
<1>10. /\ new.head \in Txs \cup {None} /\ new.scan_head \in Txs \cup {None}
       /\ new.scan_before \in Txs \cup {None}
       /\ new.scan_before = None <=> new.scan_head = None
       /\ new.scan_until = IF new.scan_before = None THEN None ELSE new.head
  <2>1. CASE Complete(page)
    <3>1. new.head \in {st.scan_head, Newest(page), st.head}
      BY <1>9, <2>1 DEF NewHead, Else
    <3>2. Newest(page) \in Txs \cup {None}
      BY <1>4, <1>5, <1>7 DEF Newest
    <3> QED
      BY <1>2, <1>9, <2>1, <3>1, <3>2
  <2>2. CASE ~Complete(page)
    <3>1. page # {} /\ new.head = st.head /\ Newest(page) = Max(page)
      BY <1>4, <1>9, <2>2 DEF NewHead, Newest
    <3>2. Min(page) \in Txs /\ Max(page) \in Txs
      BY <1>4, <1>5, <1>7, <3>1
    <3>3. new.scan_before \in Txs /\ new.scan_head \in Txs
      BY <1>2, <1>9, <2>2, <3>1, <3>2 DEF Else
    <3>4. new.scan_until = st.head
      BY <1>2, <1>9, <2>2 DEF Else
    <3> QED
      BY <1>2, <1>6, <3>1, <3>3, <3>4
  <2> QED
    BY <2>1, <2>2
<1>11. new \in ProgramState
  <2>1. new.complete \in BOOLEAN /\ new.finalized_through \in 0..MaxTxs \cup {None}
    BY <1>2, <1>9 DEF ProgramState
  <2>2. /\ new.head \in Tx \cup {None} /\ new.scan_before \in Tx \cup {None}
        /\ new.scan_until \in Tx \cup {None} /\ new.scan_head \in Tx \cup {None}
    BY <1>6, <1>10
  <2> QED
    BY <1>9, <2>1, <2>2 DEF ProgramState
<1>12. ASSUME Complete(page), NEW t \in Txs, p \in ledger[t].programs,
              st.scan_head # None => t <= st.scan_head
       PROVE  rows'[p][t] # "absent"
  <2>1. CASE st.head # None /\ t <= st.head
    BY <1>3, <1>12, <2>1
  <2>2. CASE st.scan_before # None /\ st.scan_before <= t
    BY <1>2, <1>3, <1>12, <2>2
  <2>3. CASE /\ st.head # None => ~(t <= st.head)
             /\ st.scan_before # None => ~(st.scan_before <= t)
    <3>1. t \in Unscanned(p)
      BY <1>2, <1>5, <1>6, <1>12, <2>3
    <3> QED
      BY <1>4, <1>12, <3>1
  <2> QED
    BY <2>1, <2>2, <2>3
<1>13. new.head # None => QueuedBetween(p, 1, new.head)'
  <2>1. CASE ~Complete(page)
    <3>1. new.head = st.head
      BY <1>9, <2>1 DEF NewHead
    <3> QED
      BY <1>3, <1>6, <3>1 DEF QueuedBetween, RowsSettle
  <2>2. CASE Complete(page)
    <3> SUFFICES ASSUME new.head # None, NEW t \in Txs, p \in ledger[t].programs, t <= new.head
                 PROVE  rows'[p][t] # "absent"
      BY <1>6 DEF QueuedBetween, RowsSettle
    <3>1. st.scan_head # None => t <= st.scan_head
      BY <1>9, <2>2 DEF NewHead, Else
    <3> QED
      BY <1>12, <2>2, <3>1
  <2> QED
    BY <2>1, <2>2
<1>14. new.scan_before # None => QueuedBetween(p, new.scan_before, new.scan_head)'
  <2> SUFFICES ASSUME ~Complete(page), NEW t \in Txs, p \in ledger[t].programs,
                      new.scan_before <= t, t <= new.scan_head
               PROVE  rows'[p][t] # "absent"
    BY <1>6, <1>9 DEF QueuedBetween, RowsSettle
  <2>1. page # {} /\ new.scan_before = Min(page)
    BY <1>4, <1>9
  <2>2. Min(page) \in page /\ Min(page) <= t /\ Min(page) \in Nat /\ t \in Nat
    BY <1>4, <1>5, <1>6, <1>7, <2>1
  <2>3. CASE st.scan_before # None /\ st.scan_before <= t
    <3>1. new.scan_head = st.scan_head
      BY <1>2, <1>9, <2>3 DEF Else
    <3> QED
      BY <1>3, <2>3, <3>1
  <2>4. CASE st.scan_before # None => ~(st.scan_before <= t)
    <3>1. st.head # None => st.head \in Nat /\ Min(page) > st.head
      BY <1>2, <1>4, <1>5, <1>6, <2>2
    <3>2. st.head # None => t > st.head
      BY <2>2, <3>1
    <3>3. t \in Unscanned(p)
      BY <1>2, <1>5, <1>6, <2>4, <3>2
    <3> QED
      BY <1>4, <2>2, <3>3
  <2> QED
    BY <2>3, <2>4
<1>15. Scanned(p)'
  <2>1. {new.head, new.scan_head, new.scan_before} \subseteq Txs'  \cup {None}
    BY <1>6, <1>10
  <2>2. new.finalized_through # None => new.finalized_through <= Slot'
    BY <1>2, <1>6, <1>9
  <2> QED
    BY <1>8, <1>10, <1>11, <1>13, <1>14, <2>1, <2>2 DEF Scanned
<1> QED
  BY <1>1, <1>2, <1>8, <1>9, <1>12, <1>15 DEF Fresh

\* The other programs' cursors hold as before when rows settle.
LEMMA OthersScanned ==
    ASSUME IInv, RowsSettle, NEW p \in Programs,
           state' = [state EXCEPT ![p] = state'[p]], Scanned(p)',
           state'[p].finalized_through = state[p].finalized_through
    PROVE  ScansSound'
<1>1. DOMAIN state' = Programs /\ state' = [q \in Programs |-> state'[q]]
  BY DEF IInv, ScansSound
<1>2. \A q \in Programs \ {p} : state'[q] = state[q]
  BY DEF IInv, ScansSound
<1>3. Txs' = Txs /\ Slot' = Slot /\ Txs \subseteq Tx /\ \A t : (SlotOf(t))' = SlotOf(t)
  BY SameLedger, LedgerFacts DEF IInv, RowsSettle
<1>4. ASSUME NEW q \in Programs \ {p}
      PROVE  Scanned(q)'
  <2>1. PICK st : st = state[q]
    OBVIOUS
  <2>2. state'[q] = st
    BY <1>2, <2>1
  <2>3. /\ st \in ProgramState
        /\ {st.head, st.scan_head, st.scan_before} \subseteq Txs \cup {None}
        /\ st.scan_before = None <=> st.scan_head = None
        /\ st.scan_until = IF st.scan_before = None THEN None ELSE st.head
        /\ st.head # None => QueuedBetween(q, 1, st.head)
        /\ st.scan_before # None => QueuedBetween(q, st.scan_before, st.scan_head)
        /\ st.finalized_through # None => st.finalized_through <= Slot
    BY <2>1 DEF IInv, ScansSound, Scanned
  <2>4. \A a, b : QueuedBetween(q, a, b) => QueuedBetween(q, a, b)'
    BY <1>3 DEF QueuedBetween, RowsSettle
  <2> QED
    BY <1>3, <2>2, <2>3, <2>4 DEF Scanned
<1>5. AttestedIsDiscovered'
  <2>1. \A q \in Programs : state'[q].finalized_through = state[q].finalized_through
    BY <1>2
  <2> QED
    BY <1>3, <2>1 DEF AttestedIsDiscovered, IInv, ScansSound, RowsSettle
<1> QED
  BY <1>1, <1>4, <1>5 DEF ScansSound

\* The poll goes on to the next program, or to the drain.
LEMMA NextProgramSound ==
    ASSUME IInv, NEW found \in SUBSET Programs, NextProgram(found),
           poll.at \in {"scan", "verify"}, Txs' = Txs, Slot' = Slot,
           \A p \in Programs : state[p].finalized_through # None =>
               /\ state'[p].finalized_through \in Nat
               /\ state'[p].finalized_through >= state[p].finalized_through,
           \A p \in found : /\ state'[p].finalized_through # None
                            /\ state'[p].finalized_through >= poll.watermark
    PROVE  PollSound'
<1> DEFINE later == {p \in Programs : p > poll.program}
<1>1. later # {} => Min(later) \in Programs
  BY ProgramsAssumption, MinOf
<1>2. /\ poll \in PollState /\ poll.eligible = {} /\ poll.tx = None
      /\ poll.watermark \in 0..Slot /\ poll.discovered \subseteq Programs
  BY DEF IInv, PollSound, PollTyped, PollState
<1>3. /\ poll' = [poll EXCEPT !.discovered = poll.discovered \cup found,
                              !.pages = HistoryPagesPerPoll,
                              !.program = IF later = {} THEN None ELSE Min(later),
                              !.at = IF later = {} THEN "discovered" ELSE "scan"]
      /\ HistoryPagesPerPoll \in Int
  BY BudgetsAssumption DEF NextProgram
<1> HIDE DEF later
<1>4. /\ poll' \in PollState /\ poll'.tx = None /\ poll'.eligible = {}
      /\ poll'.watermark = poll.watermark /\ poll'.discovered = poll.discovered \cup found
      /\ poll'.at \in {"scan", "discovered"} /\ (poll'.at = "scan" => poll'.program \in Programs)
  BY <1>1, <1>2, <1>3 DEF PollState
<1>5. PollTyped'
  <2>1. poll' \in PollState'
    BY <1>4 DEF PollState
  <2> QED
    BY <1>4, <2>1 DEF PollTyped
<1>6. ScanAttests'
  <2>1. ASSUME NEW p \in poll'.discovered
        PROVE  state'[p].finalized_through # None /\ state'[p].finalized_through >= poll.watermark
    <3>1. CASE p \in found
      BY <3>1
    <3>2. CASE p \in poll.discovered
      <4>1. /\ state[p].finalized_through # None /\ state[p].finalized_through >= poll.watermark
            /\ p \in Programs /\ poll.watermark \in Int
        BY <1>2, <3>2, LedgerFacts DEF IInv, PollSound, ScanAttests
      <4>2. state[p].finalized_through \in Int
        BY <4>1 DEF IInv, ScansSound, Scanned, ProgramState
      <4>3. /\ state'[p].finalized_through \in Nat
            /\ state'[p].finalized_through >= state[p].finalized_through
        BY <4>1
      <4> QED
        BY <4>1, <4>2, <4>3, BudgetsAssumption
    <3> QED
      BY <1>4, <3>1, <3>2
  <2> QED
    BY <1>4, <2>1 DEF ScanAttests
<1>7. EligibleSound' /\ AtWork'
  BY <1>4 DEF EligibleSound, AtWork
<1> QED
  BY <1>5, <1>6, <1>7 DEF PollSound

LEMMA ScanPageStep ==
    ASSUME IInv, ScanPage
    PROVE  IInv'
<1>1. PICK p, page, st : p = poll.program /\ page = Page(p) /\ st = state[p]
  OBVIOUS
<1>2. /\ poll.at = "scan" /\ p \in Programs /\ Enqueue(p, page)
      /\ state' = [state EXCEPT ![p] = AfterPage(st, page)]
      /\ IF Complete(page) /\ Fresh(st) THEN poll' = [poll EXCEPT !.at = "verify"]
         ELSE IF poll.pages = 1 THEN NextProgram({})
         ELSE poll' = [poll EXCEPT !.pages = @ - 1]
      /\ UNCHANGED <<ledger, applied>>
  BY <1>1 DEF ScanPage, IInv, PollSound, PollTyped
<1>3. page \in SUBSET Txs
  BY <1>1, <1>2, PageIsNewest DEF IInv, ScansSound, Unscanned
<1>4. RowsSettle /\ \A t \in page : rows'[p][t] # "absent"
  BY <1>2, <1>3, EnqueueSettles
<1>5. state'[p] = AfterPage(state[p], page) /\ state' = [state EXCEPT ![p] = state'[p]]
  BY <1>1, <1>2 DEF IInv, ScansSound
<1>6. /\ Scanned(p)' /\ state'[p].finalized_through = state[p].finalized_through
      /\ Complete(page) /\ Fresh(state[p]) =>
             \A t \in Txs : p \in ledger[t].programs => rows'[p][t] # "absent"
  BY <1>1, <1>2, <1>4, <1>5, PageScanned
<1>7. LedgerTyped' /\ RowsTyped' /\ EffectsSound' /\ ScansSound'
  BY <1>2, <1>4, <1>5, <1>6, SettleKeeps, OthersScanned
<1>8. /\ Txs' = Txs /\ Slot' = Slot /\ \A t : (SlotOf(t))' = SlotOf(t)
      /\ \A q \in Programs : state'[q].finalized_through = state[q].finalized_through
  BY <1>2, <1>5, <1>6, SameLedger DEF IInv, ScansSound
<1>9. /\ poll \in PollState /\ poll.eligible = {} /\ poll.tx = None
  BY <1>2 DEF IInv, PollSound, PollTyped
<1>10. PollSound'
  <2>1. CASE NextProgram({})
    <3>1. \A q \in Programs : state[q].finalized_through # None => state[q].finalized_through \in Nat
      BY DEF IInv, ScansSound, Scanned, ProgramState
    <3>2. \A q \in Programs : state[q].finalized_through # None =>
              /\ state'[q].finalized_through \in Nat
              /\ state'[q].finalized_through >= state[q].finalized_through
      BY <1>8, <3>1
    <3> QED
      BY <1>2, <1>8, <2>1, <3>2, NextProgramSound
  <2>2. CASE \/ poll' = [poll EXCEPT !.at = "verify"] /\ Complete(page) /\ Fresh(st)
             \/ poll' = [poll EXCEPT !.pages = @ - 1]
    <3>1. /\ poll' \in PollState' /\ poll'.tx = None /\ poll'.eligible = {}
          /\ poll'.watermark = poll.watermark /\ poll'.discovered = poll.discovered
          /\ poll'.program = p /\ poll'.at \in {"scan", "verify"}
          /\ poll'.at = "verify" => Complete(page) /\ Fresh(st)
      BY <1>1, <1>2, <1>8, <1>9, <2>2 DEF PollState
    <3>2. PollTyped'
      BY <1>2, <3>1 DEF PollTyped
    <3>3. ScanAttests'
      BY <1>1, <1>2, <1>6, <1>8, <3>1 DEF ScanAttests, IInv, PollSound, PollTyped, PollState
    <3>4. EligibleSound' /\ AtWork'
      BY <3>1 DEF EligibleSound, AtWork
    <3> QED
      BY <3>2, <3>3, <3>4 DEF PollSound
  <2> QED
    BY <1>2, <2>1, <2>2
<1> QED
  BY <1>7, <1>10 DEF IInv

LEMMA MarkStep ==
    ASSUME IInv, MarkVerifiedThrough
    PROVE  IInv'
<1>1. PICK p, old, mark : /\ p = poll.program /\ old = state[p].finalized_through
                          /\ mark = IF old = None THEN poll.watermark ELSE Max({old, poll.watermark})
  OBVIOUS
<1>2. /\ poll.at = "verify" /\ p \in Programs /\ NextProgram({p})
      /\ state' = [state EXCEPT ![p].finalized_through = mark]
      /\ UNCHANGED <<ledger, rows, indexed, collected, applied>>
  BY <1>1 DEF MarkVerifiedThrough, IInv, PollSound, PollTyped, ScansSound
<1>3. /\ poll.watermark \in 0..Slot /\ Slot \in Nat /\ Slot <= MaxTxs /\ None \notin Nat /\ MaxTxs \in Nat
      /\ old # None => old \in Nat /\ old <= Slot
  <2>1. poll.watermark \in 0..Slot
    BY DEF IInv, PollSound, PollTyped, PollState
  <2>2. Slot \in Nat /\ Slot <= MaxTxs
    BY LedgerFacts, BudgetsAssumption DEF IInv, LedgerTyped
  <2>3. old # None => old \in Nat /\ old <= Slot
    BY <1>1, <1>2 DEF IInv, ScansSound, Scanned, ProgramState
  <2> QED
    BY <2>1, <2>2, <2>3, BudgetsAssumption
<1>4. /\ mark \in 0..Slot /\ mark >= poll.watermark
      /\ old # None => mark >= old
      /\ mark = poll.watermark \/ (old # None /\ mark = old)
  <2>1. CASE old = None
    BY <1>1, <1>3, <2>1
  <2>2. CASE old # None
    BY <1>1, <1>3, <2>2, MaxOfTwo
  <2> QED
    BY <2>1, <2>2
<1>5. /\ Txs' = Txs /\ Slot' = Slot /\ \A t : (SlotOf(t))' = SlotOf(t)
  BY <1>2, SameLedger
<1>6. RowsSettle
  BY <1>2 DEF IInv, RowsTyped, RowsSettle
<1>7. LedgerTyped' /\ RowsTyped' /\ EffectsSound'
  BY <1>6, SettleKeeps
<1>8. /\ state[p] \in ProgramState
      /\ \A q \in Programs \ {p} : state'[q] = state[q]
      /\ state'[p] = [state[p] EXCEPT !.finalized_through = mark]
  BY <1>2 DEF IInv, ScansSound, Scanned
<1>9. /\ state'[p] \in ProgramState /\ state'[p].finalized_through = mark
      /\ state'[p].head = state[p].head /\ state'[p].scan_head = state[p].scan_head
      /\ state'[p].scan_before = state[p].scan_before /\ state'[p].scan_until = state[p].scan_until
  BY <1>3, <1>4, <1>8 DEF ProgramState
<1>10. \A q \in Programs : \A a, b : QueuedBetween(q, a, b) => QueuedBetween(q, a, b)'
  BY <1>2, <1>5 DEF QueuedBetween
<1>11. ASSUME NEW q \in Programs
       PROVE  Scanned(q)'
  <2>1. PICK st : st = state[q]
    OBVIOUS
  <2>2. PICK new : new = state'[q]
    OBVIOUS
  <2>3. /\ st \in ProgramState
        /\ {st.head, st.scan_head, st.scan_before} \subseteq Txs \cup {None}
        /\ st.scan_before = None <=> st.scan_head = None
        /\ st.scan_until = IF st.scan_before = None THEN None ELSE st.head
        /\ st.head # None => QueuedBetween(q, 1, st.head)
        /\ st.scan_before # None => QueuedBetween(q, st.scan_before, st.scan_head)
        /\ st.finalized_through # None => st.finalized_through <= Slot
    BY <2>1 DEF IInv, ScansSound, Scanned
  <2>4. /\ new.head = st.head /\ new.scan_head = st.scan_head /\ new \in ProgramState
        /\ new.scan_before = st.scan_before /\ new.scan_until = st.scan_until
        /\ new.finalized_through # None => new.finalized_through <= Slot
    <3>1. CASE q = p
      <4>1. new.finalized_through = mark
        BY <1>9, <2>2, <3>1
      <4>2. new.finalized_through <= Slot
        BY <1>3, <1>4, <4>1
      <4> QED
        BY <1>9, <2>1, <2>2, <3>1, <4>2
    <3>2. CASE q # p
      BY <1>8, <2>1, <2>2, <2>3, <3>2
    <3> QED
      BY <3>1, <3>2
  <2>5. /\ st.head # None => QueuedBetween(q, 1, new.head)'
        /\ st.scan_before # None => QueuedBetween(q, new.scan_before, new.scan_head)'
    BY <1>10, <2>3, <2>4
  <2> QED
    BY <1>5, <2>2, <2>3, <2>4, <2>5 DEF Scanned
<1>12. AttestedIsDiscovered'
  <2> SUFFICES ASSUME NEW q \in Programs, state'[q].finalized_through # None, NEW t \in Txs,
                      q \in ledger[t].programs, SlotOf(t) <= state'[q].finalized_through
               PROVE  rows[q][t] # "absent"
    BY <1>2, <1>5 DEF AttestedIsDiscovered
  <2>1. CASE state'[q].finalized_through = state[q].finalized_through
    BY <2>1 DEF IInv, ScansSound, AttestedIsDiscovered
  <2>2. CASE q = p /\ mark = poll.watermark
    BY <1>1, <1>2, <1>9, <2>2 DEF IInv, PollSound, ScanAttests
  <2> QED
    BY <1>1, <1>4, <1>8, <1>9, <2>1, <2>2
<1>13. ScansSound'
  <2>1. DOMAIN state' = Programs /\ state' = [q \in Programs |-> state'[q]]
    BY <1>2 DEF IInv, ScansSound
  <2> QED
    BY <1>11, <1>12, <2>1 DEF ScansSound
<1>14. PollSound'
  <2>1. \A q \in Programs : state[q].finalized_through # None => state[q].finalized_through \in Nat
    BY DEF IInv, ScansSound, Scanned, ProgramState
  <2>2. \A q \in Programs : state[q].finalized_through # None =>
            /\ state'[q].finalized_through \in Nat
            /\ state'[q].finalized_through >= state[q].finalized_through
    <3> SUFFICES ASSUME NEW q \in Programs, state[q].finalized_through # None
                 PROVE  /\ state'[q].finalized_through \in Nat
                        /\ state'[q].finalized_through >= state[q].finalized_through
      OBVIOUS
    <3>1. CASE q = p
      BY <1>1, <1>3, <1>4, <1>9, <3>1
    <3>2. CASE q # p
      <4>1. state[q].finalized_through \in Nat /\ state'[q] = state[q]
        BY <1>8, <2>1, <3>2
      <4> QED
        BY <4>1
    <3> QED
      BY <3>1, <3>2
  <2>3. \A q \in {p} :
            /\ state'[q].finalized_through # None
            /\ state'[q].finalized_through >= poll.watermark
    <3>1. mark # None /\ state'[p].finalized_through = mark
      BY <1>3, <1>4, <1>9
    <3> QED
      BY <1>4, <3>1
  <2>4. {p} \in SUBSET Programs /\ poll.at \in {"scan", "verify"}
    BY <1>2
  <2> QED
    BY <1>2, <1>5, <2>2, <2>3, <2>4, NextProgramSound
<1> QED
  BY <1>7, <1>13, <1>14 DEF IInv

LEMMA StartPollStep ==
    ASSUME IInv, StartPoll
    PROVE  IInv'
<1>1. /\ poll = Idle /\ UNCHANGED <<ledger, state, rows, indexed, collected, applied>>
      /\ poll' = [Idle EXCEPT !.at = "scan", !.watermark = Slot, !.program = Min(Programs),
                              !.pages = HistoryPagesPerPoll]
  BY DEF StartPoll, dbVars, IInv, PollSound, PollTyped
<1>2. RowsSettle
  BY <1>1 DEF IInv, RowsTyped, RowsSettle
<1>3. LedgerTyped' /\ RowsTyped' /\ EffectsSound' /\ ScansSound' /\ Slot' \in Nat
  BY <1>1, <1>2, SettleKeeps
<1>4. /\ Slot' = Slot /\ Min(Programs) \in Programs /\ HistoryPagesPerPoll \in Int
  BY <1>1, SameLedger, MinOf, ProgramsAssumption, BudgetsAssumption
<1>5. poll' \in PollState'
  <2>1. poll' = [at |-> "scan", watermark |-> Slot, program |-> Min(Programs),
                 pages |-> HistoryPagesPerPoll, discovered |-> {}, eligible |-> {},
                 quarantined |-> FALSE, budget |-> 0, tx |-> None, via |-> None, attempted |-> {},
                 halfDone |-> {}]
    BY <1>1 DEF Idle
  <2>2. Slot \in 0..Slot'
    BY <1>3, <1>4
  <2> QED
    BY <1>4, <2>1, <2>2 DEF PollState
<1>6. /\ poll'.at = "scan" /\ poll'.program \in Programs /\ poll'.eligible = {} /\ poll'.tx = None
      /\ poll'.discovered = {}
  BY <1>1, <1>4 DEF Idle
<1> QED
  BY <1>3, <1>5, <1>6
     DEF IInv, PollSound, PollTyped, ScanAttests, EligibleSound, AtWork

LEMMA ChooseStep ==
    ASSUME IInv, ChooseEligible
    PROVE  IInv'
<1>1. UNCHANGED <<ledger, state, rows, indexed, collected, applied>> /\ poll.at = "discovered"
  BY DEF ChooseEligible, dbVars
<1>2. RowsSettle
  BY <1>1 DEF IInv, RowsTyped, RowsSettle
<1>3. LedgerTyped' /\ RowsTyped' /\ EffectsSound' /\ ScansSound'
  BY <1>1, <1>2, SettleKeeps
<1>4. PICK eligible, quarantined :
          /\ eligible = {n \in Namespaces : Ids(n) \subseteq poll.discovered /\ ~HasQuarantined(n)}
          /\ quarantined = \E n \in Namespaces : HasQuarantined(n)
  OBVIOUS
<1>5. poll' = [poll EXCEPT !.at = "drain", !.eligible = eligible, !.quarantined = quarantined,
                           !.budget = SignaturesPerPoll]
  BY <1>4 DEF ChooseEligible
<1>6. poll \in PollState /\ poll.tx = None
  BY <1>1 DEF IInv, PollSound, PollTyped
<1>7. eligible \subseteq Namespaces /\ quarantined \in BOOLEAN /\ SignaturesPerPoll \in Int
  BY <1>4, BudgetsAssumption
<1>8. /\ poll' \in PollState /\ poll'.at = "drain" /\ poll'.tx = None /\ poll'.eligible = eligible
      /\ poll'.watermark = poll.watermark /\ poll'.discovered = poll.discovered
  BY <1>5, <1>6, <1>7 DEF PollState
<1>9. \A n \in eligible : /\ Ids(n) \subseteq poll.discovered
                          /\ \A p \in Ids(n), u \in Txs : rows'[p][u] # "quarantined"
  BY <1>1, <1>4 DEF HasQuarantined
<1> QED
  BY <1>1, <1>2, <1>3, <1>8, <1>9, DrainGoesOn DEF IInv

-----------------------------------------------------------------------------
(* The drain.                                                              *)

\* Rows as they are settle trivially.
LEMMA SameRowsSettle ==
    ASSUME IInv, UNCHANGED <<ledger, rows, applied>>,
           indexed' \subseteq indexed \cup Pending, collected' \subseteq collected \cup Pending
    PROVE  RowsSettle /\ HeldOnly({})
<1>1. Txs' = Txs /\ Txs \subseteq Tx
  BY SameLedger, LedgerFacts DEF IInv
<1>2. Pending \subseteq {r \in Programs \X Tx : rows[r[1]][r[2]] # "absent"}
  BY <1>1 DEF Pending
<1>3. indexed' \cup collected' \subseteq {r \in Programs \X Tx : rows'[r[1]][r[2]] # "absent"}
  BY <1>2 DEF IInv, RowsTyped
<1>4. RowsSettle
  BY <1>3 DEF IInv, RowsTyped, RowsSettle
<1>5. HeldOnly({})
  BY DEF HeldOnly
<1> QED
  BY <1>4, <1>5

LEMMA FinishSettles ==
    ASSUME IInv, NEW t \in Txs, NEW status \in {"processed", "quarantined"}, FinishGlobal(t, status),
           status = "processed" => t \in applied \/ ledger[t].kind = "failed",
           UNCHANGED <<ledger, applied, indexed, collected>>
    PROVE  /\ RowsSettle
           /\ HeldOnly({t})
           /\ status = "processed" => HeldOnly({})
<1>1. /\ Txs' = Txs /\ Txs \subseteq Tx /\ rows \in [Programs -> [Tx -> Statuses]]
  BY SameLedger, LedgerFacts DEF IInv, RowsTyped
<1>2. rows' = [p \in Programs |-> [rows[p] EXCEPT ![t] = IF @ = "pending" THEN status ELSE @]]
  BY DEF FinishGlobal
<1>3. \A p \in Programs, u \in Tx :
          rows'[p][u] = IF u = t /\ rows[p][u] = "pending" THEN status ELSE rows[p][u]
  BY <1>1, <1>2
<1>4. rows' \in [Programs -> [Tx -> Statuses]]
  <2>1. status \in Statuses
    BY DEF Statuses
  <2>2. \A p \in Programs : [rows[p] EXCEPT ![t] = IF @ = "pending" THEN status ELSE @] \in [Tx -> Statuses]
    BY <1>1, <2>1
  <2> QED
    BY <1>2, <2>2
<1>5. \A p \in Programs, u \in Tx : rows'[p][u] # "absent" <=> rows[p][u] # "absent"
  BY <1>3
<1>6. \A p \in Programs, u \in Txs :
          rows'[p][u] = "processed" => rows[p][u] = "processed" \/ u \in applied \/ ledger[u].kind = "failed"
  BY <1>1, <1>3
<1>7. indexed' \cup collected' \subseteq {r \in Programs \X Tx : rows'[r[1]][r[2]] # "absent"}
  <2>1. \A r \in Programs \X Tx : rows'[r[1]][r[2]] # "absent" <=> rows[r[1]][r[2]] # "absent"
    BY <1>5
  <2> QED
    BY <2>1 DEF IInv, RowsTyped
<1>8. RowsSettle
  BY <1>4, <1>5, <1>6, <1>7 DEF RowsSettle
<1>9. HeldOnly({t}) /\ (status = "processed" => HeldOnly({}))
  BY <1>1, <1>3 DEF HeldOnly
<1> QED
  BY <1>8, <1>9

\* A transaction that is due is the oldest, and it was taken for a namespace.
LEMMA DueFacts ==
    ASSUME IInv, NEW t \in Txs, Due(t)
    PROVE  /\ poll.at \in {"drain", "evidence"} /\ poll.tx = None
           /\ SlotOf(t) <= poll.watermark /\ Via(t) \in Namespaces
           /\ poll.at = "drain" /\ IndexKnown(t) =>
                  \A p \in Active, u \in Txs : u < t => rows[p][u] # "pending"
<1>1. /\ poll.at \in {"drain", "evidence"} /\ poll.tx = None
      /\ SlotOf(t) <= poll.watermark /\ t \in Work /\ \A u \in Work \ {t} : Precedes(t, u)
  BY DEF Due, InWatermark, IsFirst
<1>2. Via(t) \in Namespaces
  <2>1. Takers(t) \in SUBSET Nat /\ Takers(t) # {} /\ Takers(t) \subseteq Programs
    BY <1>1, ProgramsAssumption DEF Work, Takers
  <2>2. Min(Takers(t)) \in Programs
    BY <2>1, MinOf
  <2> QED
    BY <2>2 DEF Via, Namespaces
<1>3. ASSUME poll.at = "drain", IndexKnown(t),
             NEW p \in Active, NEW u \in Txs, u < t, rows[p][u] = "pending"
      PROVE  FALSE
  <2>1. <<p, u>> \in WorkRows /\ p \in Programs
    BY <1>3 DEF WorkRows, Pending, Active
  <2>2. u \in Work /\ u # t
    <3>1. p \in Takers(u)
      BY <2>1 DEF Takers
    <3>2. u # t
      BY <1>3, LedgerFacts DEF IInv
    <3> QED
      BY <3>1, <3>2 DEF Work
  <2>3. SlotOf(u) <= SlotOf(t) /\ SlotOf(u) \in Nat /\ SlotOf(t) \in Nat /\ u \in Nat /\ t \in Nat
    BY <1>3, LedgerFacts DEF IInv, LedgerTyped
  <2>4. Precedes(t, u)
    BY <1>1, <2>2
  <2>5. t < u
    BY <1>3, <2>3, <2>4 DEF Precedes
  <2> QED
    BY <1>3, <2>3, <2>5
<1> QED
  BY <1>1, <1>2, <1>3

LEMMA ReleaseTyped ==
    ASSUME poll \in PollState
    PROVE  /\ Release \in PollState /\ Release.tx = None /\ Release.at = poll.at
           /\ Release.eligible = poll.eligible /\ Release.watermark = poll.watermark
           /\ Release.discovered = poll.discovered /\ Release.halfDone = poll.halfDone
<1>1. poll.budget - 1 \in Int
  BY DEF PollState
<1>2. Release = [poll EXCEPT !.tx = None, !.via = None, !.budget = poll.budget - 1]
  BY DEF Release
<1> QED
  BY <1>1, <1>2 DEF PollState

\* A namespace that is blocked leaves the drain, and an evidence pass ends.
LEMMA BlockSound ==
    ASSUME IInv, RowsSettle, UNCHANGED state, NEW n, Block(n),
           poll.at \in {"drain", "apply", "finish", "evidence"}
    PROVE  PollSound'
<1>1. CASE poll.at = "evidence"
  <2>1. poll' = Idle
    BY <1>1 DEF Block, EndWith
  <2> QED
    BY <2>1, SettleKeeps, IdleIsSound
<1>2. CASE poll.at # "evidence"
  <2> DEFINE left == {m \in poll.eligible \ {n} : \A p \in Ids(m) : \A u \in Txs : rows'[p][u] # "quarantined"}
  <2>1. /\ poll \in PollState
        /\ poll' = [Release EXCEPT !.at = "drain", !.eligible = left]
    <3>1. poll \in PollState
      BY DEF IInv, PollSound, PollTyped
    <3>2. Release \in PollState /\ Release.eligible = poll.eligible
      BY <3>1, ReleaseTyped
    <3> QED
      BY <1>2, <3>1, <3>2 DEF Block, EndWith, PollState
  <2>2. left \subseteq poll.eligible /\ left \subseteq Namespaces
    BY <2>1 DEF PollState
  <2>3. \A m \in left : \A p \in Ids(m), u \in Txs : rows'[p][u] # "quarantined"
    OBVIOUS
  <2> HIDE DEF left
  <2>4. /\ poll' \in PollState /\ poll'.at = "drain" /\ poll'.tx = None /\ poll'.eligible = left
        /\ poll'.watermark = poll.watermark /\ poll'.discovered = poll.discovered
    BY <2>1, <2>2, ReleaseTyped DEF PollState
  <2>6. \A m \in left : Ids(m) \subseteq poll.discovered
    BY <2>2 DEF IInv, PollSound, EligibleSound
  <2> QED
    BY <2>3, <2>4, <2>6, DrainGoesOn
<1> QED
  BY <1>1, <1>2

\* A namespace that an error drops leaves the drain; another may go on with
\* the transaction in quarantine, which counts as cut short from now on.
LEMMA RetainSound ==
    ASSUME IInv, RowsSettle, UNCHANGED state, NEW t \in Txs, NEW n, Retain(t, n),
           poll.at \in {"drain", "apply", "finish", "evidence"},
           poll.tx \in {t, None}, HeldOnly({t})
    PROVE  PollSound'
<1>1. CASE poll.at = "evidence"
  <2>1. poll' = Idle
    BY <1>1 DEF Retain, EndWith
  <2> QED
    BY <2>1, SettleKeeps, IdleIsSound
<1>2. CASE poll.at # "evidence"
  <2> DEFINE cut == {u \in {t} : \E p \in Programs : rows'[p][u] = "quarantined"}
  <2>1. poll \in PollState /\ t \in Tx /\ \A u \in Txs : u # None
    BY LedgerFacts, BudgetsAssumption DEF IInv, PollSound, PollTyped
  <2>2. /\ cut \subseteq Tx /\ poll.eligible \ {n} \subseteq Namespaces
        /\ poll.halfDone \cup cut \subseteq Tx
    BY <2>1 DEF PollState
  <2>3. poll' = [Release EXCEPT !.at = "drain", !.eligible = poll.eligible \ {n},
                                !.halfDone = poll.halfDone \cup cut]
    <3>1. Release \in PollState /\ Release.eligible = poll.eligible /\ Release.halfDone = poll.halfDone
      BY <2>1, ReleaseTyped
    <3> QED
      BY <1>2, <3>1 DEF Retain, EndWith, PollState
  <2>4. ASSUME NEW m \in poll.eligible \ {n}, NEW p \in Ids(m), NEW u \in Txs,
               rows'[p][u] = "quarantined"
        PROVE  u \in poll.halfDone \cup cut
    <3>1. p \in Programs
      BY DEF Ids
    <3>2. CASE u = t
      BY <2>4, <3>1, <3>2
    <3>3. CASE u # t
      <4>1. rows[p][u] = "quarantined" /\ u # poll.tx
        BY <2>1, <2>4, <3>1, <3>3 DEF HeldOnly
      <4> QED
        BY <4>1 DEF IInv, PollSound, EligibleSound
    <3> QED
      BY <3>2, <3>3
  <2>5. \A m \in poll.eligible \ {n} : Ids(m) \subseteq poll.discovered
    BY DEF IInv, PollSound, EligibleSound
  <2> HIDE DEF cut
  <2>6. /\ poll' \in PollState /\ poll'.at = "drain" /\ poll'.tx = None
        /\ poll'.eligible = poll.eligible \ {n} /\ poll'.halfDone = poll.halfDone \cup cut
        /\ poll'.watermark = poll.watermark /\ poll'.discovered = poll.discovered
    BY <2>1, <2>2, <2>3, ReleaseTyped DEF PollState
  <2> QED
    BY <1>2, <2>4, <2>5, <2>6, DrainGoesOn
<1> QED
  BY <1>1, <1>2

\* A transaction is done with and nothing was put in quarantine.
LEMMA ReleaseSound ==
    ASSUME IInv, RowsSettle, UNCHANGED state, poll.at \in {"drain", "finish", "evidence"},
           \/ poll.at \in {"drain", "evidence"} /\ poll' = Release
           \/ poll' = [Release EXCEPT !.at = "drain"],
           poll.tx = None \/ ~Mixed(poll.tx), HeldOnly({})
    PROVE  PollSound'
<1>1. poll \in PollState
  BY DEF IInv, PollSound, PollTyped
<1>2. /\ poll' \in PollState /\ poll'.at \in {"drain", "evidence"} /\ poll'.tx = None
      /\ poll'.eligible = poll.eligible /\ poll'.watermark = poll.watermark
      /\ poll'.discovered = poll.discovered /\ poll'.halfDone = poll.halfDone
  BY <1>1, ReleaseTyped DEF PollState
<1>3. \A n \in poll.eligible :
          /\ Ids(n) \subseteq poll.discovered
          /\ \A p \in Ids(n), u \in Txs : rows'[p][u] = "quarantined" => u \in poll.halfDone
  BY NoneHeld DEF HeldOnly, Ids
<1> QED
  BY <1>2, <1>3, DrainGoesOn

\* The transaction at work is a finalized one.
LEMMA FetchedIsKnown ==
    ASSUME IInv, poll.tx # None
    PROVE  /\ poll.tx \in Txs /\ poll.at \in {"drain", "apply", "finish", "evidence"}
           /\ poll \in PollState /\ \A t \in Txs : t # None
<1>1. \A t \in Txs : t # None
  BY LedgerFacts, BudgetsAssumption DEF IInv
<1> QED
  BY <1>1 DEF IInv, PollSound, PollTyped, PollState

LEMMA OrderSlotStep ==
    ASSUME IInv, NEW t \in Txs, OrderSlot(t)
    PROVE  IInv'
<1>1. /\ UNCHANGED <<ledger, state, rows, collected, applied, poll>>
      /\ indexed' \subseteq indexed \cup Pending
  BY DEF OrderSlot
<1>2. RowsSettle /\ HeldOnly({})
  BY <1>1, SameRowsSettle
<1>3. LedgerTyped' /\ RowsTyped' /\ EffectsSound' /\ ScansSound'
  BY <1>1, <1>2, SettleKeeps
<1>4. Due(t) /\ poll.at \in {"drain", "evidence"} /\ poll.tx = None
  BY DueFacts DEF OrderSlot
<1>5. poll' \in PollState
  BY <1>1 DEF IInv, PollSound, PollTyped
<1>6. \A n \in poll.eligible :
          /\ Ids(n) \subseteq poll.discovered
          /\ \A p \in Ids(n), u \in Txs : rows'[p][u] = "quarantined" => u \in poll.halfDone
  BY <1>1, <1>4, NoneHeld
<1> QED
  BY <1>1, <1>2, <1>3, <1>4, <1>5, <1>6, DrainGoesOn DEF IInv

LEMMA TakeStep ==
    ASSUME IInv, NEW t \in Txs, Take(t)
    PROVE  IInv'
<1>1. /\ UNCHANGED <<ledger, state, rows, indexed, collected, applied>>
      /\ Due(t) /\ IndexKnown(t)
      /\ poll' = [poll EXCEPT !.tx = t, !.via = Via(t), !.attempted = @ \cup {t}]
  BY DEF Take, dbVars
<1>2. RowsSettle /\ HeldOnly({})
  BY <1>1, SameRowsSettle
<1>3. LedgerTyped' /\ RowsTyped' /\ EffectsSound' /\ ScansSound'
  BY <1>1, <1>2, SettleKeeps
<1>4. /\ poll.at \in {"drain", "evidence"} /\ poll.tx = None
      /\ SlotOf(t) <= poll.watermark /\ Via(t) \in Namespaces
      /\ poll.at = "drain" => \A p \in Active, u \in Txs : u < t => rows[p][u] # "pending"
  BY <1>1, DueFacts
<1>5. poll \in PollState /\ Txs' = Txs /\ Slot' = Slot /\ t \in Tx
      /\ \A u : (SlotOf(u))' = SlotOf(u)
  BY <1>1, SameLedger, LedgerFacts DEF IInv, PollSound, PollTyped
<1>6. /\ poll' \in PollState /\ poll'.at = poll.at /\ poll'.tx = t
      /\ poll'.eligible = poll.eligible /\ poll'.watermark = poll.watermark
      /\ poll'.discovered = poll.discovered /\ poll'.halfDone = poll.halfDone
  BY <1>1, <1>4, <1>5 DEF PollState
<1>7. PollTyped'
  BY <1>4, <1>5, <1>6 DEF PollTyped, PollState
<1>8. ScanAttests'
  BY <1>1, <1>4, <1>6 DEF IInv, PollSound, ScanAttests
<1>9. EligibleSound'
  <2>1. \A n \in poll.eligible :
            /\ Ids(n) \subseteq poll.discovered
            /\ \A p \in Ids(n), u \in Txs : rows'[p][u] = "quarantined" => u \in poll.halfDone
    BY <1>1, <1>4, NoneHeld
  <2> QED
    BY <1>5, <1>6, <2>1 DEF EligibleSound, Ids
<1>10. AtWork'
  <2>1. Active' = Active
    BY <1>6 DEF Active
  <2>2. poll.at # "evidence" => \A p \in Active, u \in Txs : u < t => rows[p][u] # "pending"
    BY <1>4
  <2>3. (SlotOf(poll.tx))' <= poll'.watermark
    BY <1>1, <1>4, <1>6 DEF SlotOf
  <2> QED
    BY <1>1, <1>4, <1>5, <1>6, <2>1, <2>2, <2>3 DEF AtWork
<1> QED
  BY <1>3, <1>7, <1>8, <1>9, <1>10 DEF IInv, PollSound

LEMMA TakeFinishedStep ==
    ASSUME IInv, NEW t \in Txs, TakeFinished(t)
    PROVE  IInv'
<1>1. /\ UNCHANGED <<ledger, state, indexed, collected, applied>>
      /\ Due(t) /\ poll.at = "drain" /\ Settled(t) /\ FinishGlobal(t, NewStatus(t))
      /\ IF Quarantined(t) THEN Block(Via(t)) \/ Retain(t, Via(t)) ELSE poll' = Release
  BY DEF TakeFinished, Stop
<1>2. /\ NewStatus(t) = IF Quarantined(t) THEN "quarantined" ELSE "processed"
      /\ Quarantined(t) \/ Completed(t)
  BY <1>1 DEF NewStatus, Settled
<1>3. Completed(t) => t \in applied \/ ledger[t].kind = "failed"
  BY DEF Completed, IInv, EffectsSound, FinishedIsApplied
<1>4. PICK status : status = NewStatus(t)
  OBVIOUS
<1>5. /\ RowsSettle
      /\ HeldOnly({t}) /\ (~Quarantined(t) => HeldOnly({}))
  BY <1>1, <1>2, <1>3, <1>4, FinishSettles
<1>6. PollSound'
  <2>1. CASE Quarantined(t)
    <3>1. poll.tx = None
      BY <1>1, DueFacts
    <3> QED
      BY <1>1, <1>5, <2>1, <3>1, BlockSound, RetainSound
  <2>2. CASE ~Quarantined(t)
    <3>1. poll.tx = None /\ poll' = Release
      BY <1>1, <2>2, DueFacts
    <3> QED
      BY <1>1, <1>5, <2>2, <3>1, ReleaseSound
  <2> QED
    BY <2>1, <2>2
<1> QED
  BY <1>1, <1>5, <1>6, SettleKeeps DEF IInv

\* A step that only takes a namespace out of the drain.
LEMMA BlockStep ==
    ASSUME IInv, NEW n, Block(n), UNCHANGED <<ledger, dbVars>>,
           poll.tx # None \/ poll.at \in {"drain", "evidence"}
    PROVE  IInv'
<1>1. UNCHANGED <<ledger, state, rows, indexed, collected, applied>>
  BY DEF dbVars
<1>2. RowsSettle
  BY <1>1, SameRowsSettle
<1>3. poll.at \in {"drain", "apply", "finish", "evidence"}
  BY FetchedIsKnown
<1>4. PollSound'
  BY <1>1, <1>2, <1>3, BlockSound
<1> QED
  BY <1>1, <1>2, <1>4, SettleKeeps DEF IInv

LEMMA RetainStep ==
    ASSUME IInv, NEW t \in Txs, NEW n, Retain(t, n), UNCHANGED <<ledger, dbVars>>,
           poll.tx = t \/ (poll.tx = None /\ poll.at \in {"drain", "evidence"})
    PROVE  IInv'
<1>1. UNCHANGED <<ledger, state, rows, indexed, collected, applied>>
  BY DEF dbVars
<1>2. RowsSettle /\ HeldOnly({})
  BY <1>1, SameRowsSettle
<1>3. t # None
  BY LedgerFacts, BudgetsAssumption DEF IInv
<1>4. poll.at \in {"drain", "apply", "finish", "evidence"}
  BY <1>3, FetchedIsKnown
<1>5. PollSound'
  BY <1>1, <1>2, <1>4, RetainSound DEF HeldOnly
<1> QED
  BY <1>1, <1>2, <1>5, SettleKeeps DEF IInv

LEMMA TakeAgainStep ==
    ASSUME IInv, NEW t \in Txs, TakeAgain(t)
    PROVE  IInv'
<1>1. Due(t) /\ Block(Via(t)) /\ UNCHANGED <<ledger, dbVars>>
  BY DEF TakeAgain, dbVars
<1> QED
  BY <1>1, DueFacts, BlockStep

LEMMA NotReadyStep ==
    ASSUME IInv, NEW t \in Txs, NotReady(t)
    PROVE  IInv'
<1>1. poll.at \in {"drain", "evidence"} /\ Block(poll.via) /\ UNCHANGED <<ledger, dbVars>>
  BY DEF NotReady, Fetched, dbVars
<1> QED
  BY <1>1, BlockStep

LEMMA StepFailsStep ==
    ASSUME IInv, NEW t \in Txs, StepFails(t)
    PROVE  IInv'
<1>1. UNCHANGED <<ledger, dbVars>>
  BY DEF StepFails, Fail
<1>2. CASE poll.tx = t /\ Block(poll.via)
  <2>1. t # None
    BY LedgerFacts, BudgetsAssumption DEF IInv
  <2> QED
    BY <1>1, <1>2, <2>1, BlockStep
<1>3. CASE poll.tx = t /\ Retain(t, poll.via)
  BY <1>1, <1>3, RetainStep
<1>4. CASE Due(t) /\ Retain(t, Via(t))
  BY <1>1, <1>4, DueFacts, RetainStep
<1> QED
  BY <1>2, <1>3, <1>4 DEF StepFails

LEMMA QuarantineStep ==
    ASSUME IInv, NEW t \in Txs, Quarantine(t)
    PROVE  IInv'
<1>1. /\ UNCHANGED <<ledger, state, indexed, collected, applied>>
      /\ poll.at \in {"drain", "evidence"} /\ poll.tx = t /\ FinishGlobal(t, "quarantined")
      /\ Block(poll.via) \/ Retain(t, poll.via)
  BY DEF Quarantine, Fetched, Stop
<1>2. RowsSettle /\ HeldOnly({t})
  BY <1>1, FinishSettles
<1>3. PollSound'
  BY <1>1, <1>2, BlockSound, RetainSound
<1> QED
  BY <1>1, <1>2, <1>3, SettleKeeps DEF IInv

\* Until the mixed transaction is dropped, its namespaces may still be in the
\* drain with a row in quarantine: nothing takes effect meanwhile.
LEMMA QuarantineEmittersStep ==
    ASSUME IInv, NEW t \in Txs, QuarantineEmitters(t)
    PROVE  IInv'
<1>1. /\ UNCHANGED <<ledger, state, indexed, collected, applied, poll>>
      /\ poll.at \in {"drain", "evidence"} /\ poll.tx = t /\ Mixed(t)
      /\ rows' = [p \in Programs |-> IF p \in ledger[t].emitters
                                     THEN [rows[p] EXCEPT ![t] = "quarantined"] ELSE rows[p]]
  BY DEF QuarantineEmitters, Fetched
<1>2. /\ Txs' = Txs /\ Slot' = Slot /\ Txs \subseteq Tx /\ rows \in [Programs -> [Tx -> Statuses]]
      /\ \A u : (SlotOf(u))' = SlotOf(u) /\ (Mixed(u))' = Mixed(u)
      /\ t # None
  BY <1>1, SameLedger, LedgerFacts, BudgetsAssumption DEF IInv, RowsTyped
<1>3. \A p \in Programs, u \in Tx :
          rows'[p][u] = IF p \in ledger[t].emitters /\ u = t THEN "quarantined" ELSE rows[p][u]
  BY <1>1, <1>2
<1>4. rows' \in [Programs -> [Tx -> Statuses]]
  <2>1. \A p \in Programs : [rows[p] EXCEPT ![t] = "quarantined"] \in [Tx -> Statuses]
    BY <1>2 DEF Statuses
  <2> QED
    BY <1>1, <1>2, <2>1
<1>5. indexed' \cup collected' \subseteq {r \in Programs \X Tx : rows'[r[1]][r[2]] # "absent"}
  <2>1. \A r \in Programs \X Tx : rows[r[1]][r[2]] # "absent" => rows'[r[1]][r[2]] # "absent"
    BY <1>3
  <2> QED
    BY <1>1, <2>1 DEF IInv, RowsTyped
<1>6. RowsSettle
  BY <1>1, <1>2, <1>3, <1>4, <1>5 DEF RowsSettle
<1>7. PollTyped'
  BY <1>1, <1>2 DEF IInv, PollSound, PollTyped, PollState, Idle
<1>8. ScanAttests'
  BY <1>1 DEF IInv, PollSound, ScanAttests
<1>9. EligibleSound'
  <2>1. \A p \in Programs, u \in Txs :
            rows'[p][u] = "quarantined" => rows[p][u] = "quarantined" \/ u = t
    BY <1>2, <1>3
  <2>2. \A n \in poll.eligible : \A p \in Ids(n) : p \in Programs
    BY DEF Ids
  <2>3. \A n \in poll.eligible : \A p \in Ids(n), u \in Txs :
            rows'[p][u] = "quarantined" => u \in poll.halfDone \/ (u = t /\ Mixed(u))
    BY <1>1, <2>1, <2>2 DEF IInv, PollSound, EligibleSound
  <2>4. \A n \in poll.eligible : Ids(n) \subseteq poll.discovered
    BY DEF IInv, PollSound, EligibleSound
  <2> QED
    BY <1>1, <1>2, <2>3, <2>4 DEF EligibleSound, Ids
<1>10. AtWork'
  <2>1. Active' = Active /\ Active \subseteq Programs
    BY <1>1 DEF Active
  <2>2. \A p \in Programs, u \in Txs : rows'[p][u] = "pending" => rows[p][u] = "pending"
    BY <1>2, <1>3
  <2>3. (SlotOf(poll.tx))' = SlotOf(poll.tx)
    BY <1>1 DEF SlotOf
  <2> QED
    BY <1>1, <1>2, <2>1, <2>2, <2>3 DEF IInv, PollSound, AtWork
<1> QED
  BY <1>1, <1>6, <1>7, <1>8, <1>9, <1>10, SettleKeeps DEF IInv, PollSound

LEMMA CollectStep ==
    ASSUME IInv, NEW t \in Txs, Collect(t)
    PROVE  IInv'
<1>1. /\ UNCHANGED <<ledger, state, rows, indexed, applied>>
      /\ poll.at \in {"drain", "evidence"} /\ poll.tx = t
      /\ ledger[t].kind = "complete" /\ ~Mixed(t)
      /\ poll.at = "drain" => EventNamespaces(t) \subseteq poll.eligible
      /\ collected' \subseteq collected \cup Pending
      /\ poll' = IF poll.at = "drain" THEN [poll EXCEPT !.at = "apply"] ELSE Release
  BY DEF Collect, Fetched, Ready
<1>2. RowsSettle /\ HeldOnly({})
  BY <1>1, SameRowsSettle
<1>3. PollSound'
  <2>1. CASE poll.at = "evidence"
    BY <1>1, <1>2, <2>1, ReleaseSound
  <2>2. CASE poll.at = "drain"
    <3>1. /\ poll \in PollState /\ Txs' = Txs /\ Slot' = Slot /\ t # None
          /\ \A u : /\ (SlotOf(u))' = SlotOf(u) /\ (Mixed(u))' = Mixed(u)
                    /\ (EventNamespaces(u))' = EventNamespaces(u)
      BY <1>1, SameLedger, LedgerFacts, BudgetsAssumption DEF IInv, PollSound, PollTyped
    <3>2. /\ poll' \in PollState /\ poll'.at = "apply" /\ poll'.tx = t
          /\ poll'.eligible = poll.eligible /\ poll'.watermark = poll.watermark
          /\ poll'.discovered = poll.discovered /\ poll'.halfDone = poll.halfDone
      BY <1>1, <2>2, <3>1 DEF PollState
    <3>3. PollTyped'
      BY <3>1, <3>2 DEF PollTyped, PollState
    <3>4. ScanAttests'
      BY <1>1, <3>2 DEF IInv, PollSound, ScanAttests
    <3>5. EligibleSound'
      <4>1. \A n \in poll.eligible :
                /\ Ids(n) \subseteq poll.discovered
                /\ \A p \in Ids(n), u \in Txs : rows'[p][u] = "quarantined" => u \in poll.halfDone
        BY <1>1, NoneHeld
      <4> QED
        BY <3>1, <3>2, <4>1 DEF EligibleSound, Ids
    <3>6. AtWork'
      <4>1. /\ SlotOf(t) <= poll.watermark
            /\ \A p \in Active, u \in Txs : u < t => rows[p][u] # "pending"
        BY <1>1, <2>2, <3>1 DEF IInv, PollSound, AtWork
      <4>2. Active' = Active
        BY <3>2 DEF Active
      <4>3. /\ (SlotOf(poll.tx))' = SlotOf(t) /\ (Mixed(poll.tx))' = Mixed(t)
            /\ (EventNamespaces(poll.tx))' = EventNamespaces(t)
        BY <1>1, <3>2 DEF SlotOf, Mixed, EventNamespaces
      <4> QED
        BY <1>1, <2>2, <3>1, <3>2, <4>1, <4>2, <4>3 DEF AtWork
    <3> QED
      BY <3>3, <3>4, <3>5, <3>6 DEF PollSound
  <2> QED
    BY <1>1, <2>1, <2>2
<1> QED
  BY <1>1, <1>2, <1>3, SettleKeeps DEF IInv

\* Before the transaction at work, its namespaces are finished with all of
\* theirs: discovered through the watermark, none pending, none in quarantine
\* but what an error cut short in this poll.
LEMMA NothingBefore ==
    ASSUME IInv, poll.at = "apply", NEW u \in Txs, u < poll.tx,
           Mentioned(u) \cap EventNamespaces(poll.tx) # {}
    PROVE  u \in applied \/ ledger[u].kind = "failed" \/ u \in poll.halfDone
<1>1. PICK t : t = poll.tx
  OBVIOUS
<1>2. /\ t \in Txs /\ poll.tx # None /\ ~Mixed(t) /\ EventNamespaces(t) \subseteq poll.eligible
      /\ SlotOf(t) <= poll.watermark
      /\ \A p \in Active, x \in Txs : x < t => rows[p][x] # "pending"
  BY <1>1, FetchedIsKnown DEF IInv, PollSound, PollTyped, AtWork
<1>3. ledger[u].programs \subseteq Programs
  BY LedgerFacts DEF IInv, Transaction
<1>4. PICK p \in ledger[u].programs : Namespace[p] \in EventNamespaces(t)
  BY <1>1 DEF Mentioned
<1>5. p \in Programs /\ p \in Ids(Namespace[p]) /\ Namespace[p] \in poll.eligible
  BY <1>2, <1>3, <1>4 DEF Ids
<1>6. /\ p \in poll.discovered /\ p \in Active
      /\ rows[p][u] = "quarantined" => u \in poll.halfDone
  BY <1>1, <1>2, <1>5, NoneHeld DEF Active
<1>7. rows[p][u] # "absent"
  <2>1. state[p].finalized_through # None /\ state[p].finalized_through >= poll.watermark
    BY <1>6 DEF IInv, PollSound, ScanAttests
  <2>2. state[p].finalized_through \in Nat /\ poll.watermark \in Nat
    BY <1>5, <2>1, LedgerFacts
       DEF IInv, ScansSound, Scanned, ProgramState, PollSound, PollTyped, PollState
  <2>3. SlotOf(u) <= SlotOf(t) /\ SlotOf(u) \in Nat /\ SlotOf(t) \in Nat
    BY <1>1, <1>2, LedgerFacts DEF IInv, LedgerTyped
  <2>4. SlotOf(u) <= state[p].finalized_through
    BY <1>2, <2>1, <2>2, <2>3
  <2> QED
    BY <1>4, <1>5, <2>1, <2>4 DEF IInv, ScansSound, AttestedIsDiscovered
<1>8. rows[p][u] # "pending"
  BY <1>1, <1>2, <1>6
<1>9. rows[p][u] \in Statuses
  BY <1>5, LedgerFacts DEF IInv, RowsTyped
<1>10. rows[p][u] = "processed" \/ u \in poll.halfDone
  BY <1>6, <1>7, <1>8, <1>9 DEF Statuses
<1> QED
  BY <1>5, <1>10 DEF IInv, EffectsSound, FinishedIsApplied

LEMMA ApplyStep ==
    ASSUME IInv, ApplyEffects
    PROVE  IInv'
<1>1. PICK t : t = poll.tx
  OBVIOUS
<1>2. /\ poll.at = "apply" /\ applied' = applied \cup {t}
      /\ poll' = [poll EXCEPT !.at = "finish"]
      /\ UNCHANGED <<ledger, state, rows, indexed, collected>>
  BY <1>1 DEF ApplyEffects
<1>3. /\ t \in Txs /\ t # None /\ poll \in PollState
      /\ ledger[t].kind = "complete" /\ ~Mixed(t) /\ EventNamespaces(t) \subseteq poll.eligible
  BY <1>1, <1>2, FetchedIsKnown DEF IInv, PollSound, PollTyped, AtWork
<1>4. /\ Txs' = Txs /\ Slot' = Slot /\ LedgerTyped' /\ Txs \subseteq Tx
      /\ \A u : /\ (SlotOf(u))' = SlotOf(u) /\ (Mixed(u))' = Mixed(u)
                /\ (Mentioned(u))' = Mentioned(u)
                /\ (EventNamespaces(u))' = EventNamespaces(u)
  BY <1>2, SameLedger, LedgerFacts DEF IInv
<1>5. RowsTyped'
  BY <1>2, <1>3, <1>4 DEF IInv, RowsTyped
<1>6. ScansSound'
  BY <1>2, <1>4 DEF IInv, ScansSound, Scanned, QueuedBetween, AttestedIsDiscovered
<1>7. EffectsSound'
  <2>1. \A u \in applied' : ledger'[u].kind = "complete" /\ ~(Mixed(u))'
    BY <1>2, <1>3, <1>4 DEF IInv, EffectsSound
  <2>2. FinishedIsApplied'
    BY <1>2, <1>4 DEF IInv, EffectsSound, FinishedIsApplied
  <2> QED
    BY <2>1, <2>2 DEF EffectsSound
<1>8. /\ poll' \in PollState /\ poll'.at = "finish" /\ poll'.tx = t
      /\ poll'.eligible = poll.eligible /\ poll'.watermark = poll.watermark
      /\ poll'.discovered = poll.discovered /\ poll'.halfDone = poll.halfDone
  BY <1>1, <1>2, <1>3 DEF PollState
<1>9. PollTyped'
  BY <1>3, <1>4, <1>8 DEF PollTyped, PollState
<1>10. ScanAttests'
  BY <1>2, <1>8 DEF IInv, PollSound, ScanAttests
<1>11. EligibleSound'
  <2>1. \A n \in poll.eligible :
            /\ Ids(n) \subseteq poll.discovered
            /\ \A p \in Ids(n), u \in Txs : rows'[p][u] = "quarantined" => u \in poll.halfDone
    BY <1>1, <1>2, <1>3, NoneHeld
  <2> QED
    BY <1>4, <1>8, <2>1 DEF EligibleSound, Ids
<1>12. AtWork'
  <2>1. /\ SlotOf(t) <= poll.watermark
        /\ \A p \in Active, u \in Txs : u < t => rows[p][u] # "pending"
    BY <1>1, <1>2, <1>3 DEF IInv, PollSound, AtWork
  <2>2. Active' = Active
    BY <1>8 DEF Active
  <2>3. /\ (SlotOf(poll.tx))' = SlotOf(t) /\ (Mixed(poll.tx))' = Mixed(t)
        /\ (EventNamespaces(poll.tx))' = EventNamespaces(t)
    BY <1>2, <1>8 DEF SlotOf, Mixed, EventNamespaces
  <2> QED
    BY <1>2, <1>3, <1>4, <1>8, <2>1, <2>2, <2>3 DEF AtWork
<1> QED
  BY <1>4, <1>5, <1>6, <1>7, <1>9, <1>10, <1>11, <1>12 DEF IInv, PollSound

\* Only the transaction at work takes effect, with nothing before it left out.
LEMMA StepInOrder ==
    ASSUME IInv, [Next]_vars, NEW t \in applied' \ applied, NEW u \in Txs, u < t,
           Mentioned(u) \cap EventNamespaces(t) # {}
    PROVE  \/ /\ ledger[u].kind # "truncated" /\ ~Mixed(u)
              /\ u \in applied \/ ledger[u].kind = "failed"
           \/ u \in poll.halfDone
<1>1. ApplyEffects
  <2>1. applied' # applied
    OBVIOUS
  <2> QED
    BY <2>1 DEF Next, vars, dbVars, Poll, FinalizeSlot, StartPoll, ScanPage, MarkVerifiedThrough,
        ChooseEligible, OrderSlot, Take, TakeFinished, TakeAgain, Quarantine, QuarantineEmitters,
        NotReady, Collect, Finish, EndDrain, Crash, ScanFails, StepFails, Fail
<1>2. poll.at = "apply" /\ t = poll.tx
  BY <1>1 DEF ApplyEffects
<1>3. u \in applied \/ ledger[u].kind = "failed" \/ u \in poll.halfDone
  BY <1>2, NothingBefore
<1>4. CASE u \in applied
  BY <1>4 DEF IInv, EffectsSound
<1>5. CASE ledger[u].kind = "failed"
  BY <1>5, FailedIsNotMixed DEF IInv
<1> QED
  BY <1>3, <1>4, <1>5

LEMMA FinishStep ==
    ASSUME IInv, Finish
    PROVE  IInv'
<1>1. PICK t : t = poll.tx
  OBVIOUS
<1>2. /\ poll.at = "finish" /\ FinishGlobal(t, "processed") /\ poll' = [Release EXCEPT !.at = "drain"]
      /\ UNCHANGED <<ledger, state, indexed, collected, applied>>
  BY <1>1 DEF Finish
<1>3. t \in Txs /\ t \in applied /\ ~Mixed(t)
  BY <1>1, <1>2, FetchedIsKnown DEF IInv, PollSound, PollTyped, AtWork
<1>4. RowsSettle /\ HeldOnly({})
  BY <1>2, <1>3, FinishSettles
<1>5. PollSound'
  BY <1>1, <1>2, <1>3, <1>4, ReleaseSound
<1> QED
  BY <1>2, <1>4, <1>5, SettleKeeps DEF IInv

LEMMA EndDrainStep ==
    ASSUME IInv, EndDrain
    PROVE  IInv'
<1>1. /\ UNCHANGED <<ledger, state, rows, indexed, collected, applied>>
      /\ poll.at \in {"drain", "evidence"} /\ poll.tx = None
      /\ \/ poll' = [poll EXCEPT !.at = "evidence", !.budget = SignaturesPerPoll]
         \/ poll' = Idle
  BY DEF EndDrain, dbVars
<1>2. RowsSettle /\ HeldOnly({})
  BY <1>1, SameRowsSettle
<1>3. LedgerTyped' /\ RowsTyped' /\ EffectsSound' /\ ScansSound' /\ Slot' \in Nat
  BY <1>1, <1>2, SettleKeeps
<1>4. CASE poll' = [poll EXCEPT !.at = "evidence", !.budget = SignaturesPerPoll]
  <2>1. poll \in PollState /\ SignaturesPerPoll \in Int
    BY BudgetsAssumption DEF IInv, PollSound, PollTyped
  <2>2. /\ poll' \in PollState /\ poll'.at = "evidence" /\ poll'.tx = None
        /\ poll'.eligible = poll.eligible /\ poll'.watermark = poll.watermark
        /\ poll'.discovered = poll.discovered /\ poll'.halfDone = poll.halfDone
    BY <1>1, <1>4, <2>1 DEF PollState
  <2>3. \A n \in poll.eligible :
            /\ Ids(n) \subseteq poll.discovered
            /\ \A p \in Ids(n), u \in Txs : rows'[p][u] = "quarantined" => u \in poll.halfDone
    BY <1>1, NoneHeld
  <2> QED
    BY <1>1, <1>2, <1>3, <2>2, <2>3, DrainGoesOn DEF IInv
<1> QED
  BY <1>1, <1>3, <1>4, IdleIsSound DEF IInv

LEMMA FaultStep ==
    ASSUME IInv, Crash \/ ScanFails
    PROVE  IInv'
<1>1. UNCHANGED <<ledger, state, rows, indexed, collected, applied>>
  BY DEF Crash, ScanFails, Fail, dbVars
<1>2. RowsSettle
  BY <1>1, SameRowsSettle
<1>3. LedgerTyped' /\ RowsTyped' /\ EffectsSound' /\ ScansSound' /\ Slot' \in Nat
  BY <1>1, <1>2, SettleKeeps
<1>4. CASE poll' = Idle
  BY <1>3, <1>4, IdleIsSound DEF IInv
<1>5. CASE poll.at = "scan" /\ NextProgram({})
  <2>1. \A p \in Programs : state[p].finalized_through # None => state[p].finalized_through \in Nat
    BY DEF IInv, ScansSound, Scanned, ProgramState
  <2>2. \A p \in Programs : state[p].finalized_through # None =>
            /\ state'[p].finalized_through \in Nat
            /\ state'[p].finalized_through >= state[p].finalized_through
    BY <1>1, <2>1
  <2> QED
    BY <1>1, <1>3, <1>5, <2>2, SameLedger, NextProgramSound DEF IInv
<1> QED
  BY <1>4, <1>5 DEF Crash, ScanFails

-----------------------------------------------------------------------------
(* Theorems.                                                               *)

LEMMA InitIInv == Init => IInv
<1> SUFFICES ASSUME Init
             PROVE  IInv
  OBVIOUS
<1>1. /\ ledger = <<>> /\ Len(ledger) = 0 /\ DOMAIN ledger = {} /\ ledger \in Seq(Transaction)
      /\ Slot = 0 /\ Txs = {} /\ MaxTxs \in Nat
  BY BudgetsAssumption DEF Init, Slot, Txs
<1>2. LedgerTyped
  BY <1>1 DEF LedgerTyped
<1>3. RowsTyped /\ EffectsSound
  BY <1>1
     DEF Init, RowsTyped, Statuses, Tx, EffectsSound, FinishedIsApplied
<1>4. ScansSound
  <2>1. \A p \in Programs : Scanned(p)
    BY <1>1 DEF Init, Scanned, ProgramState
  <2>2. AttestedIsDiscovered
    BY DEF Init, AttestedIsDiscovered
  <2> QED
    BY <2>1, <2>2 DEF Init, ScansSound
<1>5. PollSound
  <2>1. PollTyped
    BY <1>1 DEF Init, PollTyped, PollState, Idle
  <2>2. ScanAttests /\ EligibleSound /\ AtWork
    BY DEF Init, Idle, ScanAttests, EligibleSound, AtWork
  <2> QED
    BY <2>1, <2>2 DEF PollSound
<1> QED
  BY <1>2, <1>3, <1>4, <1>5 DEF IInv

LEMMA NextIInv == IInv /\ [Next]_vars => IInv'
<1> SUFFICES ASSUME IInv, [Next]_vars
             PROVE  IInv'
  OBVIOUS
<1>1. CASE FinalizeSlot
  BY <1>1, FinalizeStep
<1>2. CASE Poll
  BY <1>2, StartPollStep, ScanPageStep, MarkStep, ChooseStep, OrderSlotStep, TakeStep,
     TakeFinishedStep, TakeAgainStep, QuarantineStep, QuarantineEmittersStep, NotReadyStep,
     CollectStep, ApplyStep, FinishStep, EndDrainStep DEF Poll
<1>3. CASE Crash \/ ScanFails
  BY <1>3, FaultStep
<1>4. CASE \E t \in Txs : StepFails(t)
  BY <1>4, StepFailsStep
<1>5. CASE UNCHANGED vars
  <2>1. UNCHANGED <<ledger, state, rows, indexed, collected, applied, poll>>
    BY <1>5 DEF vars, dbVars
  <2>2. RowsSettle /\ HeldOnly({})
    BY <2>1, SameRowsSettle
  <2>3. LedgerTyped' /\ RowsTyped' /\ EffectsSound' /\ ScansSound'
    BY <2>1, <2>2, SettleKeeps
  <2>4. PollTyped' /\ ScanAttests'
    BY <2>1, SameLedger DEF IInv, PollSound, PollTyped, PollState, ScanAttests, Idle
  <2>5. EligibleSound' /\ AtWork'
    BY <2>1 DEF IInv, PollSound, EligibleSound, AtWork, Ids, Active, Txs, SlotOf, Mixed,
                EventNamespaces
  <2> QED
    BY <2>3, <2>4, <2>5 DEF IInv, PollSound
<1> QED
  BY <1>1, <1>2, <1>3, <1>4, <1>5 DEF Next

\* Ingestion's bookkeeping holds in every reachable state, for any programs,
\* namespaces, page sizes, transactions and faults.
THEOREM IngestionInvariant == Spec => []IInv
BY InitIInv, NextIInv, PTL DEF Spec

\* Every row is of its shape, and cursors are set together.
THEOREM IngestionTypeCorrect == Spec => []TypeOK
<1>1. IInv => TypeOK
  <2> SUFFICES ASSUME IInv
               PROVE  TypeOK
    OBVIOUS
  <2>1. state \in [Programs -> ProgramState]
    BY DEF IInv, ScansSound, Scanned
  <2>2. \A p \in Programs : state[p].scan_before = None <=> state[p].scan_head = None
    BY DEF IInv, ScansSound, Scanned
  <2>3. /\ poll.tx \in Tx \cup {None} /\ poll.eligible \subseteq Namespaces
        /\ poll.halfDone \subseteq Tx
    BY LedgerFacts DEF IInv, PollSound, PollTyped, PollState
  <2> QED
    BY <2>1, <2>2, <2>3 DEF IInv, LedgerTyped, RowsTyped, Statuses, TypeOK
<1> QED
  BY <1>1, IngestionInvariant, PTL

\* What a program was attested for is in its queue.
THEOREM AttestedAlwaysDiscovered == Spec => []AttestedIsDiscovered
<1>1. IInv => AttestedIsDiscovered
  BY DEF IInv, ScansSound
<1> QED
  BY <1>1, IngestionInvariant, PTL

\* Effects come in the order of the chain; what they can pass is a transaction
\* whose quarantine an error cut short in the same poll.
THEOREM EffectsAlwaysInOrder == Spec => EffectsInOrder
<1> DEFINE InOrder ==
        \A t \in applied' \ applied, u \in Txs :
           (u < t /\ Mentioned(u) \cap EventNamespaces(t) # {}) =>
               \/ /\ ledger[u].kind # "truncated" /\ ~Mixed(u)
                  /\ u \in applied \/ ledger[u].kind = "failed"
               \/ u \in poll.halfDone
<1>1. IInv /\ [Next]_vars => [InOrder]_vars
  BY StepInOrder
<1> HIDE DEF InOrder
<1>2. Spec => [][InOrder]_vars
  BY <1>1, IngestionInvariant, PTL DEF Spec
<1> QED
  BY <1>2 DEF InOrder, EffectsInOrder

\* Nothing is finished before its effects are in.
THEOREM FinishedAlwaysApplied == Spec => []FinishedIsApplied
<1>1. IInv => FinishedIsApplied
  BY DEF IInv, EffectsSound
<1> QED
  BY <1>1, IngestionInvariant, PTL
=============================================================================
