---------------------------- MODULE LookupProofs ---------------------------
(***************************************************************************)
(* What the table setup keeps for any number of packets, retries and       *)
(* faults.  The cluster and the wallet change subs in few ways (Grows), so *)
(* what reads return only grows; the rest is the receipt's bookkeeping.    *)
(***************************************************************************)
EXTENDS LookupTables, TLAPS

Subs == [slot : 1..MaxSlot, creates : BOOLEAN, adds : SUBSET Chunks,
         st : {"inflight", "landed", "shown", "failed", "expired"},
         lost : BOOLEAN, struck : BOOLEAN]

Receipts == [slot : 0..MaxSlot, creation : Signatures, pending : Signatures,
             expected : SUBSET Chunks, confirmed : BOOLEAN]

Runs == [pc : Stages, slot : 0..MaxSlot, create : BOOLEAN, left : SUBSET Chunks,
         cover : SUBSET Chunks, target : Signatures, back : Returns,
         out : Signatures]

\* A submission the receipt must account for.
Good(i) == Stands(i) /\ ~subs[i].lost /\ ~subs[i].struck

Reconciling == run.pc \in {"status", "height", "table"}
InLoop == run.pc \in {"loop", "prompt", "confirm"} \/ (Reconciling /\ run.back = "prompt")
Closing == run.pc \in {"finish", "done"} \/ (Reconciling /\ run.back = "finish")

-----------------------------------------------------------------------------
(* The invariant, in named parts.                                          *)

\* The signatures that the receipt and the run name exist.
KnownSignatures ==
    /\ {receipt.creation, receipt.pending} \subseteq {0} \cup DOMAIN subs
    /\ run.out # 0 => /\ run.pc = "prompt" /\ run.out \in DOMAIN subs
                      /\ \A j \in DOMAIN subs : j <= run.out
                      /\ subs[run.out].lost
                      /\ subs[run.out].slot = run.slot
                      /\ subs[run.out].creates = Packet.creates
                      /\ subs[run.out].adds = Packet.adds

\* The run works on the table its receipt names.
SameTable ==
    /\ run.pc # "idle" => run.slot # 0
    /\ run.pc # "idle" /\ receipt.slot # 0 => receipt.slot = run.slot

\* What is known of the submission a reconciliation asks about, and of the
\* receipt where none is under way.
Asked ==
    /\ run.pc = "idle" => run = Idle
    /\ run.pc = "exist" => run.create = FALSE /\ run.cover = {}
    /\ Reconciling =>
         /\ run.target # 0
         /\ \/ run.target = receipt.pending /\ run.back # "idle"
            \/ /\ run.target = receipt.creation /\ receipt.pending = 0
               /\ run.pc # "table" /\ run.back = "idle"
         /\ run.back = "prompt" => run.left # {}
    /\ ~Reconciling => run.target = 0 /\ run.back = "idle"
    /\ run.pc = "table" => Landed(receipt.pending)
    /\ run.pc = "prompt" => run.left # {}
    /\ run.pc = "confirm" => receipt.pending # 0
    /\ run.pc \in {"decide", "prompt", "finish"} => receipt.pending = 0
    /\ receipt.confirmed => receipt.pending # 0 /\ Landed(receipt.pending)

\* A receipt without a creation speaks of a table that was seen, and so does a
\* run that does not create one.
SeenOrCreating ==
    /\ receipt.slot # 0 /\ receipt.creation = 0 => Exists(receipt.slot)
    /\ run.pc \notin {"idle", "exist"} /\ ~run.create => Exists(run.slot)
    /\ run.create /\ receipt.slot # 0 => receipt.creation # 0
    /\ run.create /\ receipt.slot = 0 =>
         /\ run.pc \in {"decide", "loop", "prompt"} /\ run.cover = {}
         /\ run.pc # "decide" => run.left = Chunks

\* Everything good is named by the receipt, or already readable.
Accounted ==
    /\ \A i \in DOMAIN subs : Good(i) =>
         /\ receipt.slot = subs[i].slot
         /\ receipt.pending = i \/ subs[i].adds \subseteq Have(subs[i].slot)
    /\ receipt.pending # 0 => subs[receipt.pending].adds \subseteq receipt.expected

\* An extension is good only after its table's creation has landed.
CreatedFirst ==
    \A i \in DOMAIN subs : Good(i) =>
        receipt.creation \in {0, i} \/ Landed(receipt.creation)

\* What is still to be sent was not bought yet, and before the first packet of
\* a new table nothing was.
LeftIsNew == InLoop => \A i \in DOMAIN subs : Good(i) => subs[i].adds \cap run.left = {}
FirstIsFirst == InLoop /\ run.create /\ run.cover = {} => \A i \in DOMAIN subs : ~Good(i)

Covered == Closing => Exists(run.slot) /\ Chunks \subseteq Have(run.slot)

Bookkeeping ==
    /\ KnownSignatures /\ SameTable /\ Asked /\ SeenOrCreating
    /\ ReceiptIsResumable /\ Accounted /\ CreatedFirst
    /\ LeftIsNew /\ FirstIsFirst
    /\ Covered

IInv == TypeOK /\ Bookkeeping /\ PaidTwiceOnlyBlind

-----------------------------------------------------------------------------
(* How submissions change.                                                 *)

\* Nothing that was sent changes its contents, what has landed stays, and
\* nothing becomes good.
Grows ==
    /\ DOMAIN subs \subseteq DOMAIN subs'
    /\ \A i \in DOMAIN subs :
         /\ subs'[i].slot = subs[i].slot /\ subs'[i].creates = subs[i].creates
         /\ subs'[i].adds = subs[i].adds
         /\ Landed(i) => (Landed(i))'
         /\ subs[i].st = "shown" => subs'[i].st = "shown"

NoneBetter == DOMAIN subs' = DOMAIN subs /\ \A i \in DOMAIN subs : (Good(i))' => Good(i)

LEMMA GrowsReads ==
    ASSUME TypeOK, Grows, NEW s
    PROVE  /\ Exists(s) => (Exists(s))'
           /\ Have(s) \subseteq (Have(s))'
<1>1. \A i \in Shown(s) : /\ i \in (Shown(s))' /\ subs'[i].adds = subs[i].adds
                          /\ subs'[i].creates = subs[i].creates
  BY DEF Grows, Shown
<1> QED
  BY <1>1 DEF Exists, Have

LEMMA SameReads ==
    ASSUME UNCHANGED subs
    PROVE  /\ \A s : (Exists(s))' = Exists(s) /\ (Have(s))' = Have(s)
           /\ \A i : (Landed(i))' = Landed(i) /\ (Good(i))' = Good(i)
           /\ (PaidTwiceOnlyBlind)' = PaidTwiceOnlyBlind
           /\ Grows /\ NoneBetter
BY DEF Exists, Have, Shown, Landed, Good, Stands, PaidTwiceOnlyBlind, SamePurchase,
   Grows, NoneBetter

-----------------------------------------------------------------------------
(* Types.                                                                  *)

LEMMA IdleType == Idle \in Runs /\ NoReceipt \in Receipts
BY SetupAssumption DEF Idle, NoReceipt, Runs, Receipts, Stages, Returns, Reads, Signatures

LEMMA SubsTyped ==
    ASSUME TypeOK
    PROVE  /\ subs \in Seq(Subs) /\ DOMAIN subs = 1..Len(subs) /\ Len(subs) \in Nat
           /\ \A i \in DOMAIN subs :
                /\ subs[i] \in Subs /\ subs[i].adds \subseteq Chunks
                /\ i # 0 /\ subs[i].slot # 0
<1>1. subs \in Seq(Subs)
  BY DEF TypeOK, Subs
<1>2. \A i \in DOMAIN subs : subs[i] \in Subs /\ i # 0
  BY <1>1
<1> QED
  BY <1>1, <1>2 DEF Subs

\* One submission is replaced.
LEMMA Updated ==
    ASSUME TypeOK, NEW t \in DOMAIN subs, NEW x \in Subs,
           subs' = [subs EXCEPT ![t] = x]
    PROVE  /\ subs' \in Seq(Subs) /\ DOMAIN subs' = DOMAIN subs /\ Len(subs') = Len(subs)
           /\ subs'[t] = x
           /\ \A i \in DOMAIN subs : i # t => subs'[i] = subs[i]
<1>1. subs \in Seq(Subs) /\ DOMAIN subs = 1..Len(subs) /\ Len(subs) \in Nat
  BY SubsTyped
<1> QED
  BY <1>1

\* Where submissions are left alone, the receipt and the run are all there is.
LEMMA QuietType ==
    ASSUME TypeOK, UNCHANGED <<subs, storage>>,
           latest' \in 0..MaxSlot, faults' \in 0..MaxFaults,
           receipt' \in Receipts, run' \in Runs,
           receipt'.slot = 0 => receipt' = NoReceipt
    PROVE  TypeOK'
BY DEF TypeOK, Receipts, Runs, NoReceipt, Signatures, Chunks, Stages, Returns, Reads

\* The fields that a reconciliation of the run as it is decides.
LEMMA ReconcileReads ==
    ASSUME TypeOK, SameTable, Asked, run.pc \in {"loop", "verify"},
           NEW back \in Returns, Reconcile(run, back)
    PROVE  /\ run' \in Runs
           /\ run'.slot = run.slot /\ run'.create = run.create
           /\ run'.left = run.left /\ run'.cover = run.cover /\ run'.out = run.out
           /\ \/ /\ receipt.pending = 0
                 /\ run'.pc = back /\ run'.target = 0 /\ run'.back = "idle"
              \/ /\ receipt.pending # 0 /\ receipt.slot # 0
                 /\ run'.pc \in {"status", "table"}
                 /\ run'.pc = "table" => receipt.confirmed
                 /\ run'.target = receipt.pending /\ run'.back = back
<1>0. run \in Runs /\ receipt \in Receipts /\ (receipt.slot = 0 => receipt.pending = 0)
  BY DEF TypeOK, Runs, Receipts, NoReceipt
<1>1. run.target = 0 /\ run.back = "idle" /\ (receipt.slot # 0 => receipt.slot = run.slot)
  BY DEF Asked, SameTable, Reconciling
<1>2. CASE receipt.pending = 0
  <2>1. run' = [run EXCEPT !.pc = back]
    BY <1>2 DEF Reconcile
  <2> QED
    BY <2>1, <1>0, <1>1, <1>2 DEF Runs, Stages
<1>3. CASE receipt.pending # 0
  <2>1. run' = [run EXCEPT !.pc = IF receipt.confirmed THEN "table" ELSE "status",
                           !.target = receipt.pending, !.back = back]
    BY <1>0, <1>1, <1>3 DEF Reconcile
  <2> QED
    BY <2>1, <1>0, <1>3 DEF Runs, Stages, Reads, Receipts
<1> QED
  BY <1>2, <1>3

-----------------------------------------------------------------------------
(* Three ways a step leaves the bookkeeping in order.                      *)

\* A run ends and the receipt stays.
LEMMA Stopped ==
    ASSUME IInv, Stop, UNCHANGED receipt, Grows, NoneBetter
    PROVE  Bookkeeping'
<1> USE DEF IInv, Stop, Idle, Reconciling
<1>1. /\ \A s : Exists(s) => (Exists(s))'
      /\ \A s : Have(s) \subseteq (Have(s))'
      /\ \A i \in DOMAIN subs : Landed(i) => (Landed(i))'
  BY GrowsReads DEF Grows
<1>2. DOMAIN subs' = DOMAIN subs /\ \A i \in DOMAIN subs : (Good(i))' => Good(i)
  BY DEF NoneBetter
<1>3. \A i \in DOMAIN subs : subs'[i].slot = subs[i].slot /\ subs'[i].adds = subs[i].adds
  BY DEF Grows
<1> USE DEF Bookkeeping
<1>4. KnownSignatures' /\ SameTable' /\ LeftIsNew' /\ FirstIsFirst' /\ Covered'
  BY <1>2 DEF KnownSignatures, SameTable, LeftIsNew, FirstIsFirst, Covered,
     InLoop, Closing
<1>5. receipt.pending \in {0} \cup DOMAIN subs /\ receipt.creation \in {0} \cup DOMAIN subs
  BY DEF KnownSignatures
<1>6. Asked' /\ ReceiptIsResumable' /\ CreatedFirst'
  BY <1>1, <1>2, <1>5 DEF Asked, ReceiptIsResumable, CreatedFirst
<1>7. SeenOrCreating'
  BY <1>1 DEF SeenOrCreating
<1>8. Accounted'
  BY <1>1, <1>2, <1>3, <1>5 DEF Accounted
<1> QED
  BY <1>4, <1>6, <1>7, <1>8

\* A submission that came to nothing is struck off the receipt, and the
\* creation is struck off with its table only if nothing else is left of it.
LEMMA Forgotten ==
    ASSUME IInv, Stop, Grows, NoneBetter,
           NEW t, t # 0, t \in {receipt.creation, receipt.pending},
           receipt' = Forget(t), ~(Good(t))',
           t = receipt.creation => \A i \in DOMAIN subs : ~(Good(i))'
    PROVE  Bookkeeping' /\ receipt' \in Receipts /\ (receipt'.slot = 0 => receipt' = NoReceipt)
<1> USE DEF IInv, Stop, Idle, Reconciling
<1>1. /\ \A s : Exists(s) => (Exists(s))'
      /\ \A s : Have(s) \subseteq (Have(s))'
      /\ \A i \in DOMAIN subs : Landed(i) => (Landed(i))'
  BY GrowsReads DEF Grows
<1>2. DOMAIN subs' = DOMAIN subs /\ \A i \in DOMAIN subs : (Good(i))' => Good(i)
  BY DEF NoneBetter
<1>3. \A i \in DOMAIN subs : subs'[i].slot = subs[i].slot /\ subs'[i].adds = subs[i].adds
  BY DEF Grows
<1>4. receipt \in Receipts /\ (receipt.slot = 0 => receipt = NoReceipt)
  BY DEF TypeOK, Receipts
<1>5. \/ /\ t = receipt.creation /\ receipt' = NoReceipt
         /\ \A i \in DOMAIN subs' : ~(Good(i))'
      \/ /\ t # receipt.creation /\ t = receipt.pending /\ receipt.slot # 0
         /\ receipt'.slot = receipt.slot /\ receipt'.creation = receipt.creation
         /\ receipt'.pending = 0 /\ receipt'.confirmed = FALSE /\ receipt' \in Receipts
  <2>1. CASE t = receipt.creation
    BY <1>2, <2>1 DEF Forget
  <2>2. CASE t # receipt.creation
    <3>1. receipt' = [receipt EXCEPT !.pending = 0, !.expected = {}, !.confirmed = FALSE]
      BY <2>2 DEF Forget
    <3>2. t = receipt.pending /\ receipt.slot # 0
      BY <1>4, <2>2 DEF NoReceipt
    <3>3. 0 \in Signatures
      BY SetupAssumption DEF Signatures
    <3> QED
      BY <3>1, <3>2, <3>3, <1>4, <2>2 DEF Receipts
  <2> QED
    BY <2>1, <2>2
<1> USE DEF Bookkeeping
<1>6. KnownSignatures' /\ SameTable' /\ LeftIsNew' /\ FirstIsFirst' /\ Covered'
  BY <1>2, <1>5 DEF KnownSignatures, SameTable, LeftIsNew, FirstIsFirst, Covered,
     InLoop, Closing, NoReceipt
<1>7. receipt.pending \in {0} \cup DOMAIN subs /\ receipt.creation \in {0} \cup DOMAIN subs
  BY DEF KnownSignatures
<1>8. Asked' /\ ReceiptIsResumable' /\ CreatedFirst'
  BY <1>1, <1>2, <1>5, <1>7 DEF Asked, ReceiptIsResumable, CreatedFirst, NoReceipt
<1>9. SeenOrCreating'
  BY <1>1, <1>5 DEF SeenOrCreating, NoReceipt
<1>10. Accounted'
  BY <1>1, <1>2, <1>3, <1>5, <1>7 DEF Accounted, NoReceipt
<1> QED
  BY <1>5, <1>6, <1>8, <1>9, <1>10, IdleType

\* A reconciliation starts, or has nothing to ask.
LEMMA Reconciled ==
    ASSUME IInv, UNCHANGED <<subs, receipt>>,
           NEW back \in {"prompt", "finish"}, Reconcile(run, back),
           \/ run.pc = "loop" /\ run.left # {} /\ back = "prompt"
           \/ run.pc = "verify" /\ Covers(run.slot, Chunks) /\ back = "finish"
    PROVE  Bookkeeping' /\ run' \in Runs
<1> USE DEF IInv
<1>1. /\ \A s : (Exists(s))' = Exists(s) /\ (Have(s))' = Have(s)
      /\ \A i : (Landed(i))' = Landed(i) /\ (Good(i))' = Good(i)
  BY SameReads
<1>2. /\ run' \in Runs
      /\ run'.slot = run.slot /\ run'.create = run.create
      /\ run'.left = run.left /\ run'.cover = run.cover /\ run'.out = run.out
      /\ \/ /\ receipt.pending = 0
            /\ run'.pc = back /\ run'.target = 0 /\ run'.back = "idle"
         \/ /\ receipt.pending # 0 /\ receipt.slot # 0
            /\ run'.pc \in {"status", "table"}
            /\ run'.pc = "table" => receipt.confirmed
            /\ run'.target = receipt.pending /\ run'.back = back
  BY ReconcileReads DEF Bookkeeping, Returns
<1>3. KnownSignatures'
  BY <1>2 DEF Bookkeeping, KnownSignatures
<1>4. SameTable' /\ SeenOrCreating'
  BY <1>1, <1>2 DEF Bookkeeping, SameTable, SeenOrCreating
<1>5. Asked'
  BY <1>1, <1>2 DEF Bookkeeping, Asked, Reconciling
<1>6. ReceiptIsResumable' /\ Accounted' /\ CreatedFirst'
  BY <1>1 DEF Bookkeeping, ReceiptIsResumable, Accounted, CreatedFirst
<1>7. LeftIsNew' /\ FirstIsFirst'
  BY <1>1, <1>2 DEF Bookkeeping, LeftIsNew, FirstIsFirst, InLoop,
     Reconciling
<1>8. Covered'
  BY <1>1, <1>2 DEF Covered, Closing, Reconciling, Covers
<1> QED
  BY <1>2, <1>3, <1>4, <1>5, <1>6, <1>7, <1>8 DEF Bookkeeping

-----------------------------------------------------------------------------
(* The steps of the preparation that only read.                            *)

LEMMA StartStep ==
    ASSUME IInv, Start
    PROVE  IInv'
<1> USE SetupAssumption DEF IInv
<1>1. /\ UNCHANGED <<subs, receipt, storage, faults>> /\ latest' \in 0..MaxSlot
      /\ \E s \in 1..MaxSlot : /\ run' = [Idle EXCEPT !.pc = "exist", !.slot = s]
                               /\ receipt.slot \in {0, s}
  <2>1. CASE receipt.slot # 0
    <3>1. receipt.slot \in 1..MaxSlot /\ latest \in 0..MaxSlot
      BY <2>1 DEF TypeOK
    <3> QED
      BY <2>1, <3>1 DEF Start
  <2>2. CASE receipt.slot = 0
    <3>1. latest + 1 \in 1..MaxSlot /\ latest' = latest + 1
          /\ run' = [Idle EXCEPT !.pc = "exist", !.slot = latest + 1]
      BY <2>2 DEF Start, TypeOK
    <3>2. UNCHANGED <<subs, receipt, storage, faults>>
      BY DEF Start
    <3>3. latest' \in 0..MaxSlot
      BY <3>1
    <3> QED
      BY <2>2, <3>1, <3>2, <3>3
  <2> QED
    BY <2>1, <2>2
<1>2. PICK s \in 1..MaxSlot : /\ run' = [Idle EXCEPT !.pc = "exist", !.slot = s]
                              /\ receipt.slot \in {0, s}
  BY <1>1
<1>3. /\ run' \in Runs /\ run'.pc = "exist" /\ run'.slot = s /\ run'.create = FALSE
      /\ run'.cover = {} /\ run'.target = 0 /\ run'.back = "idle" /\ run'.out = 0
  <2>1. run' = [pc |-> "exist", slot |-> s, create |-> FALSE, left |-> {}, cover |-> {},
                target |-> 0, back |-> "idle", out |-> 0]
    BY <1>2 DEF Idle
  <2>2. 0 \in Signatures /\ s \in 0..MaxSlot /\ "idle" \in Returns /\ "exist" \in Stages
    BY DEF Signatures, Stages, Returns, Reads
  <2> QED
    BY <2>1, <2>2 DEF Runs
<1>4. TypeOK'
  BY <1>1, <1>3, QuietType DEF TypeOK, Receipts
<1>5. /\ \A x : (Exists(x))' = Exists(x) /\ (Have(x))' = Have(x)
      /\ \A i : (Landed(i))' = Landed(i) /\ (Good(i))' = Good(i)
      /\ PaidTwiceOnlyBlind'
  BY <1>1, SameReads
<1>6. KnownSignatures' /\ SameTable' /\ Asked' /\ SeenOrCreating'
  BY <1>1, <1>2, <1>3, <1>5 DEF Bookkeeping, KnownSignatures, SameTable, Asked,
     SeenOrCreating, Reconciling, Start
<1>7. ReceiptIsResumable' /\ Accounted' /\ CreatedFirst'
  BY <1>1, <1>5 DEF Bookkeeping, ReceiptIsResumable, Accounted, CreatedFirst
<1>8. LeftIsNew' /\ FirstIsFirst' /\ Covered'
  BY <1>1, <1>3 DEF LeftIsNew, FirstIsFirst, Covered, InLoop, Closing,
     Reconciling
<1> QED
  BY <1>4, <1>5, <1>6, <1>7, <1>8 DEF Bookkeeping

\* An error, whatever it was, leaves the receipt to the next run.
LEMMA StopStep ==
    ASSUME IInv, Stop, UNCHANGED <<subs, receipt, storage>>,
           latest' \in 0..MaxSlot, faults' \in 0..MaxFaults
    PROVE  IInv'
<1>1. Grows /\ NoneBetter
  BY SameReads DEF Grows, NoneBetter
<1>2. Bookkeeping'
  BY <1>1, Stopped
<1>3. TypeOK'
  BY QuietType, IdleType DEF IInv, TypeOK, Receipts, Stop
<1> QED
  BY <1>2, <1>3, SameReads DEF IInv

LEMMA ReadExistenceStep ==
    ASSUME IInv, ReadExistence
    PROVE  IInv'
<1> USE DEF IInv
<1>1. /\ UNCHANGED <<subs, latest, receipt, storage, faults>>
      /\ Reconcile([run EXCEPT !.create = ~Exists(run.slot)], "decide")
      /\ run.pc = "exist" /\ run \in Runs
      /\ run.target = 0 /\ run.back = "idle" /\ run.out = 0 /\ run.cover = {}
      /\ receipt.slot # 0 => receipt.slot = run.slot
      /\ receipt.slot = 0 => receipt.pending = 0
  BY DEF ReadExistence, TypeOK, Runs, NoReceipt, Bookkeeping, Asked, SameTable,
     KnownSignatures, Reconciling
<1>2. /\ run' \in Runs /\ run'.slot = run.slot /\ run'.create = ~Exists(run.slot)
      /\ run'.out = 0 /\ run'.cover = {}
      /\ \/ /\ receipt.pending = 0
            /\ run'.pc = "decide" /\ run'.target = 0 /\ run'.back = "idle"
         \/ /\ receipt.pending # 0 /\ receipt.slot # 0
            /\ run'.pc \in {"status", "table"}
            /\ run'.pc = "table" => receipt.confirmed
            /\ run'.target = receipt.pending /\ run'.back = "decide"
  <2> DEFINE r == [run EXCEPT !.create = ~Exists(run.slot)]
  <2>1. /\ r \in Runs /\ r.slot = run.slot /\ r.create = ~Exists(run.slot) /\ r.out = 0
        /\ r.cover = {}
        /\ r.target = 0 /\ r.back = "idle"
    BY <1>1 DEF Runs, Exists
  <2>2. CASE receipt.pending = 0
    <3>1. run' = [r EXCEPT !.pc = "decide"]
      BY <1>1, <2>2 DEF Reconcile
    <3> QED
      BY <3>1, <2>1, <2>2 DEF Runs, Stages, Returns
  <2>3. CASE receipt.pending # 0
    <3>1. run' = [r EXCEPT !.pc = IF receipt.confirmed THEN "table" ELSE "status",
                           !.target = receipt.pending, !.back = "decide"]
      BY <1>1, <2>1, <2>3 DEF Reconcile
    <3>2. receipt.pending \in Signatures
      BY DEF TypeOK
    <3> HIDE DEF r
    <3> QED
      BY <1>1, <3>1, <3>2, <2>1, <2>3 DEF Runs, Stages, Returns, Reads
  <2> QED
    BY <2>2, <2>3
<1>3. TypeOK'
  BY <1>1, <1>2, QuietType DEF TypeOK, Receipts
<1>4. /\ \A x : (Exists(x))' = Exists(x) /\ (Have(x))' = Have(x)
      /\ \A i : (Landed(i))' = Landed(i) /\ (Good(i))' = Good(i)
      /\ PaidTwiceOnlyBlind'
  BY <1>1, SameReads
<1>5. KnownSignatures' /\ SameTable' /\ Asked'
  BY <1>1, <1>2, <1>4 DEF Bookkeeping, KnownSignatures, SameTable, Asked, Reconciling
<1>6. SeenOrCreating'
  BY <1>1, <1>2, <1>4 DEF Bookkeeping, SeenOrCreating, TypeOK, NoReceipt
<1>7. ReceiptIsResumable' /\ Accounted' /\ CreatedFirst'
  BY <1>1, <1>4 DEF Bookkeeping, ReceiptIsResumable, Accounted, CreatedFirst
<1>8. LeftIsNew' /\ FirstIsFirst' /\ Covered'
  BY <1>1, <1>2 DEF LeftIsNew, FirstIsFirst, Covered, InLoop, Closing,
     Reconciling
<1> QED
  BY <1>3, <1>4, <1>5, <1>6, <1>7, <1>8 DEF Bookkeeping

\* The submission asked about is one of those the receipt names.
LEMMA TargetIsNamed ==
    ASSUME IInv, run.pc \in {"status", "height"}
    PROVE  /\ run.target \in DOMAIN subs /\ run.target # 0
           /\ run.target \in {receipt.creation, receipt.pending}
BY DEF IInv, Bookkeeping, Asked, KnownSignatures, Reconciling

\* A creation that has not landed has nothing else out.
LEMMA CreationFirst ==
    ASSUME IInv, NEW t, t # 0, t = receipt.creation, ~Landed(t)
    PROVE  \A i \in DOMAIN subs : Good(i) => i = t
BY DEF IInv, Bookkeeping, CreatedFirst

LEMMA ReadStatusStep ==
    ASSUME IInv, ReadStatus
    PROVE  IInv'
<1>1. /\ UNCHANGED <<subs, latest, storage>> /\ run.pc = "status"
      /\ latest \in 0..MaxSlot /\ faults' \in 0..MaxFaults
  BY SetupAssumption DEF ReadStatus, IInv, TypeOK, Fault
<1>2. /\ run.target \in DOMAIN subs /\ run.target # 0
      /\ run.target \in {receipt.creation, receipt.pending}
  BY <1>1, TargetIsNamed
<1>3. /\ \A x : (Exists(x))' = Exists(x) /\ (Have(x))' = Have(x)
      /\ \A i : (Landed(i))' = Landed(i) /\ (Good(i))' = Good(i)
      /\ PaidTwiceOnlyBlind'
      /\ Grows /\ NoneBetter
  BY <1>1, SameReads DEF IInv
<1>4. CASE Stop /\ UNCHANGED receipt
  BY <1>1, <1>4, StopStep
<1>5. CASE subs[run.target].st = "failed" /\ receipt' = Forget(run.target) /\ Stop
  <2>1. ~Landed(run.target) /\ ~Good(run.target)
    BY <1>5 DEF Landed, Good, Stands
  <2>2. run.target = receipt.creation => \A i \in DOMAIN subs : ~(Good(i))'
    BY <1>2, <1>3, <2>1, CreationFirst
  <2>3. Bookkeeping' /\ receipt' \in Receipts /\ (receipt'.slot = 0 => receipt' = NoReceipt)
    BY <1>2, <1>3, <1>5, <2>1, <2>2, Forgotten
  <2>4. TypeOK'
    BY <1>1, <1>5, <2>3, QuietType, IdleType DEF IInv, Stop
  <2> QED
    BY <1>3, <2>3, <2>4 DEF IInv
<1>6. CASE /\ UNCHANGED receipt
           /\ \/ run' = [run EXCEPT !.pc = "table"] /\ receipt.pending = run.target
                 /\ Landed(run.target)
              \/ run' = [run EXCEPT !.pc = "height"]
  <2>1. /\ run' \in Runs /\ run'.slot = run.slot /\ run'.create = run.create
        /\ run'.left = run.left /\ run'.cover = run.cover /\ run'.out = run.out
        /\ run'.target = run.target /\ run'.back = run.back
        /\ \/ run'.pc = "table" /\ receipt.pending = run.target /\ Landed(run.target)
           \/ run'.pc = "height"
    BY <1>6 DEF IInv, TypeOK, Runs, Stages, Reads
  <2>2. TypeOK'
    BY <1>1, <1>6, <2>1, QuietType DEF IInv, TypeOK, Receipts
  <2>3. KnownSignatures' /\ SameTable' /\ SeenOrCreating'
    BY <1>1, <1>3, <1>6, <2>1 DEF IInv, Bookkeeping, KnownSignatures, SameTable, SeenOrCreating
  <2>4. Asked'
    BY <1>1, <1>2, <1>3, <1>6, <2>1 DEF IInv, Bookkeeping, Asked, Reconciling
  <2>5. ReceiptIsResumable' /\ Accounted' /\ CreatedFirst'
    BY <1>1, <1>3, <1>6 DEF IInv, Bookkeeping, ReceiptIsResumable, Accounted, CreatedFirst
  <2>7. LeftIsNew' /\ FirstIsFirst' /\ Covered'
    BY <1>1, <1>3, <2>1 DEF IInv, Bookkeeping, LeftIsNew, FirstIsFirst, Covered, InLoop,
       Closing, Reconciling
  <2> QED
    BY <1>3, <2>2, <2>3, <2>4, <2>5, <2>7 DEF IInv, Bookkeeping
<1> QED
  BY <1>4, <1>5, <1>6 DEF ReadStatus, Landed

\* What came to nothing is struck off; what has landed all the same is marked,
\* and with a creation everything its table was bought with.
LEMMA ReadHeightStep ==
    ASSUME IInv, ReadHeight
    PROVE  IInv'
<1>1. /\ UNCHANGED <<latest, storage>> /\ run.pc = "height" /\ Stop
      /\ latest \in 0..MaxSlot /\ faults \in 0..MaxFaults
      /\ faults' \in 0..MaxFaults
  BY SetupAssumption DEF ReadHeight, IInv, TypeOK, Fault
<1>2. PICK t : t = run.target
  OBVIOUS
<1>3. t \in DOMAIN subs /\ t # 0 /\ t \in {receipt.creation, receipt.pending}
  BY <1>1, <1>2, TargetIsNamed
<1>4. CASE UNCHANGED <<receipt, subs, faults>>
  BY <1>1, <1>4, StopStep
<1>5. CASE subs[t].st \in {"expired", "failed"} /\ receipt' = Forget(t)
           /\ UNCHANGED <<subs, faults>>
  <2>1. ~Landed(t) /\ ~Good(t) /\ UNCHANGED subs
    BY <1>5 DEF Landed, Good, Stands
  <2>2. Grows /\ NoneBetter /\ PaidTwiceOnlyBlind'
        /\ \A i : (Good(i))' = Good(i)
    BY <2>1, SameReads DEF IInv
  <2>3. t = receipt.creation => \A i \in DOMAIN subs : ~(Good(i))'
    BY <1>3, <2>1, <2>2, CreationFirst
  <2>4. Bookkeeping' /\ receipt' \in Receipts /\ (receipt'.slot = 0 => receipt' = NoReceipt)
    BY <1>1, <1>3, <1>5, <2>1, <2>2, <2>3, Forgotten
  <2>5. TypeOK'
    BY <1>1, <1>5, <2>4, QuietType, IdleType DEF IInv, Stop
  <2> QED
    BY <2>2, <2>4, <2>5 DEF IInv
<1>6. CASE receipt' = Forget(t) /\ subs' = StruckOff(t)
  <2>1. /\ subs \in Seq(Subs) /\ DOMAIN subs = 1..Len(subs) /\ Len(subs) \in Nat
        /\ \A i \in DOMAIN subs : subs[i] \in Subs
    BY SubsTyped DEF IInv
  <2>2. \A i \in DOMAIN subs :
          /\ subs'[i] = [subs[i] EXCEPT !.struck = @ \/ i = t
                           \/ (receipt.creation = t /\ subs[i].slot = receipt.slot)]
          /\ subs'[i] \in Subs
    BY <1>6, <2>1 DEF StruckOff, Subs
  <2>3. /\ subs' \in Seq(Subs) /\ DOMAIN subs' = DOMAIN subs /\ Len(subs') = Len(subs)
    BY <1>6, <2>1, <2>2 DEF StruckOff
  <2>4. \A i \in DOMAIN subs :
          /\ subs'[i].slot = subs[i].slot /\ subs'[i].creates = subs[i].creates
          /\ subs'[i].adds = subs[i].adds /\ subs'[i].st = subs[i].st
          /\ subs'[i].lost = subs[i].lost
          /\ subs[i].struck => subs'[i].struck
          /\ i = t \/ (receipt.creation = t /\ subs[i].slot = receipt.slot)
               => subs'[i].struck
    <3> SUFFICES ASSUME NEW i \in DOMAIN subs
                 PROVE  /\ subs'[i].slot = subs[i].slot /\ subs'[i].creates = subs[i].creates
                        /\ subs'[i].adds = subs[i].adds /\ subs'[i].st = subs[i].st
                        /\ subs'[i].lost = subs[i].lost
                        /\ subs[i].struck => subs'[i].struck
                        /\ i = t \/ (receipt.creation = t /\ subs[i].slot = receipt.slot)
                              => subs'[i].struck
      OBVIOUS
    <3>1. PICK off \in BOOLEAN :
            off = (subs[i].struck \/ i = t
                   \/ (receipt.creation = t /\ subs[i].slot = receipt.slot))
      OBVIOUS
    <3>2. subs[i] \in Subs /\ subs'[i] = [subs[i] EXCEPT !.struck = off]
      BY <2>1, <2>2, <3>1
    <3>3. /\ subs'[i].slot = subs[i].slot /\ subs'[i].creates = subs[i].creates
          /\ subs'[i].adds = subs[i].adds /\ subs'[i].st = subs[i].st
          /\ subs'[i].lost = subs[i].lost /\ subs'[i].struck = off
      BY <3>2 DEF Subs
    <3> QED
      BY <3>1, <3>3
  <2>5. Grows /\ NoneBetter /\ ~(Good(t))'
    BY <1>3, <2>3, <2>4 DEF Grows, NoneBetter, Good, Stands, Landed
  <2>6. t = receipt.creation => \A i \in DOMAIN subs : ~(Good(i))'
    BY <2>4, <2>5 DEF NoneBetter, Good, IInv, Bookkeeping, Accounted
  <2>7. PaidTwiceOnlyBlind'
    BY <2>3, <2>4 DEF IInv, PaidTwiceOnlyBlind, Stands, Landed, SamePurchase
  <2>8. Bookkeeping' /\ receipt' \in Receipts /\ (receipt'.slot = 0 => receipt' = NoReceipt)
    BY <1>1, <1>3, <1>6, <2>5, <2>6, Forgotten
  <2>9. TypeOK'
    BY <1>1, <2>3, <2>8, IdleType DEF IInv, TypeOK, Subs, Runs, Receipts, Stop
  <2> QED
    BY <2>7, <2>8, <2>9 DEF IInv
<1> QED
  BY <1>2, <1>4, <1>5, <1>6 DEF ReadHeight

\* The pending submission can be read back: what it added is in the table.
LEMMA ReadTableStep ==
    ASSUME IInv, ReadTable
    PROVE  IInv'
<1>1. /\ UNCHANGED <<subs, latest, storage, faults>> /\ run.pc = "table"
      /\ latest \in 0..MaxSlot /\ faults \in 0..MaxFaults
      /\ run.slot = receipt.slot
  <2>1. receipt.slot # 0
    BY DEF ReadTable, IInv, TypeOK, Bookkeeping, Asked, Reconciling, NoReceipt
  <2> QED
    BY <2>1 DEF ReadTable, IInv, TypeOK, Bookkeeping, SameTable
<1>2. /\ \A x : (Exists(x))' = Exists(x) /\ (Have(x))' = Have(x)
      /\ \A i : (Landed(i))' = Landed(i) /\ (Good(i))' = Good(i)
      /\ PaidTwiceOnlyBlind'
  BY <1>1, SameReads DEF IInv
<1>3. CASE Stop /\ UNCHANGED receipt
  BY <1>1, <1>3, StopStep
<1>4. CASE /\ Covers(run.slot, receipt.expected)
           /\ receipt' = [receipt EXCEPT !.pending = 0, !.expected = {}, !.confirmed = FALSE]
           /\ run' = [run EXCEPT !.pc = run.back, !.target = 0, !.back = "idle"]
  <2>1. /\ receipt' \in Receipts /\ receipt'.slot = receipt.slot
        /\ receipt'.creation = receipt.creation /\ receipt'.pending = 0
        /\ receipt'.confirmed = FALSE
    <3>1. receipt \in Receipts /\ 0 \in Signatures
      BY SetupAssumption DEF IInv, TypeOK, Receipts, Signatures
    <3> QED
      BY <1>4, <3>1 DEF Receipts
  <2>2. /\ run' \in Runs /\ run'.slot = run.slot /\ run'.create = run.create
        /\ run'.left = run.left /\ run'.cover = run.cover /\ run'.out = run.out
        /\ run'.target = 0 /\ run'.back = "idle" /\ run'.pc = run.back
    <3>1. run \in Runs /\ 0 \in Signatures
      BY SetupAssumption DEF IInv, TypeOK, Runs, Signatures
    <3> QED
      BY <1>4, <3>1 DEF Runs, Stages, Returns
  <2>3. /\ run.back \in {"decide", "prompt", "finish"}
        /\ receipt.pending # 0 /\ receipt.slot # 0
        /\ run.back = "prompt" => run.left # {}
    BY <1>1, <2>2 DEF IInv, TypeOK, Bookkeeping, Asked, Reconciling, Returns, NoReceipt
  <2>4. TypeOK'
    BY <1>1, <2>1, <2>2, <2>3, QuietType DEF IInv
  <2>5. KnownSignatures' /\ SameTable' /\ SeenOrCreating'
    BY <1>1, <1>2, <2>1, <2>2, <2>3 DEF IInv, Bookkeeping, KnownSignatures, SameTable,
       SeenOrCreating
  <2>6. Asked'
    BY <1>1, <1>2, <2>1, <2>2, <2>3 DEF Asked, Reconciling
  <2>7. ReceiptIsResumable'
    BY <1>1, <1>2, <2>1 DEF IInv, Bookkeeping, ReceiptIsResumable, Asked
  <2>8. Accounted' /\ CreatedFirst'
    BY <1>1, <1>2, <1>4, <2>1 DEF IInv, Bookkeeping, Accounted, CreatedFirst, Covers
  <2>9. LeftIsNew' /\ FirstIsFirst' /\ Covered'
    BY <1>1, <1>2, <2>2, <2>3 DEF IInv, Bookkeeping, LeftIsNew,
       FirstIsFirst, Covered, InLoop, Closing, Reconciling
  <2> QED
    BY <1>2, <2>4, <2>5, <2>6, <2>7, <2>8, <2>9 DEF IInv, Bookkeeping
<1> QED
  BY <1>3, <1>4 DEF ReadTable

\* A receipt without a creation is of a table that was seen, so the second
\* branch is never taken.
LEMMA ResolveCreationStep ==
    ASSUME IInv, ResolveCreation
    PROVE  IInv'
<1>1. /\ UNCHANGED <<subs, latest, storage, faults, receipt>>
      /\ run' = [run EXCEPT !.pc = "status", !.target = receipt.creation]
      /\ run.pc = "decide" /\ receipt.creation # 0 /\ receipt.pending = 0
      /\ run.target = 0 /\ run.back = "idle" /\ run.out = 0
      /\ latest \in 0..MaxSlot /\ faults \in 0..MaxFaults
  BY DEF ResolveCreation, IInv, TypeOK, Bookkeeping, SameTable, SeenOrCreating, Asked,
     Reconciling, KnownSignatures
<1>2. /\ \A x : (Exists(x))' = Exists(x) /\ (Have(x))' = Have(x)
      /\ \A i : (Landed(i))' = Landed(i) /\ (Good(i))' = Good(i)
      /\ PaidTwiceOnlyBlind'
  BY <1>1, SameReads DEF IInv
<1>3. /\ run' \in Runs /\ run'.pc = "status" /\ run'.target = receipt.creation
      /\ run'.slot = run.slot /\ run'.create = run.create /\ run'.out = 0
      /\ run'.back = "idle"
  BY <1>1 DEF IInv, TypeOK, Runs, Stages, Reads
<1>4. TypeOK'
  BY <1>1, <1>3, QuietType DEF IInv, TypeOK, Receipts
<1>5. KnownSignatures' /\ SameTable' /\ SeenOrCreating' /\ Asked'
  BY <1>1, <1>2, <1>3 DEF IInv, Bookkeeping, KnownSignatures, SameTable, SeenOrCreating,
     Asked, Reconciling, TypeOK, NoReceipt
<1>6. ReceiptIsResumable' /\ Accounted' /\ CreatedFirst'
  BY <1>1, <1>2 DEF IInv, Bookkeeping, ReceiptIsResumable, Accounted, CreatedFirst
<1>7. LeftIsNew' /\ FirstIsFirst' /\ Covered'
  BY <1>1, <1>3 DEF LeftIsNew, FirstIsFirst, Covered, InLoop, Closing,
     Reconciling
<1> QED
  BY <1>2, <1>4, <1>5, <1>6, <1>7 DEF IInv, Bookkeeping

\* The first packet of a new table is decided when nothing is out; an extension
\* is decided when everything out can be read.
LEMMA DecideStep ==
    ASSUME IInv, Decide
    PROVE  IInv'
<1>1. /\ UNCHANGED <<subs, latest, storage, faults>> /\ run.pc = "decide"
      /\ latest \in 0..MaxSlot /\ faults \in 0..MaxFaults
      /\ receipt.pending = 0 /\ run.target = 0 /\ run.back = "idle" /\ run.out = 0
      /\ run.slot # 0 /\ receipt.slot \in {0, run.slot} /\ receipt.confirmed = FALSE
  BY DEF Decide, IInv, TypeOK, Bookkeeping, SameTable, Asked, Reconciling, KnownSignatures
<1>2. /\ \A x : (Exists(x))' = Exists(x) /\ (Have(x))' = Have(x)
      /\ \A i : (Landed(i))' = Landed(i) /\ (Good(i))' = Good(i)
      /\ PaidTwiceOnlyBlind'
  BY <1>1, SameReads DEF IInv
<1>3. receipt.slot = 0 => receipt = NoReceipt /\ \A i \in DOMAIN subs : ~Good(i)
  <2>1. \A i \in DOMAIN subs : subs[i].slot # 0
    BY SubsTyped DEF IInv
  <2> QED
    BY <2>1 DEF IInv, TypeOK, Bookkeeping, Accounted
<1>4. \A s : Have(s) \subseteq Chunks
  BY SubsTyped DEF IInv, Have, Shown
<1>5. CASE run.create
  <2>1. /\ receipt.slot = 0 /\ UNCHANGED receipt
        /\ run' = [run EXCEPT !.pc = "loop", !.left = Chunks]
    BY <1>1, <1>5 DEF Decide
  <2>2. run.cover = {}
    BY <2>1, <1>1, <1>5 DEF IInv, Bookkeeping, SeenOrCreating
  <2>3. /\ run' \in Runs /\ run'.pc = "loop" /\ run'.slot = run.slot /\ run'.left = Chunks
        /\ run'.create = run.create /\ run'.cover = {} /\ run'.out = 0
        /\ run'.target = 0 /\ run'.back = "idle"
    BY <2>1, <2>2, <1>1 DEF IInv, TypeOK, Runs, Stages
  <2>4. TypeOK'
    BY <1>1, <2>1, <2>3, QuietType DEF IInv, TypeOK, Receipts
  <2>5. KnownSignatures' /\ SameTable' /\ SeenOrCreating' /\ Asked'
    BY <1>1, <1>2, <1>3, <1>5, <2>1, <2>3 DEF IInv, Bookkeeping, KnownSignatures, SameTable,
       SeenOrCreating, Asked, Reconciling
  <2>6. ReceiptIsResumable' /\ Accounted' /\ CreatedFirst'
    BY <1>1, <1>2, <2>1 DEF IInv, Bookkeeping, ReceiptIsResumable, Accounted, CreatedFirst
  <2>7. LeftIsNew' /\ FirstIsFirst' /\ Covered'
    BY <1>1, <1>2, <1>3, <2>1, <2>3 DEF LeftIsNew, FirstIsFirst, Covered,
       InLoop, Closing, Reconciling
  <2> QED
    BY <1>2, <2>4, <2>5, <2>6, <2>7 DEF IInv, Bookkeeping
<1>6. CASE ~run.create
  <2>1. /\ run' = [run EXCEPT !.pc = "loop", !.left = Chunks \ Have(run.slot),
                              !.cover = Have(run.slot)]
        /\ receipt' = [receipt EXCEPT !.slot = run.slot]
    BY <1>6 DEF Decide
  <2>2. /\ receipt' \in Receipts /\ receipt'.slot = run.slot /\ receipt'.pending = 0
        /\ receipt'.creation = receipt.creation /\ receipt'.confirmed = FALSE
    BY <2>1, <1>1 DEF IInv, TypeOK, Receipts, Runs
  <2>3. /\ run' \in Runs /\ run'.pc = "loop" /\ run'.slot = run.slot
        /\ run'.left = Chunks \ Have(run.slot)
        /\ run'.create = run.create /\ run'.out = 0
        /\ run'.target = 0 /\ run'.back = "idle"
    <3>1. run \in Runs /\ Have(run.slot) \in SUBSET Chunks
          /\ Chunks \ Have(run.slot) \in SUBSET Chunks
      BY <1>4 DEF IInv, TypeOK, Runs
    <3> QED
      BY <2>1, <1>1, <3>1 DEF Runs, Stages
  <2>4. Exists(run.slot)
    BY <1>1, <1>6 DEF IInv, Bookkeeping, SeenOrCreating
  <2>5. TypeOK'
    BY <1>1, <2>2, <2>3, QuietType DEF IInv
  <2>6. KnownSignatures' /\ SameTable' /\ SeenOrCreating' /\ Asked'
    BY <1>1, <1>2, <1>6, <2>2, <2>3, <2>4 DEF IInv, Bookkeeping, KnownSignatures, SameTable,
       SeenOrCreating, Asked, Reconciling
  <2>7. ReceiptIsResumable' /\ Accounted' /\ CreatedFirst'
    BY <1>1, <1>2, <1>3, <2>2 DEF IInv, Bookkeeping, ReceiptIsResumable, Accounted,
       CreatedFirst
  <2>8. LeftIsNew'
    <3>1. \A i \in DOMAIN subs : Good(i) => subs[i].adds \subseteq Have(run.slot)
      BY <1>1, <1>3, SubsTyped DEF IInv, Bookkeeping, Accounted
    <3> QED
      BY <1>1, <1>2, <2>3, <3>1 DEF LeftIsNew
  <2>9. FirstIsFirst' /\ Covered'
    BY <1>1, <1>2, <1>6, <2>3 DEF FirstIsFirst, Covered, Closing,
       Reconciling
  <2> QED
    BY <1>2, <2>5, <2>6, <2>7, <2>8, <2>9 DEF IInv, Bookkeeping
<1> QED
  BY <1>5, <1>6

\* Moving on to another stage, with everything else as it was.
LEMMA MovedOn ==
    ASSUME IInv, UNCHANGED <<subs, latest, receipt, storage, faults>>,
           NEW pc \in Stages, run' = [run EXCEPT !.pc = pc],
           \/ /\ run.pc = "loop" /\ run.left = {}
              /\ pc = IF run.create THEN "visible" ELSE "verify"
           \/ run.pc = "visible" /\ pc = "verify" /\ Exists(run.slot)
    PROVE  IInv'
<1>1. /\ \A x : (Exists(x))' = Exists(x) /\ (Have(x))' = Have(x)
      /\ \A i : (Landed(i))' = Landed(i) /\ (Good(i))' = Good(i)
      /\ PaidTwiceOnlyBlind'
  BY SameReads DEF IInv
<1>2. Chunks # {} /\ 1 \in Chunks
  BY SetupAssumption DEF Chunks
<1>3. /\ run' \in Runs /\ run'.pc = pc /\ run'.slot = run.slot /\ run'.create = run.create
      /\ run'.out = run.out /\ run'.target = 0 /\ run'.back = "idle" /\ run.out = 0
  BY DEF IInv, TypeOK, Runs, Bookkeeping, Asked, Reconciling, KnownSignatures
<1>4. pc \in {"visible", "verify"}
  OBVIOUS
<1>5. TypeOK'
  BY <1>3, QuietType DEF IInv, TypeOK, Receipts
<1>6. KnownSignatures' /\ SameTable' /\ SeenOrCreating' /\ Asked'
  BY <1>1, <1>2, <1>3, <1>4 DEF IInv, Bookkeeping, KnownSignatures, SameTable,
     SeenOrCreating, Asked, Reconciling
<1>7. ReceiptIsResumable' /\ Accounted' /\ CreatedFirst'
  BY <1>1 DEF IInv, Bookkeeping, ReceiptIsResumable, Accounted, CreatedFirst
<1>8. LeftIsNew' /\ FirstIsFirst' /\ Covered'
  BY <1>3, <1>4 DEF LeftIsNew, FirstIsFirst, Covered, InLoop, Closing,
     Reconciling
<1> QED
  BY <1>1, <1>5, <1>6, <1>7, <1>8 DEF IInv, Bookkeeping

\* Asking about what is pending before the next packet or the end.
LEMMA ReconcileStep ==
    ASSUME IInv, UNCHANGED <<subs, latest, receipt, storage, faults>>,
           NEW back \in {"prompt", "finish"}, Reconcile(run, back),
           \/ run.pc = "loop" /\ run.left # {} /\ back = "prompt"
           \/ run.pc = "verify" /\ Covers(run.slot, Chunks) /\ back = "finish"
    PROVE  IInv'
<1>1. Bookkeeping' /\ run' \in Runs
  BY Reconciled
<1>2. TypeOK'
  BY <1>1, QuietType DEF IInv, TypeOK, Receipts
<1> QED
  BY <1>1, <1>2, SameReads DEF IInv

LEMMA LoopStep ==
    ASSUME IInv, Loop
    PROVE  IInv'
<1>1. CASE run.left # {}
  BY <1>1, ReconcileStep DEF Loop
<1>2. CASE run.left = {}
  BY <1>2, MovedOn DEF Loop, Stages, Reads
<1> QED
  BY <1>1, <1>2

LEMMA PollStep ==
    ASSUME IInv, Poll
    PROVE  IInv'
<1>1. CASE Exists(run.slot)
  BY <1>1, MovedOn DEF Poll, Stages, Reads
<1>2. CASE ~Exists(run.slot)
  BY <1>2, StopStep DEF Poll, IInv, TypeOK
<1> QED
  BY <1>1, <1>2

LEMMA VerifyStep ==
    ASSUME IInv, Verify
    PROVE  IInv'
<1>1. CASE Covers(run.slot, Chunks)
  BY <1>1, ReconcileStep DEF Verify
<1>2. CASE ~Covers(run.slot, Chunks)
  BY <1>2, StopStep DEF Verify, IInv, TypeOK
<1> QED
  BY <1>1, <1>2

LEMMA GiveUpStep ==
    ASSUME IInv, Refuse \/ ReadFails
    PROVE  IInv'
BY StopStep, SetupAssumption DEF Refuse, ReadFails, Fault, IInv, TypeOK

LEMMA ConfirmStep ==
    ASSUME IInv, Confirm
    PROVE  IInv'
<1>1. /\ UNCHANGED <<subs, latest, storage, faults>> /\ run.pc = "confirm"
      /\ latest \in 0..MaxSlot /\ faults \in 0..MaxFaults
      /\ receipt.pending # 0 /\ receipt.slot # 0
      /\ run.target = 0 /\ run.back = "idle" /\ run.out = 0
  BY DEF Confirm, IInv, TypeOK, Bookkeeping, Asked, Reconciling, KnownSignatures, NoReceipt
<1>2. /\ \A x : (Exists(x))' = Exists(x) /\ (Have(x))' = Have(x)
      /\ \A i : (Landed(i))' = Landed(i) /\ (Good(i))' = Good(i)
      /\ PaidTwiceOnlyBlind'
  BY <1>1, SameReads DEF IInv
<1>3. CASE Stop /\ UNCHANGED receipt
  BY <1>1, <1>3, StopStep
<1>4. CASE /\ Landed(receipt.pending)
           /\ receipt' = [receipt EXCEPT !.confirmed = TRUE]
           /\ run' = [run EXCEPT !.pc = "loop"]
  <2>1. /\ receipt' \in Receipts /\ receipt'.slot = receipt.slot
        /\ receipt'.creation = receipt.creation /\ receipt'.pending = receipt.pending
        /\ receipt'.expected = receipt.expected
    BY <1>4 DEF IInv, TypeOK, Receipts
  <2>2. /\ run' \in Runs /\ run'.pc = "loop" /\ run'.slot = run.slot /\ run'.left = run.left
        /\ run'.create = run.create /\ run'.cover = run.cover /\ run'.out = 0
        /\ run'.target = 0 /\ run'.back = "idle"
    BY <1>1, <1>4 DEF IInv, TypeOK, Runs, Stages
  <2>3. TypeOK'
    BY <1>1, <2>1, <2>2, QuietType DEF IInv
  <2>4. KnownSignatures' /\ SameTable' /\ SeenOrCreating' /\ Asked'
    BY <1>1, <1>2, <1>4, <2>1, <2>2 DEF IInv, Bookkeeping, KnownSignatures, SameTable,
       SeenOrCreating, Asked, Reconciling
  <2>5. ReceiptIsResumable' /\ Accounted' /\ CreatedFirst'
    BY <1>1, <1>2, <2>1 DEF IInv, Bookkeeping, ReceiptIsResumable, Accounted, CreatedFirst
  <2>6. LeftIsNew' /\ FirstIsFirst'
    BY <1>1, <1>2, <2>2 DEF IInv, Bookkeeping, LeftIsNew, FirstIsFirst, InLoop
  <2>7. Covered'
    BY <2>2 DEF Covered, Closing, Reconciling
  <2> QED
    BY <1>2, <2>3, <2>4, <2>5, <2>6, <2>7 DEF IInv, Bookkeeping
<1> QED
  BY <1>3, <1>4 DEF Confirm

LEMMA FinishStep ==
    ASSUME IInv, Finish
    PROVE  IInv'
<1>1. /\ UNCHANGED <<subs, latest, storage, faults>> /\ run.pc = "finish"
      /\ latest \in 0..MaxSlot /\ faults \in 0..MaxFaults
      /\ receipt.pending = 0 /\ receipt.confirmed = FALSE
      /\ run.slot # 0 /\ receipt.slot \in {0, run.slot}
      /\ run.target = 0 /\ run.back = "idle" /\ run.out = 0
  BY DEF Finish, IInv, TypeOK, Bookkeeping, Asked, SameTable, Reconciling, KnownSignatures
<1>2. /\ \A x : (Exists(x))' = Exists(x) /\ (Have(x))' = Have(x)
      /\ \A i : (Landed(i))' = Landed(i) /\ (Good(i))' = Good(i)
      /\ PaidTwiceOnlyBlind'
  BY <1>1, SameReads DEF IInv
<1>3. /\ receipt' \in Receipts /\ receipt'.slot = run.slot
      /\ receipt'.creation = receipt.creation /\ receipt'.pending = 0
      /\ receipt'.expected = receipt.expected /\ receipt'.confirmed = FALSE
  BY <1>1 DEF Finish, IInv, TypeOK, Receipts, Runs
<1>4. /\ run' \in Runs /\ run'.pc = "done" /\ run'.slot = run.slot
      /\ run'.create = run.create /\ run'.cover = run.cover /\ run'.out = 0
      /\ run'.target = 0 /\ run'.back = "idle"
  BY <1>1 DEF Finish, IInv, TypeOK, Runs, Stages
<1>5. TypeOK'
  BY <1>1, <1>3, <1>4, QuietType DEF IInv
<1>6. Covered' /\ SeenOrCreating'
  BY <1>1, <1>2, <1>3, <1>4 DEF IInv, Bookkeeping, SeenOrCreating, Covered, Closing
<1>7. KnownSignatures' /\ SameTable' /\ Asked'
  BY <1>1, <1>2, <1>3, <1>4 DEF IInv, Bookkeeping, KnownSignatures, SameTable, Asked,
     Reconciling
<1>8. receipt.slot = 0 => \A i \in DOMAIN subs : ~Good(i)
  BY SubsTyped DEF IInv, Bookkeeping, Accounted
<1>9. ReceiptIsResumable' /\ Accounted' /\ CreatedFirst'
  BY <1>1, <1>2, <1>3, <1>8 DEF IInv, Bookkeeping, ReceiptIsResumable, Accounted,
     CreatedFirst
<1>10. LeftIsNew' /\ FirstIsFirst'
  BY <1>4 DEF LeftIsNew, FirstIsFirst, InLoop, Reconciling
<1> QED
  BY <1>2, <1>5, <1>6, <1>7, <1>9, <1>10 DEF IInv, Bookkeeping

LEMMA StutterStep ==
    ASSUME IInv, UNCHANGED vars
    PROVE  IInv'
<1>1. /\ \A x : (Exists(x))' = Exists(x) /\ (Have(x))' = Have(x)
      /\ \A i : (Landed(i))' = Landed(i) /\ (Good(i))' = Good(i)
      /\ PaidTwiceOnlyBlind'
  BY SameReads DEF IInv, vars
<1>2. TypeOK' /\ Packet' = Packet
  BY DEF IInv, TypeOK, vars, Packet
<1>3. Bookkeeping'
  BY <1>1, <1>2 DEF IInv, vars, Bookkeeping, KnownSignatures, SameTable, Asked,
     SeenOrCreating, ReceiptIsResumable, Accounted, CreatedFirst, LeftIsNew,
     FirstIsFirst, Covered, InLoop, Closing, Reconciling
<1> QED
  BY <1>1, <1>2, <1>3 DEF IInv

-----------------------------------------------------------------------------
(* The steps that submit.                                                  *)

LEMMA PacketTyped ==
    ASSUME IInv, run.pc = "prompt"
    PROVE  /\ Packet \in Subs /\ Packet.slot = run.slot
           /\ Packet.creates = (run.create /\ run.cover = {})
           /\ Packet.adds \subseteq run.left /\ Packet.adds # {}
           /\ Packet.st = "inflight" /\ Packet.lost = FALSE /\ Packet.struck = FALSE
<1>1. run.left # {} /\ run \in Runs /\ run.slot # 0
  BY DEF IInv, TypeOK, Runs, Bookkeeping, Asked, SameTable
<1>2. (CHOOSE c \in run.left : TRUE) \in run.left
  BY <1>1
<1>3. run.slot \in 1..MaxSlot /\ run.create \in BOOLEAN /\ run.left \subseteq Chunks
  BY <1>1, SetupAssumption DEF Runs
<1> QED
  BY <1>2, <1>3 DEF Packet, Subs

\* The signature a broadcast ends with stands for the packet, whether this is
\* the first time it is sent or not; nothing else is touched.
LEMMA Submitted ==
    ASSUME IInv, run.pc = "prompt", NEW lost \in BOOLEAN, Broadcast(lost),
           NEW n, n = Signature
    PROVE  /\ n \in Signatures /\ n # 0
           /\ subs' \in Seq(Subs) /\ Len(subs') <= MaxSubs
           /\ DOMAIN subs' = DOMAIN subs \cup {n} /\ \A j \in DOMAIN subs' : j <= n
           /\ \A j \in DOMAIN subs : j # n => subs'[j] = subs[j]
           /\ subs'[n].slot = run.slot /\ subs'[n].creates = Packet.creates
           /\ subs'[n].adds = Packet.adds /\ subs'[n].lost = lost
           /\ IF run.out = 0 THEN n \notin DOMAIN subs /\ subs'[n].st = "inflight"
                             ELSE n \in DOMAIN subs /\ subs'[n].st = subs[n].st
                                  /\ n = run.out
<1>1. /\ subs \in Seq(Subs) /\ DOMAIN subs = 1..Len(subs) /\ Len(subs) \in Nat
      /\ Len(subs) <= MaxSubs /\ MaxSubs \in Nat
      /\ \A j \in DOMAIN subs : subs[j] \in Subs
  BY SubsTyped, SetupAssumption DEF IInv, TypeOK
<1>2. CASE run.out = 0
  <2> DEFINE p == [Packet EXCEPT !.lost = lost]
  <2>1. /\ p \in Subs /\ p.slot = run.slot /\ p.creates = Packet.creates
        /\ p.adds = Packet.adds /\ p.lost = lost /\ p.st = "inflight"
    BY PacketTyped DEF Subs
  <2>2. subs' = Append(subs, p) /\ Len(subs) < MaxSubs /\ n = Len(subs) + 1
    BY <1>2 DEF Broadcast, Signature
  <2> HIDE DEF p
  <2>3. /\ subs' \in Seq(Subs) /\ Len(subs') = n /\ subs'[n] = p
        /\ DOMAIN subs' = 1..n
        /\ \A j \in 1..Len(subs) : subs'[j] = subs[j]
    BY <1>1, <2>1, <2>2
  <2> QED
    BY <1>1, <1>2, <2>1, <2>2, <2>3 DEF Signatures
<1>3. CASE run.out # 0
  <2> DEFINE p == [subs[n] EXCEPT !.lost = lost]
  <2>1. /\ n = run.out /\ n \in DOMAIN subs /\ \A j \in DOMAIN subs : j <= n
        /\ subs[n].slot = run.slot /\ subs[n].creates = Packet.creates
        /\ subs[n].adds = Packet.adds
    BY <1>3 DEF Signature, IInv, Bookkeeping, KnownSignatures
  <2>2. /\ p \in Subs /\ p.slot = run.slot /\ p.creates = Packet.creates
        /\ p.adds = Packet.adds /\ p.lost = lost /\ p.st = subs[n].st
    BY <1>1, <2>1 DEF Subs
  <2>3. subs' = [subs EXCEPT ![n] = p]
    BY <1>3, <2>1 DEF Broadcast
  <2> HIDE DEF p
  <2>4. /\ subs' \in Seq(Subs) /\ DOMAIN subs' = DOMAIN subs /\ Len(subs') = Len(subs)
        /\ subs'[n] = p
        /\ \A i \in DOMAIN subs : i # n => subs'[i] = subs[i]
    BY <2>1, <2>2, <2>3, Updated DEF IInv
  <2> QED
    BY <1>1, <1>3, <2>1, <2>2, <2>4 DEF Signatures
<1> QED
  BY <1>2, <1>3

\* What a broadcast changes for the readers: nothing yet; and what it leaves of
\* the others.
LEMMA SubmittedReads ==
    ASSUME IInv, run.pc = "prompt", NEW lost \in BOOLEAN, Broadcast(lost),
           NEW n, n = Signature
    PROVE  /\ \A x : (Exists(x))' = Exists(x) /\ (Have(x))' = Have(x)
           /\ \A i \in DOMAIN subs : (Landed(i))' = Landed(i)
           /\ \A i \in DOMAIN subs : i # n => (Good(i))' = Good(i)
           /\ PaidTwiceOnlyBlind'
<1>1. /\ DOMAIN subs' = DOMAIN subs \cup {n} /\ \A j \in DOMAIN subs' : j <= n
      /\ \A j \in DOMAIN subs : j # n => subs'[j] = subs[j]
      /\ subs'[n].slot = run.slot /\ subs'[n].creates = Packet.creates
      /\ subs'[n].adds = Packet.adds
      /\ IF run.out = 0 THEN n \notin DOMAIN subs /\ subs'[n].st = "inflight"
                        ELSE n \in DOMAIN subs /\ subs'[n].st = subs[n].st
                             /\ n = run.out
  BY Submitted
<1>2. /\ run.out # 0 => /\ n \in DOMAIN subs /\ subs'[n].slot = subs[n].slot
                        /\ subs'[n].creates = subs[n].creates
                        /\ subs'[n].adds = subs[n].adds
  BY <1>1 DEF IInv, Bookkeeping, KnownSignatures
<1>3. \A x : (Shown(x))' = Shown(x)
  BY <1>1, <1>2 DEF Shown
<1>4. \A x : \A i \in Shown(x) : /\ i \in DOMAIN subs /\ subs'[i].adds = subs[i].adds
                                 /\ subs'[i].creates = subs[i].creates
  BY <1>1, <1>2 DEF Shown
<1>5. \A x : (Exists(x))' = Exists(x) /\ (Have(x))' = Have(x)
  BY <1>3, <1>4 DEF Exists, Have
<1>6. /\ \A i \in DOMAIN subs : (Landed(i))' = Landed(i)
      /\ \A i \in DOMAIN subs : i # n => (Good(i))' = Good(i)
  BY <1>1 DEF Landed, Good, Stands
<1>7. \A i \in DOMAIN subs : Good(i) =>
        /\ subs[i].slot = receipt.slot /\ subs[i].adds \cap run.left = {}
        /\ ~(run.create /\ run.cover = {})
  BY DEF IInv, Bookkeeping, Accounted, LeftIsNew, FirstIsFirst, InLoop
<1>8. PaidTwiceOnlyBlind'
  <2> SUFFICES ASSUME NEW i \in DOMAIN subs', NEW j \in DOMAIN subs',
                      i < j, (Stands(i))', (Stands(j))', (SamePurchase(i, j))'
               PROVE  subs'[i].lost \/ subs'[i].struck
    BY DEF PaidTwiceOnlyBlind
  <2>1. i \in DOMAIN subs /\ i # n /\ subs'[i] = subs[i] /\ Stands(i)
    <3>1. \A k \in DOMAIN subs' : k \in Nat
      BY Submitted
    <3> QED
      BY <1>1, <3>1 DEF Stands, Landed
  <2>2. CASE j # n
    BY <1>1, <2>1, <2>2 DEF IInv, PaidTwiceOnlyBlind, Stands, Landed, SamePurchase
  <2>3. CASE j = n
    <3>1. ~Good(i)
      BY <1>1, <1>7, <2>1, <2>3, PacketTyped DEF SamePurchase
    <3> QED
      BY <2>1, <3>1, SubsTyped DEF Good, IInv, Subs
  <2> QED
    BY <2>2, <2>3
<1> QED
  BY <1>5, <1>6, <1>8

LEMMA ApproveStep ==
    ASSUME IInv, Approve
    PROVE  IInv'
<1>1. PICK n : n = Signature
  OBVIOUS
<1>2. /\ run.pc = "prompt" /\ Broadcast(FALSE) /\ UNCHANGED <<latest, storage, faults>>
      /\ receipt' = Saved(n, Packet)
      /\ run' = [run EXCEPT !.pc = "confirm", !.out = 0, !.cover = @ \cup Packet.adds,
                            !.left = @ \ Packet.adds]
  BY <1>1 DEF Approve
<1>3. /\ n \in Signatures /\ n # 0
      /\ subs' \in Seq(Subs) /\ Len(subs') <= MaxSubs
      /\ DOMAIN subs' = DOMAIN subs \cup {n}
      /\ \A j \in DOMAIN subs : j # n => subs'[j] = subs[j]
      /\ subs'[n].slot = run.slot /\ subs'[n].adds = Packet.adds
  BY <1>1, <1>2, Submitted
<1>4. /\ \A x : (Exists(x))' = Exists(x) /\ (Have(x))' = Have(x)
      /\ \A i \in DOMAIN subs : (Landed(i))' = Landed(i)
      /\ \A i \in DOMAIN subs : i # n => (Good(i))' = Good(i)
      /\ PaidTwiceOnlyBlind'
  BY <1>1, <1>2, SubmittedReads
<1>5. /\ Packet.slot = run.slot /\ Packet.creates = (run.create /\ run.cover = {})
      /\ Packet.adds \subseteq run.left /\ Packet.adds # {} /\ Packet.adds \subseteq Chunks
  BY <1>2, PacketTyped DEF Subs
<1>6. /\ receipt.pending = 0 /\ run.slot # 0 /\ receipt.slot \in {0, run.slot}
      /\ run.target = 0 /\ run.back = "idle"
      /\ receipt.creation \in {0} \cup DOMAIN subs
      /\ receipt.creation = 0 \/ Landed(receipt.creation)
  BY <1>2 DEF IInv, TypeOK, Bookkeeping, Asked, SameTable, Reconciling, KnownSignatures,
     ReceiptIsResumable
<1>7. /\ receipt' \in Receipts /\ receipt'.slot = run.slot
      /\ receipt'.pending = n /\ receipt'.confirmed = FALSE
      /\ receipt'.creation = (IF Packet.creates THEN n ELSE receipt.creation)
      /\ Packet.adds \subseteq receipt'.expected
  BY <1>2, <1>3, <1>5 DEF Saved, IInv, TypeOK, Receipts, Runs
<1>8. /\ run' \in Runs /\ run'.pc = "confirm" /\ run'.slot = run.slot
      /\ run'.create = run.create /\ run'.out = 0 /\ run'.target = 0
      /\ run'.back = "idle" /\ run'.cover # {}
      /\ run'.left = run.left \ Packet.adds
  <2>1. run \in Runs /\ run.cover \cup Packet.adds \in SUBSET Chunks
        /\ run.left \ Packet.adds \in SUBSET Chunks /\ 0 \in Signatures
    BY <1>5, SetupAssumption DEF IInv, TypeOK, Runs, Signatures
  <2> QED
    BY <1>2, <1>5, <1>6, <2>1 DEF Runs, Stages
<1>9. \A i \in DOMAIN subs : Good(i) =>
        /\ subs[i].slot = run.slot /\ subs[i].adds \subseteq Have(run.slot)
        /\ subs[i].adds \cap run.left = {} /\ ~(run.create /\ run.cover = {})
  <2>1. \A i \in DOMAIN subs : Good(i) => /\ subs[i].slot = receipt.slot
                                          /\ subs[i].slot # 0 /\ i # 0
    BY SubsTyped DEF IInv, Bookkeeping, Accounted
  <2> QED
    BY <1>2, <1>6, <2>1 DEF IInv, Bookkeeping, Accounted, LeftIsNew, FirstIsFirst, InLoop
<1>10. TypeOK'
  BY <1>2, <1>3, <1>6, <1>7, <1>8 DEF IInv, TypeOK, Subs, Receipts, Runs
<1>11. KnownSignatures' /\ SameTable' /\ Asked'
  BY <1>3, <1>6, <1>7, <1>8 DEF IInv, Bookkeeping, KnownSignatures, SameTable, Asked,
     Reconciling
<1>12. SeenOrCreating'
  BY <1>2, <1>3, <1>4, <1>5, <1>6, <1>7, <1>8 DEF IInv, Bookkeeping, SeenOrCreating
<1>13. ReceiptIsResumable'
  BY <1>4, <1>6, <1>7 DEF ReceiptIsResumable
<1>14. Accounted'
  BY <1>3, <1>4, <1>7, <1>9 DEF Accounted
<1>15. CreatedFirst'
  BY <1>3, <1>4, <1>5, <1>6, <1>7, <1>9 DEF CreatedFirst
<1>16. LeftIsNew' /\ FirstIsFirst'
  BY <1>3, <1>4, <1>8, <1>9 DEF LeftIsNew, FirstIsFirst
<1>17. Covered'
  BY <1>8 DEF Covered, Closing, Reconciling
<1> QED
  BY <1>4, <1>10, <1>11, <1>12, <1>13, <1>14, <1>15, <1>16, <1>17 DEF IInv, Bookkeeping

\* The receipt does not know of it, and nothing asks it to.
LEMMA LoseAnswerStep ==
    ASSUME IInv, LoseAnswer
    PROVE  IInv'
<1>1. PICK n : n = Signature
  OBVIOUS
<1>2. /\ run.pc = "prompt" /\ run.out = 0 /\ Broadcast(TRUE)
      /\ UNCHANGED <<latest, receipt, storage>>
      /\ run' = [run EXCEPT !.out = n] /\ faults' \in 0..MaxFaults
  <2>1. Fault /\ faults \in 0..MaxFaults /\ MaxFaults \in Nat
    BY SetupAssumption DEF LoseAnswer, IInv, TypeOK
  <2>2. faults' \in 0..MaxFaults
    BY <2>1 DEF Fault
  <2> QED
    BY <1>1, <2>2 DEF LoseAnswer
<1>3. /\ n \in Signatures /\ n # 0 /\ n \notin DOMAIN subs
      /\ subs' \in Seq(Subs) /\ Len(subs') <= MaxSubs
      /\ DOMAIN subs' = DOMAIN subs \cup {n} /\ \A j \in DOMAIN subs' : j <= n
      /\ \A j \in DOMAIN subs : subs'[j] = subs[j]
      /\ subs'[n].slot = run.slot /\ subs'[n].creates = Packet.creates
      /\ subs'[n].adds = Packet.adds /\ subs'[n].lost = TRUE
  BY <1>1, <1>2, Submitted
<1>4. /\ \A x : (Exists(x))' = Exists(x) /\ (Have(x))' = Have(x)
      /\ \A i \in DOMAIN subs : (Landed(i))' = Landed(i) /\ (Good(i))' = Good(i)
      /\ PaidTwiceOnlyBlind' /\ ~(Good(n))'
  BY <1>1, <1>2, <1>3, SubmittedReads DEF Good
<1>5. /\ run' \in Runs /\ run'.pc = "prompt" /\ run'.slot = run.slot /\ run'.left = run.left
      /\ run'.create = run.create /\ run'.cover = run.cover /\ run'.out = n
      /\ run'.target = run.target /\ run'.back = run.back
  BY <1>2, <1>3 DEF IInv, TypeOK, Runs
<1>6. Packet' = Packet
  BY <1>5 DEF Packet
<1>7. TypeOK'
  BY <1>2, <1>3, <1>5 DEF IInv, TypeOK, Subs, Receipts, Runs
<1>8. KnownSignatures'
  BY <1>2, <1>3, <1>5, <1>6 DEF IInv, Bookkeeping, KnownSignatures
<1>9. receipt.pending \in {0} \cup DOMAIN subs /\ receipt.creation \in {0} \cup DOMAIN subs
  BY DEF IInv, Bookkeeping, KnownSignatures
<1>10. SameTable' /\ Asked' /\ SeenOrCreating'
  BY <1>2, <1>4, <1>5, <1>9 DEF IInv, Bookkeeping, SameTable, Asked, SeenOrCreating,
     Reconciling
<1>11. ReceiptIsResumable' /\ Accounted' /\ CreatedFirst'
  BY <1>2, <1>3, <1>4, <1>9 DEF IInv, Bookkeeping, ReceiptIsResumable, Accounted,
     CreatedFirst
<1>12. LeftIsNew' /\ FirstIsFirst' /\ Covered'
  BY <1>2, <1>3, <1>4, <1>5 DEF IInv, Bookkeeping, LeftIsNew, FirstIsFirst, InLoop,
     Covered, Closing, Reconciling
<1> QED
  BY <1>4, <1>7, <1>8, <1>10, <1>11, <1>12 DEF IInv, Bookkeeping

-----------------------------------------------------------------------------
(* The page and the cluster.                                               *)

\* Without storage the page forgets everything, and every submission is one
\* that no receipt could keep.
LEMMA ReloadStep ==
    ASSUME IInv, Reload
    PROVE  IInv'
<1>1. /\ Stop /\ UNCHANGED <<latest, storage>> /\ latest \in 0..MaxSlot
      /\ faults' \in 0..MaxFaults /\ run' = Idle
  BY SetupAssumption DEF Reload, Stop, Fault, IInv, TypeOK
<1>2. CASE storage
  BY <1>1, <1>2, StopStep DEF Reload
<1>3. CASE ~storage
  <2>1. /\ receipt' = NoReceipt
        /\ subs' = [i \in DOMAIN subs |-> [subs[i] EXCEPT !.lost = TRUE]]
    BY <1>3 DEF Reload
  <2>2. /\ subs \in Seq(Subs) /\ DOMAIN subs = 1..Len(subs) /\ Len(subs) \in Nat
        /\ \A i \in DOMAIN subs : subs[i] \in Subs
    BY SubsTyped DEF IInv
  <2>3. \A i \in DOMAIN subs : [subs[i] EXCEPT !.lost = TRUE] \in Subs
    BY <2>2 DEF Subs
  <2>4. subs' \in Seq(Subs) /\ Len(subs') = Len(subs) /\ DOMAIN subs' = DOMAIN subs
    BY <2>1, <2>2, <2>3
  <2>5. \A i \in DOMAIN subs : /\ subs'[i].lost = TRUE
    BY <2>1, <2>2 DEF Subs
  <2>6. PaidTwiceOnlyBlind' /\ \A i \in DOMAIN subs' : ~(Good(i))'
    BY <2>4, <2>5 DEF PaidTwiceOnlyBlind, Good
  <2>7. TypeOK'
    BY <1>1, <2>1, <2>4, IdleType DEF IInv, TypeOK, Subs, Receipts, Runs, NoReceipt
  <2>8. Bookkeeping'
    BY <1>1, <2>1, <2>6 DEF Bookkeeping, KnownSignatures, SameTable, Asked, SeenOrCreating,
       ReceiptIsResumable, Accounted, CreatedFirst, LeftIsNew, FirstIsFirst,
       Covered, InLoop, Closing, Reconciling, NoReceipt, Idle
  <2> QED
    BY <2>6, <2>7, <2>8 DEF IInv
<1> QED
  BY <1>2, <1>3

\* A submission is processed, shown, or comes to nothing.
LEMMA ProcessedStep ==
    ASSUME IInv, UNCHANGED <<latest, receipt, storage, run>>, faults' \in 0..MaxFaults,
           NEW i \in DOMAIN subs, NEW st, subs' = [subs EXCEPT ![i].st = st],
           \/ subs[i].st = "inflight" /\ st \in {"landed", "failed", "expired"}
           \/ subs[i].st = "landed" /\ st = "shown"
    PROVE  IInv'
<1> DEFINE x == [subs[i] EXCEPT !.st = st]
<1>1. subs[i] \in Subs
  BY SubsTyped DEF IInv
<1>2. /\ x \in Subs /\ x.slot = subs[i].slot /\ x.creates = subs[i].creates
      /\ x.adds = subs[i].adds /\ x.st = st /\ x.lost = subs[i].lost
      /\ x.struck = subs[i].struck
  BY <1>1 DEF Subs
<1>3. subs' = [subs EXCEPT ![i] = x]
  OBVIOUS
<1> HIDE DEF x
<1>4. /\ subs' \in Seq(Subs) /\ DOMAIN subs' = DOMAIN subs /\ Len(subs') = Len(subs)
      /\ subs'[i] = x
      /\ \A j \in DOMAIN subs : j # i => subs'[j] = subs[j]
  BY <1>2, <1>3, Updated DEF IInv
<1>5. Grows /\ NoneBetter
  BY <1>2, <1>4 DEF Grows, NoneBetter, Good, Stands, Landed
<1>6. /\ \A s : Exists(s) => (Exists(s))'
      /\ \A s : Have(s) \subseteq (Have(s))'
      /\ \A j \in DOMAIN subs : Landed(j) => (Landed(j))'
  BY <1>5, GrowsReads DEF Grows, IInv
<1>7. \A j \in DOMAIN subs : (Good(j))' => Good(j)
  BY <1>5 DEF NoneBetter
<1>8. \A j \in DOMAIN subs : /\ subs'[j].slot = subs[j].slot /\ subs'[j].adds = subs[j].adds
                             /\ subs'[j].creates = subs[j].creates
                             /\ subs'[j].lost = subs[j].lost
                             /\ subs'[j].struck = subs[j].struck
                             /\ (Stands(j))' => Stands(j)
  BY <1>2, <1>4 DEF Stands, Landed
<1>9. PaidTwiceOnlyBlind'
  BY <1>4, <1>8 DEF IInv, PaidTwiceOnlyBlind, SamePurchase
<1>10. TypeOK'
  BY <1>4 DEF IInv, TypeOK, Subs
<1>11. KnownSignatures' /\ SameTable'
  <2>1. Packet' = Packet
    BY DEF Packet
  <2> QED
    BY <1>4, <1>8, <2>1 DEF IInv, Bookkeeping, KnownSignatures, SameTable
<1>12. receipt.pending \in {0} \cup DOMAIN subs /\ receipt.creation \in {0} \cup DOMAIN subs
  BY DEF IInv, Bookkeeping, KnownSignatures
<1>13. Asked' /\ ReceiptIsResumable' /\ CreatedFirst'
  <2>1. run.pc = "table" => receipt.pending \in DOMAIN subs
    BY <1>12, SubsTyped DEF IInv, TypeOK, Bookkeeping, Asked, Reconciling
  <2> QED
    BY <1>4, <1>6, <1>7, <1>12, <2>1 DEF IInv, Bookkeeping, Asked, ReceiptIsResumable,
       CreatedFirst, Reconciling
<1>14. SeenOrCreating' /\ Covered'
  BY <1>6 DEF IInv, Bookkeeping, SeenOrCreating, Covered, Closing, Reconciling
<1>15. Accounted'
  BY <1>4, <1>6, <1>7, <1>8, <1>12 DEF IInv, Bookkeeping, Accounted
<1>16. LeftIsNew' /\ FirstIsFirst'
  BY <1>4, <1>7, <1>8 DEF IInv, Bookkeeping, LeftIsNew, FirstIsFirst,
     InLoop, Reconciling
<1> QED
  BY <1>9, <1>10, <1>11, <1>13, <1>14, <1>15, <1>16 DEF IInv, Bookkeeping

-----------------------------------------------------------------------------
(* The theorems.                                                           *)

LEMMA InitIInv == Init => IInv
BY SetupAssumption DEF Init, IInv, TypeOK, Bookkeeping, KnownSignatures, SameTable, Asked,
   SeenOrCreating, ReceiptIsResumable, Accounted, CreatedFirst, LeftIsNew,
   FirstIsFirst, Covered, PaidTwiceOnlyBlind, InLoop, Closing, Reconciling, NoReceipt, Idle,
   Signatures, Stages, Returns, Reads

LEMMA NextIInv == IInv /\ [Next]_vars => IInv'
<1> SUFFICES ASSUME IInv, [Next]_vars
             PROVE  IInv'
  OBVIOUS
<1>1. CASE Prepare
  BY <1>1, StartStep, ReadExistenceStep, ReadStatusStep, ReadHeightStep, ReadTableStep,
     ResolveCreationStep, DecideStep, LoopStep, ApproveStep, ConfirmStep, PollStep,
     VerifyStep, FinishStep DEF Prepare
<1>2. CASE LoseAnswer \/ Refuse \/ ReadFails \/ Reload
  BY <1>2, LoseAnswerStep, GiveUpStep, ReloadStep
<1>3. ASSUME NEW i \in DOMAIN subs, Land(i) \/ Show(i) \/ ComeToNothing(i)
      PROVE  IInv'
  <2>1. faults \in 0..MaxFaults /\ MaxFaults \in Nat
    BY SetupAssumption DEF IInv, TypeOK
  <2>2. CASE Land(i)
    <3>1. PICK st \in {"landed", "failed"} : subs' = [subs EXCEPT ![i].st = st]
      BY <2>2 DEF Land
    <3> QED
      BY <2>1, <2>2, <3>1, ProcessedStep DEF Land
  <2>3. CASE Show(i)
    BY <2>1, <2>3, ProcessedStep DEF Show
  <2>4. CASE ComeToNothing(i)
    <3>1. PICK st \in {"failed", "expired"} : subs' = [subs EXCEPT ![i].st = st]
      BY <2>4 DEF ComeToNothing
    <3>2. faults' \in 0..MaxFaults
      BY <2>1, <2>4 DEF ComeToNothing, Fault
    <3> QED
      BY <2>4, <3>1, <3>2, ProcessedStep DEF ComeToNothing
  <2> QED
    BY <1>3, <2>2, <2>3, <2>4
<1>4. CASE UNCHANGED vars
  BY <1>4, SameReads, StutterStep DEF vars
<1> QED
  BY <1>1, <1>2, <1>3, <1>4 DEF Next, Cluster

\* The bookkeeping holds in every reachable state, for any number of packets,
\* slots, submissions and faults.
THEOREM SetupInvariant == Spec => []IInv
BY InitIInv, NextIInv, PTL DEF Spec

\* The type of the submissions, the receipt and the run.
THEOREM LookupTypeCorrect == Spec => []TypeOK
<1>1. IInv => TypeOK
  BY DEF IInv
<1> QED
  BY <1>1, SetupInvariant, PTL

\* However often the setup is retried, no second table and no second extension
\* is paid for but after a submission that no receipt could keep, or one that had
\* landed when it, or the creation of its table, was struck off as expired.
THEOREM PaidOnce == Spec => []PaidTwiceOnlyBlind
<1>1. IInv => PaidTwiceOnlyBlind
  BY DEF IInv
<1> QED
  BY <1>1, SetupInvariant, PTL

\* The address a setup returns is of a table that reads show with every chunk.
THEOREM ReturnedCovered == Spec => []ReturnedIsCovered
<1>1. IInv => ReturnedIsCovered
  BY DEF IInv, Bookkeeping, Covered, Closing, ReturnedIsCovered
<1> QED
  BY <1>1, SetupInvariant, PTL

\* What a receipt with nothing pending says of its creation is true.
THEOREM ReceiptTrue == Spec => []ReceiptIsResumable
<1>1. IInv => ReceiptIsResumable
  BY DEF IInv, Bookkeeping
<1> QED
  BY <1>1, SetupInvariant, PTL
=============================================================================
