--------------------------- MODULE RpcBudgetProofs --------------------------
(***************************************************************************)
(* The request budget, for any number of readers, any limits and periods:  *)
(* slots are bounded, no wakeup is lost, and every pause is honoured.      *)
(***************************************************************************)
EXTENDS RpcBudget, FiniteSetTheorems, TLAPS

Fields == [queue : Seq(Job), active : Nat, timer : Nat \cup {Off},
           nextStart : 0..Interval, cooldownUntil : 0..PauseCap]

\* What drain may rely on, and leaves: the slots are counted, and what is owed
\* to the endpoint is covered by what the budget waits for.
Counted(b, w, q) ==
    /\ b \in Fields /\ Len(b.queue) <= QueueSize
    /\ w \in Seq(Request) /\ Len(w) = b.active /\ b.active <= Concurrency
    /\ q \in Nat /\ q <= Wait(b)

BudgetInv == TypeOK /\ Counted(budget, wire, quiet) /\ NoLostWakeup

\* The part of a step that is about the scheduler.
StepKept ==
    /\ Counted(budget', wire', quiet') /\ NoLostWakeup' /\ started' \in 0..1
    /\ started' # started => quiet = 0

-----------------------------------------------------------------------------
(* Lists of jobs.                                                          *)

\* splice(index, 1), for the queue and for the requests under way.
LEMMA Spliced ==
    ASSUME NEW S, NEW s \in Seq(S), NEW i \in DOMAIN s
    PROVE  RemoveAt(s, i) \in Seq(S) /\ Len(RemoveAt(s, i)) = Len(s) - 1
  BY DEF RemoveAt

\* A sequence rewritten place by place keeps its length.
LEMMA Rewritten ==
    ASSUME NEW S, NEW n \in Nat, NEW f \in [1..n -> S]
    PROVE  f \in Seq(S) /\ Len(f) = n
  OBVIOUS

\* Giving up and growing older change no length.
LEMMA LeftTyped ==
    ASSUME NEW r
    PROVE  /\ \A s \in Seq(Job) : Left(s, r) \in Seq(Job) /\ Len(Left(s, r)) = Len(s)
           /\ \A s \in Seq(Request) :
                Left(s, r) \in Seq(Request) /\ Len(Left(s, r)) = Len(s)
  <1>1. ASSUME NEW s \in Seq(Job)
        PROVE  Left(s, r) \in [1..Len(s) -> Job]
    <2>1. \A i \in 1..Len(s) : s[i] \in Job
      OBVIOUS
    <2>2. \A j \in Job : [j EXCEPT !.of = Nobody] \in Job
      BY DEF Job
    <2>3. QED
      BY <2>1, <2>2 DEF Left
  <1>2. ASSUME NEW s \in Seq(Request)
        PROVE  Left(s, r) \in [1..Len(s) -> Request]
    <2>1. \A i \in 1..Len(s) : s[i] \in Request
      OBVIOUS
    <2>2. \A j \in Request : [j EXCEPT !.of = Nobody] \in Request
      BY DEF Request
    <2>3. QED
      BY <2>1, <2>2 DEF Left
  <1>3. QED
    BY <1>1, <1>2, Rewritten

LEMMA OlderTyped ==
    /\ \A s \in Seq(Job) : Older(s) \in Seq(Job) /\ Len(Older(s)) = Len(s)
    /\ \A s \in Seq(Request) : Older(s) \in Seq(Request) /\ Len(Older(s)) = Len(s)
  <1>1. ASSUME NEW s \in Seq(Job)
        PROVE  Older(s) \in [1..Len(s) -> Job]
    <2>1. \A i \in 1..Len(s) : s[i] \in Job
      OBVIOUS
    <2>2. \A j \in Job : [j EXCEPT !.left = Ticked(@)] \in Job
      BY DEF Job, Ticked
    <2>3. QED
      BY <2>1, <2>2 DEF Older
  <1>2. ASSUME NEW s \in Seq(Request)
        PROVE  Older(s) \in [1..Len(s) -> Request]
    <2>1. \A i \in 1..Len(s) : s[i] \in Request
      OBVIOUS
    <2>2. \A j \in Request : [j EXCEPT !.left = Ticked(@)] \in Request
      BY DEF Request, Ticked, Off
    <2>3. QED
      BY <2>1, <2>2 DEF Older
  <1>3. QED
    BY <1>1, <1>2, Rewritten

-----------------------------------------------------------------------------
(* The scheduler.                                                          *)

\* drain starts a request only when nothing is owed, within a free slot, and
\* never leaves work without something that will look at it again.
LEMMA DrainKeeps ==
    ASSUME NEW b, NEW w, NEW q, Counted(b, w, q), Drain(b, w, q), started \in 0..1
    PROVE  /\ Counted(budget', wire', quiet') /\ NoLostWakeup' /\ started' \in 0..1
           /\ started' # started => q = 0
  <1>1. CASE ~Ready(b)
    <2>1. budget' = b /\ wire' = w /\ quiet' = q /\ started' = started
      BY <1>1 DEF Drain
    <2>2. b.active >= Concurrency \/ b.timer # Off \/ b.queue = <<>>
      BY <1>1, BudgetAssumption DEF Ready, Counted, Fields
    <2>3. QED
      BY <2>1, <2>2 DEF Counted, NoLostWakeup
  <1>2. CASE Ready(b) /\ Wait(b) > 0
    <2>1. /\ budget' = [b EXCEPT !.timer = Wait(b)]
          /\ wire' = w /\ quiet' = q /\ started' = started
      BY <1>2 DEF Drain
    <2>2. Wait(b) \in Nat
      BY BudgetAssumption DEF Counted, Fields, Wait, Greatest
    <2>3. budget' \in Fields
      BY <2>1, <2>2 DEF Counted, Fields
    <2>4. /\ budget'.queue = b.queue /\ budget'.active = b.active
          /\ budget'.nextStart = b.nextStart /\ budget'.timer = Wait(b)
          /\ budget'.cooldownUntil = b.cooldownUntil
      BY <2>1 DEF Counted, Fields
    <2>5. budget'.timer # Off
      BY <1>2, <2>4 DEF Off
    <2>6. QED
      BY <2>1, <2>3, <2>4, <2>5 DEF Counted, NoLostWakeup, Wait
  <1>3. CASE Ready(b) /\ Wait(b) = 0
    <2>1. /\ b.queue \in Seq(Job) /\ b.queue # <<>> /\ Head(b.queue) \in Job
          /\ Tail(b.queue) \in Seq(Job) /\ Len(Tail(b.queue)) <= QueueSize
      BY <1>3, BudgetAssumption DEF Counted, Fields, Ready
    <2>2. /\ Started(w, Head(b.queue)) \in Seq(Request)
          /\ Len(Started(w, Head(b.queue))) = Len(w) + 1
      BY <2>1, BudgetAssumption DEF Started, Counted, Job, Request
    <2>3. Taken(b) \in Fields /\ Taken(b).active = b.active + 1
            /\ Taken(b).queue = Tail(b.queue) /\ Taken(b).nextStart = Interval
            /\ Taken(b).timer = Off
      <3>1. b \in Fields /\ b.active + 1 \in Nat /\ Interval \in 0..Interval /\ b.timer = Off
        BY <1>3, BudgetAssumption DEF Counted, Fields, Ready
      <3>2. QED
        BY <2>1, <3>1 DEF Taken, Fields
    <2>4. /\ budget' \in Fields /\ budget'.queue = Tail(b.queue)
          /\ budget'.active = b.active + 1 /\ budget'.nextStart = Interval
          /\ budget'.timer = IF Ready(Taken(b)) THEN Interval ELSE Off
      <3>1. PICK t : t = Taken(b)
        OBVIOUS
      <3>2. PICK n : n = IF Ready(t) THEN Interval ELSE Off
        OBVIOUS
      <3>3. budget' = [t EXCEPT !.timer = n]
        BY <1>3, <3>1, <3>2 DEF Drain
      <3>4. n \in Nat \cup {Off} /\ t \in Fields
        BY <2>3, <3>1, <3>2, BudgetAssumption
      <3>5. /\ budget' \in Fields /\ budget'.queue = t.queue /\ budget'.active = t.active
            /\ budget'.nextStart = t.nextStart /\ budget'.timer = n
        BY <3>3, <3>4 DEF Fields
      <3>6. QED
        BY <2>3, <3>1, <3>2, <3>5
    <2>5. wire' = Started(w, Head(b.queue)) /\ quiet' = Greatest(q, Interval)
            /\ started' = 1 - started /\ q = 0
      BY <1>3 DEF Drain, Counted
    <2>6. Counted(budget', wire', quiet')
      BY <1>3, <2>1, <2>2, <2>4, <2>5, BudgetAssumption
         DEF Counted, Ready, Wait, Greatest, Fields
    <2>7. NoLostWakeup'
      BY <2>3, <2>4, BudgetAssumption DEF NoLostWakeup, Ready, Off, Fields
    <2>8. QED
      BY <2>5, <2>6, <2>7
  <1>4. QED
    BY <1>1, <1>2, <1>3 DEF Drain, Counted, Wait, Greatest, Fields

-----------------------------------------------------------------------------
(* The steps.                                                              *)

ReaderTyped == [pc : {"idle", "wait", "sleep"}, answer : {"none", "limited", "final"},
                attempt : 0..MaxAttempts - 1, left : 0..BackoffCap]

LEMMA IdleTyped == Idle \in ReaderTyped
  BY BudgetAssumption DEF Idle, ReaderTyped

\* Telling a reader, or nobody, keeps the types.
LEMMA FinishTyped ==
    ASSUME NEW of, NEW answer \in {"limited", "final"}, Finish(of, answer),
           reader \in [Readers -> ReaderTyped]
    PROVE  reader' \in [Readers -> ReaderTyped]
  <1>1. \A x \in ReaderTyped : [x EXCEPT !.answer = answer] \in ReaderTyped
    BY DEF ReaderTyped
  <1>2. QED
    BY <1>1 DEF Finish

\* What BudgetInv says, in the form the steps use.
LEMMA InvParts ==
    BudgetInv <=> /\ Counted(budget, wire, quiet) /\ NoLostWakeup
                  /\ reader \in [Readers -> ReaderTyped] /\ started \in 0..1
  BY DEF BudgetInv, TypeOK, Counted, Fields, ReaderTyped

\* A step that ends in drain.
LEMMA DrainStep ==
    ASSUME BudgetInv, NEW b, NEW w, NEW q, Counted(b, w, q), quiet <= q,
           Drain(b, w, q)
    PROVE  StepKept
  <1>1. quiet \in Nat /\ q \in Nat /\ started \in 0..1
    BY InvParts DEF Counted
  <1>2. QED
    BY <1>1, DrainKeeps DEF StepKept

\* A step that leaves the counted fields and what is owed alone.
LEMMA QuietStep ==
    ASSUME BudgetInv, UNCHANGED <<budget, started, quiet>>,
           wire' \in Seq(Request), Len(wire') = Len(wire)
    PROVE  StepKept
  BY InvParts DEF StepKept, Counted, NoLostWakeup

LEMMA RunKept ==
    ASSUME BudgetInv, NEW r \in Readers, Run(r)
    PROVE  StepKept /\ reader' \in [Readers -> ReaderTyped]
  <1> DEFINE j == [of |-> r, left |-> QueueTimeout]
             b == [budget EXCEPT !.queue = Append(@, j)]
  <1>1. Counted(budget, wire, quiet) /\ reader \in [Readers -> ReaderTyped]
    BY InvParts
  <1>2. CASE Len(budget.queue) < QueueSize
    <2>1. j \in Job
      BY BudgetAssumption DEF Job
    <2>2. /\ budget \in Fields /\ budget.queue \in Seq(Job) /\ Len(budget.queue) \in Nat
      BY <1>1 DEF Counted, Fields
    <2>3. Append(budget.queue, j) \in Seq(Job) /\ Len(Append(budget.queue, j)) <= QueueSize
      BY <1>2, <2>1, <2>2, BudgetAssumption
    <2>4. /\ b \in Fields /\ b.queue = Append(budget.queue, j) /\ b.active = budget.active
          /\ b.nextStart = budget.nextStart /\ b.cooldownUntil = budget.cooldownUntil
      BY <2>2, <2>3 DEF Fields
    <2>5. Counted(b, wire, quiet)
      BY <1>1, <2>3, <2>4 DEF Counted, Wait
    <2>6. /\ Drain(b, wire, quiet) /\ reader' = [reader EXCEPT ![r].pc = "wait"]
      BY <1>2, <2>2, BudgetAssumption DEF Run
    <2>7. StepKept
      <3>1. quiet <= quiet
        BY <1>1 DEF Counted
      <3> HIDE DEF b
      <3>2. QED
        BY <2>5, <2>6, <3>1, DrainStep
    <2>8. reader' \in [Readers -> ReaderTyped]
      BY <1>1, <2>6 DEF ReaderTyped
    <2>9. QED
      BY <2>7, <2>8
  <1>3. CASE ~(Len(budget.queue) < QueueSize)
    <2>1. UNCHANGED <<budget, wire, started, quiet>> /\ reader' = [reader EXCEPT ![r] = Idle]
      BY <1>3 DEF Run
    <2>2. StepKept
      BY <1>1, <2>1, QuietStep DEF Counted
    <2>3. QED
      BY <1>1, <2>1, <2>2, IdleTyped
  <1>4. QED
    BY <1>2, <1>3

\* A job leaves the queue unserved: by its deadline or its caller's signal.
LEMMA RejectKept ==
    ASSUME BudgetInv, NEW i \in DOMAIN budget.queue, Reject(i)
    PROVE  StepKept /\ reader' \in [Readers -> ReaderTyped]
  <1>1. Counted(budget, wire, quiet) /\ reader \in [Readers -> ReaderTyped]
    BY InvParts
  <1>2. budget \in Fields /\ budget.queue \in Seq(Job)
    BY <1>1 DEF Counted, Fields
  <1>3. /\ RemoveAt(budget.queue, i) \in Seq(Job)
        /\ Len(RemoveAt(budget.queue, i)) = Len(budget.queue) - 1
    BY <1>2, Spliced
  <1>4. /\ Removed(i) \in Fields /\ Removed(i).queue = RemoveAt(budget.queue, i)
        /\ Removed(i).active = budget.active /\ Removed(i).nextStart = budget.nextStart
        /\ Removed(i).cooldownUntil = budget.cooldownUntil
    BY <1>2, <1>3 DEF Removed, Fields
  <1>5. Len(budget.queue) \in Nat /\ Len(budget.queue) <= QueueSize
    BY <1>1, <1>2 DEF Counted
  <1>6. Counted(Removed(i), wire, quiet)
    BY <1>1, <1>3, <1>4, <1>5, BudgetAssumption DEF Counted, Wait
  <1>7. StepKept
    BY <1>1, <1>6, DrainStep DEF Reject, Counted
  <1>8. QED
    BY <1>1, <1>7, FinishTyped DEF Reject

\* A request is marked: nobody waits for it, its timer is off, it met a 429.
LEMMA Marked ==
    ASSUME NEW i \in DOMAIN wire, wire \in Seq(Request)
    PROVE  /\ [wire EXCEPT ![i].of = Nobody] \in [1..Len(wire) -> Request]
           /\ [wire EXCEPT ![i].of = Nobody, ![i].left = Off] \in [1..Len(wire) -> Request]
           /\ [wire EXCEPT ![i].limited = TRUE] \in [1..Len(wire) -> Request]
  <1>1. wire[i] \in Request /\ wire \in [1..Len(wire) -> Request]
    OBVIOUS
  <1>2. /\ [wire[i] EXCEPT !.of = Nobody] \in Request
        /\ [wire[i] EXCEPT !.of = Nobody, !.left = Off] \in Request
        /\ [wire[i] EXCEPT !.limited = TRUE] \in Request
    BY <1>1 DEF Request
  <1>3. QED
    BY <1>1, <1>2

\* The caller of a request under way is told; the slot stays taken.
LEMMA SentKept ==
    ASSUME BudgetInv, NEW i \in 1..Concurrency, AbortSent(i) \/ RequestDeadline(i)
    PROVE  StepKept /\ reader' \in [Readers -> ReaderTyped]
  <1>1. wire \in Seq(Request) /\ reader \in [Readers -> ReaderTyped] /\ i \in DOMAIN wire
    BY InvParts DEF Counted, AbortSent, RequestDeadline
  <1>2. wire' \in Seq(Request) /\ Len(wire') = Len(wire)
    <2>1. \/ wire' = [wire EXCEPT ![i].of = Nobody]
          \/ wire' = [wire EXCEPT ![i].of = Nobody, ![i].left = Off]
      BY DEF AbortSent, RequestDeadline
    <2>2. wire' \in [1..Len(wire) -> Request]
      BY <1>1, <2>1, Marked
    <2>3. Len(wire) \in Nat
      BY <1>1
    <2>4. QED
      BY <2>2, <2>3, Rewritten
  <1>3. UNCHANGED <<budget, started, quiet>> /\ Finish(wire[i].of, "final")
    BY DEF AbortSent, RequestDeadline
  <1>4. QED
    BY <1>1, <1>2, <1>3, QuietStep, FinishTyped

\* The slot of a settled request is free again.
LEMMA SettleKept ==
    ASSUME BudgetInv, NEW i \in 1..Concurrency, NEW answer \in {"limited", "final"},
           Settle(i, answer)
    PROVE  StepKept /\ reader' \in [Readers -> ReaderTyped]
  <1>1. /\ Counted(budget, wire, quiet) /\ reader \in [Readers -> ReaderTyped]
        /\ i \in DOMAIN wire
    BY InvParts DEF Settle
  <1>2. /\ RemoveAt(wire, i) \in Seq(Request) /\ Len(RemoveAt(wire, i)) = Len(wire) - 1
        /\ Len(wire) \in Nat \ {0}
    BY <1>1, Spliced DEF Counted
  <1>3. /\ Released \in Fields /\ Released.queue = budget.queue
        /\ Released.active = budget.active - 1 /\ Released.nextStart = budget.nextStart
        /\ Released.cooldownUntil = budget.cooldownUntil
    <2>1. budget \in Fields /\ budget.active - 1 \in Nat
      BY <1>1, <1>2 DEF Counted
    <2>2. QED
      BY <2>1 DEF Released, Fields
  <1>4. Counted(Released, RemoveAt(wire, i), quiet) /\ quiet <= quiet
    BY <1>1, <1>2, <1>3, BudgetAssumption DEF Counted, Wait
  <1>5. StepKept
    BY <1>4, DrainStep DEF Settle
  <1>6. QED
    BY <1>1, <1>5, FinishTyped DEF Settle

\* A pause lengthens what the budget waits for by what it adds to what is owed.
LEMMA RateLimitedKept ==
    ASSUME BudgetInv, NEW i \in 1..Concurrency, NEW pause \in RetryAfter,
           RateLimited(i, pause)
    PROVE  StepKept
  <1> DEFINE granted == Least(pause, PauseCap)
             w == [wire EXCEPT ![i].limited = TRUE]
             q == Greatest(quiet, granted)
  <1>1. Counted(budget, wire, quiet) /\ i \in DOMAIN wire
    BY InvParts DEF RateLimited
  <1>2. granted \in 0..PauseCap
    BY BudgetAssumption DEF Least
  <1>3. w \in Seq(Request) /\ Len(w) = Len(wire)
    <2>1. wire \in Seq(Request) /\ Len(wire) \in Nat
      BY <1>1 DEF Counted
    <2>2. w \in [1..Len(wire) -> Request]
      BY <1>1, <2>1, Marked
    <2> HIDE DEF w
    <2>3. QED
      BY <2>1, <2>2, Rewritten
  <1>4. /\ Deferred(pause) \in Fields /\ Deferred(pause).queue = budget.queue
        /\ Deferred(pause).active = budget.active
        /\ Deferred(pause).nextStart = budget.nextStart
        /\ Deferred(pause).cooldownUntil = Greatest(budget.cooldownUntil, granted)
    BY <1>1, <1>2, BudgetAssumption DEF Deferred, Counted, Fields, Greatest
  <1>5. q \in Nat /\ quiet <= q /\ q <= Wait(Deferred(pause))
    BY <1>1, <1>2, <1>4, BudgetAssumption DEF Counted, Fields, Wait, Greatest
  <1>6. Counted(Deferred(pause), w, q)
    BY <1>1, <1>3, <1>4, <1>5 DEF Counted
  <1>7. Drain(Deferred(pause), w, q)
    BY DEF RateLimited
  <1> HIDE DEF w, q
  <1>8. QED
    BY <1>5, <1>6, <1>7, DrainStep

LEMMA TimerKept ==
    ASSUME BudgetInv, TimerFires
    PROVE  StepKept
  <1> DEFINE b == [budget EXCEPT !.timer = Off]
  <1>1. Counted(budget, wire, quiet)
    BY InvParts
  <1>2. /\ b \in Fields /\ b.queue = budget.queue /\ b.active = budget.active
        /\ b.nextStart = budget.nextStart /\ b.cooldownUntil = budget.cooldownUntil
    BY <1>1 DEF Counted, Fields
  <1>3. Counted(b, wire, quiet) /\ quiet <= quiet
    BY <1>1, <1>2 DEF Counted, Wait
  <1>4. Drain(b, wire, quiet)
    BY DEF TimerFires
  <1> HIDE DEF b
  <1>5. QED
    BY <1>3, <1>4, DrainStep

\* A caller that leaves takes nothing but its name out of the lists.
LEMMA AbandonKept ==
    ASSUME BudgetInv, NEW r \in Readers, Abandon(r)
    PROVE  StepKept /\ reader' \in [Readers -> ReaderTyped]
  <1>1. Counted(budget, wire, quiet) /\ NoLostWakeup /\ started \in 0..1
    BY InvParts
  <1>2. budget \in Fields /\ budget.queue \in Seq(Job) /\ wire \in Seq(Request)
    BY <1>1 DEF Counted, Fields
  <1>3. /\ Left(budget.queue, r) \in Seq(Job) /\ Len(Left(budget.queue, r)) = Len(budget.queue)
        /\ Left(wire, r) \in Seq(Request) /\ Len(Left(wire, r)) = Len(wire)
    BY <1>2, LeftTyped
  <1>4. /\ budget' \in Fields /\ budget'.queue = Left(budget.queue, r)
        /\ budget'.active = budget.active /\ budget'.timer = budget.timer
        /\ budget'.nextStart = budget.nextStart
        /\ budget'.cooldownUntil = budget.cooldownUntil
    BY <1>2, <1>3 DEF Abandon, Fields
  <1>5. Counted(budget', wire', quiet')
    BY <1>1, <1>3, <1>4 DEF Counted, Wait, Abandon
  <1>6. NoLostWakeup'
    BY <1>1, <1>2, <1>3, <1>4 DEF NoLostWakeup
  <1>7. QED
    BY <1>1, <1>5, <1>6, InvParts, IdleTyped DEF StepKept, Abandon

\* The answer of an attempt: the read is over, or sleeps before the next one.
LEMMA ReturnKept ==
    ASSUME BudgetInv, NEW r \in Readers, Return(r)
    PROVE  StepKept /\ reader' \in [Readers -> ReaderTyped]
  <1>1. Counted(budget, wire, quiet) /\ reader \in [Readers -> ReaderTyped]
    BY InvParts
  <1>2. StepKept
    BY <1>1, QuietStep DEF Return, Counted
  <1>3. reader[r].attempt \in Nat
    BY <1>1, BudgetAssumption DEF ReaderTyped
  <1>4. ASSUME NEW attempt \in 1..MaxAttempts - 1, NEW delay \in BackoffDelays(attempt)
        PROVE  [pc |-> "sleep", answer |-> "none", attempt |-> attempt, left |-> delay]
                 \in ReaderTyped
    <2>1. delay \in 0..BackoffCap
      BY <1>4 DEF BackoffDelays
    <2>2. QED
      BY <2>1, BudgetAssumption DEF ReaderTyped
  <1>5. CASE reader' = [reader EXCEPT ![r] = Idle]
    BY <1>1, <1>2, <1>5, IdleTyped
  <1>6. CASE /\ reader[r].attempt + 1 < MaxAttempts
             /\ \E delay \in BackoffDelays(reader[r].attempt + 1) :
                  reader' = [reader EXCEPT ![r] =
                    [pc |-> "sleep", answer |-> "none",
                     attempt |-> reader[r].attempt + 1, left |-> delay]]
    <2>1. reader[r].attempt + 1 \in 1..MaxAttempts - 1
      BY <1>3, <1>6, BudgetAssumption
    <2>2. PICK delay \in BackoffDelays(reader[r].attempt + 1) :
            reader' = [reader EXCEPT ![r] =
              [pc |-> "sleep", answer |-> "none",
               attempt |-> reader[r].attempt + 1, left |-> delay]]
      BY <1>6
    <2>3. QED
      BY <1>1, <1>2, <1>4, <2>1, <2>2
  <1>7. QED
    BY <1>5, <1>6 DEF Return

\* Time shortens what is waited for and what is owed alike.
LEMMA TickKept ==
    ASSUME BudgetInv, Tick
    PROVE  StepKept /\ reader' \in [Readers -> ReaderTyped]
  <1>1. /\ Counted(budget, wire, quiet) /\ NoLostWakeup /\ started \in 0..1
        /\ reader \in [Readers -> ReaderTyped]
    BY InvParts
  <1>2. budget \in Fields /\ budget.queue \in Seq(Job) /\ wire \in Seq(Request)
    BY <1>1 DEF Counted, Fields
  <1>3. /\ Older(budget.queue) \in Seq(Job) /\ Len(Older(budget.queue)) = Len(budget.queue)
        /\ Older(wire) \in Seq(Request) /\ Len(Older(wire)) = Len(wire)
    BY <1>2, OlderTyped
  <1>4. /\ \A n \in Nat : Ticked(n) \in 0..n
        /\ \A m, n \in Nat : m <= n => Ticked(m) <= Ticked(n)
        /\ \A n \in Nat \cup {Off} : Ticked(n) \in Nat \cup {Off} /\ (Ticked(n) = Off <=> n = Off)
    BY DEF Ticked, Off
  <1>5. /\ Ticked(budget.timer) \in Nat \cup {Off}
        /\ Ticked(budget.nextStart) \in 0..Interval
        /\ Ticked(budget.cooldownUntil) \in 0..PauseCap
    BY <1>2, BudgetAssumption DEF Fields, Ticked, Off
  <1>6. /\ budget' \in Fields /\ budget'.queue = Older(budget.queue)
        /\ budget'.active = budget.active /\ budget'.timer = Ticked(budget.timer)
        /\ budget'.nextStart = Ticked(budget.nextStart)
        /\ budget'.cooldownUntil = Ticked(budget.cooldownUntil)
    BY <1>2, <1>3, <1>5 DEF Tick, Fields
  <1>7. Wait(budget') = Ticked(Wait(budget)) /\ Wait(budget) \in Nat
    BY <1>2, <1>6, BudgetAssumption DEF Wait, Greatest, Ticked, Fields
  <1>8. wire' = Older(wire) /\ quiet' = Ticked(quiet) /\ started' = started
    BY DEF Tick
  <1>9. Counted(budget', wire', quiet')
    BY <1>1, <1>3, <1>4, <1>6, <1>7, <1>8 DEF Counted
  <1>10. NoLostWakeup'
    BY <1>1, <1>2, <1>3, <1>4, <1>6 DEF NoLostWakeup, Fields
  <1>11. reader' \in [Readers -> ReaderTyped]
    <2>1. \A x \in ReaderTyped : [x EXCEPT !.left = Ticked(@)] \in ReaderTyped
      BY BudgetAssumption DEF ReaderTyped, Ticked
    <2>2. QED
      BY <1>1, <2>1 DEF Tick
  <1>12. QED
    BY <1>1, <1>8, <1>9, <1>10, <1>11 DEF StepKept

-----------------------------------------------------------------------------
(* Who waits where.                                                        *)

\* How many jobs of a list are of one reader.
Places(s, r) == {i \in DOMAIN s : s[i].of = r}
Held(s, r) == Cardinality(Places(s, r))
Mine(j, r) == IF j.of = r THEN 1 ELSE 0

LEMMA HeldType ==
    ASSUME NEW S, NEW s \in Seq(S), NEW r
    PROVE  IsFiniteSet(Places(s, r)) /\ Held(s, r) \in Nat
  <1>1. Len(s) \in Int /\ 1 \in Int /\ DOMAIN s = 1..Len(s)
    OBVIOUS
  <1>2. IsFiniteSet(1..Len(s))
    BY <1>1, FS_Interval
  <1>3. Places(s, r) \in SUBSET (1..Len(s))
    BY <1>1 DEF Places
  <1>4. QED
    BY <1>2, <1>3, FS_Subset, FS_CardinalityType DEF Held

\* push: the new job adds itself.
LEMMA HeldAppend ==
    ASSUME NEW S, NEW s \in Seq(S), NEW j \in S, NEW r
    PROVE  Held(Append(s, j), r) = Held(s, r) + Mine(j, r)
  <1> DEFINE n == Len(s) + 1
  <1>1. /\ n \notin Places(s, r)
        /\ Places(Append(s, j), r) = IF j.of = r THEN Places(s, r) \cup {n} ELSE Places(s, r)
    <2>1. /\ DOMAIN s = 1..Len(s) /\ DOMAIN Append(s, j) = 1..n /\ Len(s) \in Nat
          /\ Append(s, j)[n] = j /\ \A i \in 1..Len(s) : Append(s, j)[i] = s[i]
      OBVIOUS
    <2>2. QED
      BY <2>1 DEF Places
  <1>2. IsFiniteSet(Places(s, r)) /\ Held(s, r) \in Nat
    BY HeldType
  <1> HIDE DEF n
  <1>3. Cardinality(Places(s, r) \cup {n}) = Cardinality(Places(s, r)) + 1
    BY <1>1, <1>2, FS_AddElement
  <1>4. QED
    BY <1>1, <1>2, <1>3 DEF Held, Mine

\* splice(index, 1) and shift: the job removed takes itself away, the ones
\* behind it move up.
LEMMA HeldRemove ==
    ASSUME NEW S, NEW s \in Seq(S), NEW k \in DOMAIN s, NEW r
    PROVE  Held(RemoveAt(s, k), r) = Held(s, r) - Mine(s[k], r)
  <1> DEFINE t == RemoveAt(s, k)
             old(j) == IF j < k THEN j ELSE j + 1
             up == [j \in Places(t, r) |-> old(j)]
             others == Places(s, r) \ {k}
  <1>1. /\ Len(s) \in Nat /\ k \in 1..Len(s) /\ DOMAIN s = 1..Len(s)
        /\ DOMAIN t = 1..Len(s) - 1 /\ t \in Seq(S)
        /\ \A j \in 1..Len(s) - 1 : t[j] = s[old(j)]
    <2> DEFINE front == SubSeq(s, 1, k - 1)
               back == SubSeq(s, k + 1, Len(s))
    <2>1. Len(s) \in Nat /\ k \in 1..Len(s) /\ DOMAIN s = 1..Len(s)
      OBVIOUS
    <2>2. /\ front \in Seq(S) /\ Len(front) = k - 1
          /\ \A j \in 1..k - 1 : front[j] = s[j]
      BY <2>1
    <2>3. /\ back \in Seq(S) /\ Len(back) = Len(s) - k
          /\ \A j \in 1..Len(s) - k : back[j] = s[k + j]
      BY <2>1
    <2> HIDE DEF front, back
    <2>4. /\ front \o back \in Seq(S) /\ DOMAIN (front \o back) = 1..Len(s) - 1
          /\ \A j \in 1..Len(s) - 1 :
               (front \o back)[j] = IF j < k THEN front[j] ELSE back[j - (k - 1)]
      <3>1. /\ front \o back \in Seq(S) /\ Len(front \o back) = Len(front) + Len(back)
            /\ \A j \in 1..Len(front) + Len(back) : (front \o back)[j] =
                 IF j <= Len(front) THEN front[j] ELSE back[j - Len(front)]
        BY <2>2, <2>3
      <3>2. Len(front) + Len(back) = Len(s) - 1
        BY <2>1, <2>2, <2>3
      <3>3. \A j \in 1..Len(s) - 1 : j <= Len(front) <=> j < k
        BY <2>1, <2>2
      <3>4. QED
        BY <2>2, <3>1, <3>2, <3>3
    <2>5. ASSUME NEW j \in 1..Len(s) - 1 PROVE (front \o back)[j] = s[old(j)]
      <3>1. CASE j < k
        <4>1. j \in 1..k - 1
          BY <2>1, <3>1
        <4>2. QED
          BY <2>2, <2>4, <3>1, <4>1
      <3>2. CASE ~(j < k)
        <4>1. j - (k - 1) \in 1..Len(s) - k /\ k + (j - (k - 1)) = j + 1
          BY <2>1, <3>2
        <4>2. QED
          BY <2>3, <2>4, <3>2, <4>1
      <3>3. QED
        BY <3>1, <3>2
    <2>6. t = front \o back
      BY DEF RemoveAt, front, back
    <2>7. QED
      BY <2>1, <2>4, <2>5, <2>6
  <1> HIDE DEF t
  <1>2. up \in Bijection(Places(t, r), others)
    <2>1. ASSUME NEW j \in Places(t, r) PROVE up[j] \in others
      BY <1>1 DEF Places
    <2>2. ASSUME NEW i \in Places(t, r), NEW j \in Places(t, r), up[i] = up[j]
          PROVE  i = j
      BY <1>1, <2>2 DEF Places
    <2>3. ASSUME NEW i \in others PROVE \E j \in Places(t, r) : up[j] = i
      <3>1. i \in 1..Len(s) /\ s[i].of = r /\ i # k
        BY <1>1 DEF Places
      <3>2. CASE i < k
        <4>1. i \in 1..Len(s) - 1 /\ t[i] = s[i]
          BY <1>1, <3>1, <3>2
        <4>2. i \in Places(t, r) /\ up[i] = i
          BY <1>1, <3>1, <3>2, <4>1 DEF Places
        <4>3. QED
          BY <4>2
      <3>3. CASE i > k
        <4>1. i - 1 \in 1..Len(s) - 1 /\ ~(i - 1 < k) /\ (i - 1) + 1 = i
          BY <1>1, <3>1, <3>3
        <4>2. t[i - 1] = s[i]
          BY <1>1, <4>1
        <4>3. i - 1 \in Places(t, r) /\ up[i - 1] = i
          BY <1>1, <3>1, <4>1, <4>2 DEF Places
        <4>4. QED
          BY <4>3
      <3>4. QED
        BY <1>1, <3>1, <3>2, <3>3
    <2>4. up \in [Places(t, r) -> others]
      BY <2>1
    <2>5. QED
      BY <2>2, <2>3, <2>4 DEF Bijection, Injection, Surjection, IsInjective
  <1>3. /\ IsFiniteSet(Places(t, r)) /\ IsFiniteSet(Places(s, r))
        /\ Held(t, r) \in Nat /\ Held(s, r) \in Nat
    BY <1>1, HeldType
  <1>4. Cardinality(others) = Cardinality(Places(t, r))
    BY <1>2, <1>3, FS_Bijection DEF ExistsBijection
  <1>5. Cardinality(others) =
          IF k \in Places(s, r) THEN Cardinality(Places(s, r)) - 1 ELSE Cardinality(Places(s, r))
    BY <1>3, FS_RemoveElement
  <1>6. k \in Places(s, r) <=> s[k].of = r
    BY DEF Places
  <1>7. QED
    BY <1>3, <1>4, <1>5, <1>6 DEF Held, Mine, t

LEMMA HeldTail ==
    ASSUME NEW S, NEW s \in Seq(S), s # <<>>, NEW r
    PROVE  Held(Tail(s), r) = Held(s, r) - Mine(Head(s), r)
  <1>1. 1 \in DOMAIN s /\ s[1] = Head(s) /\ Tail(s) = RemoveAt(s, 1)
    BY DEF RemoveAt
  <1>2. QED
    BY <1>1, HeldRemove

\* A list whose entries keep their readers.
LEMMA HeldSame ==
    ASSUME NEW s, NEW t, NEW r, DOMAIN t = DOMAIN s,
           \A i \in DOMAIN s : t[i].of = r <=> s[i].of = r
    PROVE  Held(t, r) = Held(s, r)
  <1>1. Places(t, r) = Places(s, r)
    BY DEF Places
  <1>2. QED
    BY <1>1 DEF Held

\* A job or a request nobody waits for any more.
LEMMA HeldUnnamed ==
    ASSUME NEW S, NEW s \in Seq(S), NEW t \in Seq(S), NEW k \in DOMAIN s,
           DOMAIN t = DOMAIN s, t[k].of = Nobody,
           \A i \in DOMAIN s : i # k => t[i].of = s[i].of, NEW r \in Readers
    PROVE  Held(t, r) = Held(s, r) - Mine(s[k], r)
  <1>1. r # Nobody
    BY BudgetAssumption
  <1>2. Places(t, r) = Places(s, r) \ {k}
    BY <1>1 DEF Places
  <1>3. IsFiniteSet(Places(s, r)) /\ Held(s, r) \in Nat
    BY HeldType
  <1>4. Cardinality(Places(s, r) \ {k}) =
          IF k \in Places(s, r) THEN Cardinality(Places(s, r)) - 1 ELSE Cardinality(Places(s, r))
    BY <1>3, FS_RemoveElement
  <1>5. k \in Places(s, r) <=> s[k].of = r
    BY DEF Places
  <1>6. QED
    BY <1>2, <1>3, <1>4, <1>5 DEF Held, Mine

\* The lists of a reader that has left, and those of the others.
LEMMA HeldLeft ==
    ASSUME NEW s \in Seq(Job) \cup Seq(Request), NEW r \in Readers, NEW x \in Readers
    PROVE  Held(Left(s, r), x) = IF x = r THEN 0 ELSE Held(s, x)
  <1>1. x # Nobody
    BY BudgetAssumption
  <1>2. Places(Left(s, r), x) = IF x = r THEN {} ELSE Places(s, x)
    BY <1>1 DEF Places, Left
  <1>3. QED
    BY <1>2, FS_EmptySet DEF Held

-----------------------------------------------------------------------------
(* One request for each reader.  Inductive with the fact that only a reader *)
(* that waits can have been told something.                                 *)

Asked(b, w, r) == Held(b.queue, r) + Held(w, r)
Waits(r) == IF reader[r].pc = "wait" /\ reader[r].answer = "none" THEN 1 ELSE 0
AskedOnce == \A r \in Readers : Asked(budget, wire, r) = Waits(r)
OnlyWaitersTold == \A r \in Readers : reader[r].pc # "wait" => reader[r].answer = "none"

WaitInv == BudgetInv /\ AskedOnce /\ OnlyWaitersTold

LEMMA WaitParts ==
    ASSUME WaitInv
    PROVE  /\ Counted(budget, wire, quiet) /\ reader \in [Readers -> ReaderTyped]
           /\ budget.queue \in Seq(Job) /\ wire \in Seq(Request) /\ budget \in Fields
           /\ \A r : /\ Held(budget.queue, r) \in Nat /\ Held(wire, r) \in Nat
                     /\ Asked(budget, wire, r) \in Nat
  <1>1. /\ Counted(budget, wire, quiet) /\ reader \in [Readers -> ReaderTyped]
        /\ budget.queue \in Seq(Job) /\ wire \in Seq(Request) /\ budget \in Fields
    BY InvParts DEF WaitInv, Counted, Fields
  <1>2. \A r : Held(budget.queue, r) \in Nat /\ Held(wire, r) \in Nat
    BY <1>1, HeldType
  <1>3. QED
    BY <1>1, <1>2 DEF Asked

\* A job that is somewhere counts.
LEMMA HeldThere ==
    ASSUME NEW S, NEW s \in Seq(S), NEW k \in DOMAIN s
    PROVE  Held(s, s[k].of) >= 1
  <1>1. RemoveAt(s, k) \in Seq(S)
    BY Spliced
  <1>2. Held(RemoveAt(s, k), s[k].of) \in Nat /\ Held(s, s[k].of) \in Nat
    BY <1>1, HeldType
  <1>3. Held(RemoveAt(s, k), s[k].of) = Held(s, s[k].of) - Mine(s[k], s[k].of)
    BY HeldRemove
  <1>4. QED
    BY <1>2, <1>3 DEF Mine

\* drain moves a job from the queue to the requests under way: nobody's count
\* changes.
LEMMA DrainAsks ==
    ASSUME NEW b, NEW w, NEW q, Counted(b, w, q), Drain(b, w, q), NEW r
    PROVE  Asked(budget', wire', r) = Asked(b, w, r)
  <1>1. b \in Fields /\ b.queue \in Seq(Job) /\ w \in Seq(Request)
    BY DEF Counted, Fields
  <1>2. CASE budget'.queue = b.queue /\ wire' = w
    BY <1>2 DEF Asked
  <1>3. CASE Ready(b) /\ Wait(b) = 0
    <2> DEFINE j == Head(b.queue)
               request == [of |-> j.of, left |-> RequestTimeout, limited |-> FALSE]
    <2>1. b.queue # <<>> /\ j \in Job /\ request \in Request /\ j.of = request.of
      <3>1. b.queue # <<>>
        BY <1>3 DEF Ready
      <3>2. j \in Job
        BY <1>1, <3>1
      <3>3. RequestTimeout \in Nat
        BY BudgetAssumption
      <3> HIDE DEF j
      <3>4. QED
        BY <3>1, <3>2, <3>3 DEF Job, Request
    <2>2. wire' = Append(w, request)
      BY <1>3 DEF Drain, Started
    <2>3. budget'.queue = Tail(b.queue)
      <3>1. b.active + 1 \in Nat /\ Interval \in 0..Interval /\ Tail(b.queue) \in Seq(Job)
        BY <1>1, <2>1, BudgetAssumption DEF Fields
      <3>2. Taken(b) \in Fields /\ Taken(b).queue = Tail(b.queue)
        BY <1>1, <3>1 DEF Taken, Fields
      <3>3. \E t : budget' = [Taken(b) EXCEPT !.timer = t]
        BY <1>3 DEF Drain
      <3>4. QED
        BY <3>2, <3>3 DEF Fields
    <2>4. Held(budget'.queue, r) = Held(b.queue, r) - Mine(j, r)
      BY <1>1, <2>1, <2>3, HeldTail
    <2> HIDE DEF request, j
    <2>5. Held(wire', r) = Held(w, r) + Mine(request, r)
      BY <1>1, <2>1, <2>2, HeldAppend
    <2>6. Held(b.queue, r) \in Nat /\ Held(w, r) \in Nat
      BY <1>1, HeldType
    <2>7. QED
      BY <2>1, <2>4, <2>5, <2>6 DEF Asked, Mine
  <1>4. CASE ~Ready(b) \/ Wait(b) > 0
    <2>1. budget'.queue = b.queue /\ wire' = w
      BY <1>1, <1>4 DEF Drain, Fields
    <2>2. QED
      BY <2>1, <1>2
  <1>5. QED
    BY <1>3, <1>4 DEF Drain

\* Who is told something was waiting for one request, and waits for none now.
LEMMA Told ==
    ASSUME WaitInv, NEW of, NEW answer \in {"limited", "final"}, Finish(of, answer),
           of \in Readers => Asked(budget, wire, of) >= 1,
           \A r \in Readers : Asked(budget', wire', r) =
             Asked(budget, wire, r) - (IF of = r THEN 1 ELSE 0)
    PROVE  AskedOnce' /\ OnlyWaitersTold'
  <1>1. /\ reader \in [Readers -> ReaderTyped]
        /\ \A r \in Readers : Asked(budget, wire, r) \in Nat
    BY WaitParts
  <1>2. ASSUME NEW r \in Readers
        PROVE  /\ Asked(budget', wire', r) = Waits(r)'
               /\ reader'[r].pc # "wait" => reader'[r].answer = "none"
    <2>1. Asked(budget, wire, r) = Waits(r)
      BY DEF WaitInv, AskedOnce
    <2>2. CASE r = of
      <3>1. reader[r].pc = "wait" /\ reader[r].answer = "none"
        BY <1>1, <2>1, <2>2 DEF Waits
      <3>2. reader'[r].pc = "wait" /\ reader'[r].answer = answer
        BY <1>1, <2>2, <3>1 DEF Finish, ReaderTyped
      <3>3. QED
        BY <2>1, <2>2, <3>1, <3>2 DEF Waits
    <2>3. CASE r # of
      <3>1. reader'[r] = reader[r]
        BY <2>3 DEF Finish
      <3>2. QED
        BY <1>1, <2>1, <2>3, <3>1 DEF Waits, WaitInv, OnlyWaitersTold
    <2>4. QED
      BY <2>2, <2>3
  <1>3. QED
    BY <1>2 DEF AskedOnce, OnlyWaitersTold

\* Steps that tell nobody and ask for nothing.
LEMMA NobodyTold ==
    ASSUME WaitInv,
           \A r \in Readers : /\ Asked(budget', wire', r) = Asked(budget, wire, r)
                              /\ reader'[r].pc = reader[r].pc
                              /\ reader'[r].answer = reader[r].answer
    PROVE  AskedOnce' /\ OnlyWaitersTold'
  BY DEF WaitInv, AskedOnce, OnlyWaitersTold, Waits

\* A read or a retry asks for its one request, or is turned away.
LEMMA RunAsks ==
    ASSUME WaitInv, NEW r \in Readers, reader[r].pc # "wait", Run(r)
    PROVE  AskedOnce' /\ OnlyWaitersTold'
  <1> DEFINE j == [of |-> r, left |-> QueueTimeout]
             b == [budget EXCEPT !.queue = Append(@, j)]
  <1>1. /\ Counted(budget, wire, quiet) /\ reader \in [Readers -> ReaderTyped]
        /\ budget.queue \in Seq(Job) /\ wire \in Seq(Request) /\ budget \in Fields
        /\ \A x : Held(budget.queue, x) \in Nat /\ Held(wire, x) \in Nat
    BY WaitParts
  <1>2. Asked(budget, wire, r) = 0 /\ reader[r].answer = "none"
    BY DEF WaitInv, AskedOnce, OnlyWaitersTold, Waits
  <1>3. CASE Len(budget.queue) < QueueSize
    <2>1. j \in Job
      BY BudgetAssumption DEF Job
    <2>2. /\ b \in Fields /\ b.queue = Append(budget.queue, j) /\ b.active = budget.active
          /\ b.nextStart = budget.nextStart /\ b.cooldownUntil = budget.cooldownUntil
          /\ Len(b.queue) <= QueueSize
      <3>1. Append(budget.queue, j) \in Seq(Job) /\ Len(Append(budget.queue, j)) <= QueueSize
        BY <1>1, <1>3, <2>1, BudgetAssumption
      <3>2. QED
        BY <1>1, <3>1 DEF Fields
    <2>3. Counted(b, wire, quiet)
      BY <1>1, <2>2 DEF Counted, Wait
    <2>4. Drain(b, wire, quiet) /\ reader' = [reader EXCEPT ![r].pc = "wait"]
      BY <1>1, <1>3, BudgetAssumption DEF Run
    <2>5. \A x : Held(b.queue, x) = Held(budget.queue, x) + Mine(j, x)
      BY <1>1, <2>1, <2>2, HeldAppend
    <2> HIDE DEF b
    <2>6. \A x : Asked(budget', wire', x) = Asked(b, wire, x)
      BY <2>3, <2>4, DrainAsks
    <2>7. \A x : Asked(budget', wire', x) = Asked(budget, wire, x) + Mine(j, x)
      BY <1>1, <2>5, <2>6 DEF Asked, Mine
    <2>8. ASSUME NEW x \in Readers
          PROVE  /\ Asked(budget', wire', x) = Waits(x)'
                 /\ reader'[x].pc # "wait" => reader'[x].answer = "none"
      <3>1. CASE x = r
        <4>1. reader'[x].pc = "wait" /\ reader'[x].answer = "none"
          BY <1>1, <1>2, <2>4, <3>1 DEF ReaderTyped
        <4>2. Mine(j, x) = 1
          BY <3>1 DEF Mine
        <4>3. QED
          BY <1>2, <2>7, <3>1, <4>1, <4>2 DEF Waits
      <3>2. CASE x # r
        <4>1. reader'[x] = reader[x]
          BY <1>1, <2>4, <3>2
        <4>2. Mine(j, x) = 0
          BY <3>2 DEF Mine
        <4>3. Asked(budget, wire, x) = Waits(x) /\ Asked(budget, wire, x) \in Nat
          BY WaitParts DEF WaitInv, AskedOnce
        <4>4. QED
          BY <2>7, <4>1, <4>2, <4>3 DEF Waits, WaitInv, OnlyWaitersTold
      <3>3. QED
        BY <3>1, <3>2
    <2>9. QED
      BY <2>8 DEF AskedOnce, OnlyWaitersTold
  <1>4. CASE ~(Len(budget.queue) < QueueSize)
    <2>1. UNCHANGED <<budget, wire>> /\ reader' = [reader EXCEPT ![r] = Idle]
      BY <1>4 DEF Run
    <2>2. reader'[r].pc = "idle" /\ reader'[r].answer = "none"
      BY <1>1, <2>1 DEF Idle
    <2>3. \A x \in Readers : x # r => reader'[x] = reader[x]
      BY <1>1, <2>1
    <2>4. QED
      BY <1>2, <2>1, <2>2, <2>3 DEF AskedOnce, OnlyWaitersTold, Waits, WaitInv
  <1>5. QED
    BY <1>3, <1>4

LEMMA RejectAsks ==
    ASSUME WaitInv, NEW i \in DOMAIN budget.queue, Reject(i)
    PROVE  AskedOnce' /\ OnlyWaitersTold'
  <1> DEFINE of == budget.queue[i].of
  <1>1. /\ Counted(budget, wire, quiet)
        /\ budget.queue \in Seq(Job) /\ wire \in Seq(Request) /\ budget \in Fields
        /\ \A x : Held(budget.queue, x) \in Nat /\ Held(wire, x) \in Nat
    BY WaitParts
  <1>2. /\ RemoveAt(budget.queue, i) \in Seq(Job)
        /\ Len(RemoveAt(budget.queue, i)) = Len(budget.queue) - 1
    BY <1>1, Spliced
  <1>3. /\ Removed(i) \in Fields /\ Removed(i).queue = RemoveAt(budget.queue, i)
        /\ Removed(i).active = budget.active /\ Removed(i).nextStart = budget.nextStart
        /\ Removed(i).cooldownUntil = budget.cooldownUntil
    BY <1>1, <1>2 DEF Removed, Fields
  <1>4. Len(budget.queue) \in Nat /\ Len(budget.queue) <= QueueSize
    BY <1>1 DEF Counted
  <1>5. Counted(Removed(i), wire, quiet)
    BY <1>1, <1>2, <1>3, <1>4, BudgetAssumption DEF Counted, Wait
  <1>6. \A x : Held(Removed(i).queue, x) = Held(budget.queue, x) - Mine(budget.queue[i], x)
    BY <1>1, <1>3, HeldRemove
  <1>7. \A x : Asked(budget', wire', x) = Asked(Removed(i), wire, x)
    BY <1>5, DrainAsks DEF Reject
  <1>8. \A x : Asked(budget', wire', x) = Asked(budget, wire, x) - (IF of = x THEN 1 ELSE 0)
    BY <1>1, <1>6, <1>7 DEF Asked, Mine
  <1>9. Asked(budget, wire, of) >= 1
    <2>1. Held(budget.queue, of) >= 1
      BY <1>1, HeldThere
    <2>2. QED
      BY <1>1, <2>1 DEF Asked
  <1>10. Finish(of, "final")
    BY DEF Reject
  <1> HIDE DEF of
  <1>11. QED
    BY <1>8, <1>9, <1>10, Told

LEMMA SentAsks ==
    ASSUME WaitInv, NEW i \in 1..Concurrency, AbortSent(i) \/ RequestDeadline(i)
    PROVE  AskedOnce' /\ OnlyWaitersTold'
  <1> DEFINE of == wire[i].of
  <1>1. /\ wire \in Seq(Request) /\ i \in DOMAIN wire /\ budget' = budget
        /\ Finish(of, "final")
        /\ \A x : Held(budget.queue, x) \in Nat /\ Held(wire, x) \in Nat
    BY WaitParts DEF AbortSent, RequestDeadline
  <1>2. wire' \in Seq(Request) /\ DOMAIN wire' = DOMAIN wire
    <2>1. \/ wire' = [wire EXCEPT ![i].of = Nobody]
          \/ wire' = [wire EXCEPT ![i].of = Nobody, ![i].left = Off]
      BY DEF AbortSent, RequestDeadline
    <2>2. wire' \in [1..Len(wire) -> Request]
      BY <1>1, <2>1, Marked
    <2>3. Len(wire) \in Nat /\ DOMAIN wire = 1..Len(wire)
      BY <1>1
    <2>4. QED
      BY <2>2, <2>3, Rewritten
  <1>3. wire'[i].of = Nobody /\ \A k \in DOMAIN wire : k # i => wire'[k].of = wire[k].of
    <2>1. wire[i] \in Request
      BY <1>1
    <2>2. QED
      BY <1>1, <2>1 DEF AbortSent, RequestDeadline, Request
  <1>4. \A x \in Readers : Held(wire', x) = Held(wire, x) - Mine(wire[i], x)
    BY <1>1, <1>2, <1>3, HeldUnnamed
  <1>5. \A x \in Readers :
          Asked(budget', wire', x) = Asked(budget, wire, x) - (IF of = x THEN 1 ELSE 0)
    BY <1>1, <1>4 DEF Asked, Mine
  <1>6. Asked(budget, wire, of) >= 1
    <2>1. Held(wire, of) >= 1
      BY <1>1, HeldThere
    <2>2. QED
      BY <1>1, <2>1 DEF Asked
  <1> HIDE DEF of
  <1>7. QED
    BY <1>1, <1>5, <1>6, Told

LEMMA SettleAsks ==
    ASSUME WaitInv, NEW i \in 1..Concurrency, NEW answer \in {"limited", "final"},
           Settle(i, answer)
    PROVE  AskedOnce' /\ OnlyWaitersTold'
  <1> DEFINE of == wire[i].of
             w == RemoveAt(wire, i)
  <1>1. /\ Counted(budget, wire, quiet) /\ i \in DOMAIN wire
        /\ budget.queue \in Seq(Job) /\ wire \in Seq(Request) /\ budget \in Fields
        /\ \A x : Held(budget.queue, x) \in Nat /\ Held(wire, x) \in Nat
    BY WaitParts DEF Settle
  <1>2. w \in Seq(Request) /\ Len(w) = Len(wire) - 1 /\ Len(wire) \in Nat \ {0}
    BY <1>1, Spliced
  <1>3. /\ Released \in Fields /\ Released.queue = budget.queue
        /\ Released.active = budget.active - 1 /\ Released.nextStart = budget.nextStart
        /\ Released.cooldownUntil = budget.cooldownUntil
    <2>1. budget \in Fields /\ budget.active - 1 \in Nat
      BY <1>1, <1>2 DEF Counted
    <2>2. QED
      BY <2>1 DEF Released, Fields
  <1>4. \A x : Held(w, x) = Held(wire, x) - Mine(wire[i], x)
    BY <1>1, HeldRemove
  <1>5. Drain(Released, w, quiet) /\ Finish(of, answer)
    BY DEF Settle
  <1> HIDE DEF w
  <1>6. Counted(Released, w, quiet)
    BY <1>1, <1>2, <1>3, BudgetAssumption DEF Counted, Wait
  <1>7. \A x : Asked(budget', wire', x) = Asked(Released, w, x)
    BY <1>5, <1>6, DrainAsks
  <1>8. \A x : Asked(budget', wire', x) = Asked(budget, wire, x) - (IF of = x THEN 1 ELSE 0)
    BY <1>1, <1>3, <1>4, <1>7 DEF Asked, Mine
  <1>9. Asked(budget, wire, of) >= 1
    <2>1. Held(wire, of) >= 1
      BY <1>1, HeldThere
    <2>2. QED
      BY <1>1, <2>1 DEF Asked
  <1> HIDE DEF of
  <1>10. QED
    BY <1>5, <1>8, <1>9, Told

\* A pause changes what is waited for, not who waits.
LEMMA RateLimitedAsks ==
    ASSUME WaitInv, NEW i \in 1..Concurrency, NEW pause \in RetryAfter,
           RateLimited(i, pause)
    PROVE  AskedOnce' /\ OnlyWaitersTold'
  <1> DEFINE granted == Least(pause, PauseCap)
             w == [wire EXCEPT ![i].limited = TRUE]
             q == Greatest(quiet, granted)
  <1>1. /\ Counted(budget, wire, quiet) /\ i \in DOMAIN wire
        /\ wire \in Seq(Request) /\ budget \in Fields /\ reader' = reader
    BY WaitParts DEF RateLimited
  <1>2. w \in Seq(Request) /\ Len(w) = Len(wire)
    <2>1. w \in [1..Len(wire) -> Request]
      BY <1>1, Marked
    <2>2. Len(wire) \in Nat
      BY <1>1
    <2> HIDE DEF w
    <2>3. QED
      BY <2>1, <2>2, Rewritten
  <1>3. granted \in 0..PauseCap
    BY BudgetAssumption DEF Least
  <1>4. /\ Deferred(pause) \in Fields /\ Deferred(pause).queue = budget.queue
        /\ Deferred(pause).active = budget.active
        /\ Deferred(pause).nextStart = budget.nextStart
        /\ Deferred(pause).cooldownUntil = Greatest(budget.cooldownUntil, granted)
    BY <1>1, <1>3, BudgetAssumption DEF Deferred, Counted, Fields, Greatest
  <1>5. q \in Nat /\ q <= Wait(Deferred(pause))
    BY <1>1, <1>3, <1>4, BudgetAssumption DEF Counted, Fields, Wait, Greatest
  <1>6. Counted(Deferred(pause), w, q)
    BY <1>1, <1>2, <1>4, <1>5 DEF Counted
  <1>7. Drain(Deferred(pause), w, q)
    BY DEF RateLimited
  <1>8. \A x : Held(w, x) = Held(wire, x)
    <2>1. DOMAIN w = DOMAIN wire /\ wire[i] \in Request
      BY <1>1
    <2>2. \A k \in DOMAIN wire : w[k].of = wire[k].of
      BY <1>1, <2>1 DEF Request
    <2> HIDE DEF w
    <2>3. QED
      BY <2>1, <2>2, HeldSame
  <1> HIDE DEF w, q
  <1>9. \A x : Asked(budget', wire', x) = Asked(Deferred(pause), w, x)
    BY <1>6, <1>7, DrainAsks
  <1>10. \A x : Asked(budget', wire', x) = Asked(budget, wire, x)
    BY <1>4, <1>8, <1>9 DEF Asked
  <1>11. QED
    BY <1>1, <1>10, NobodyTold

LEMMA TimerAsks ==
    ASSUME WaitInv, TimerFires
    PROVE  AskedOnce' /\ OnlyWaitersTold'
  <1> DEFINE b == [budget EXCEPT !.timer = Off]
  <1>1. Counted(budget, wire, quiet) /\ budget \in Fields
    BY WaitParts
  <1>2. /\ b \in Fields /\ b.queue = budget.queue /\ b.active = budget.active
        /\ b.nextStart = budget.nextStart /\ b.cooldownUntil = budget.cooldownUntil
    BY <1>1 DEF Fields
  <1>3. Counted(b, wire, quiet)
    BY <1>1, <1>2 DEF Counted, Wait
  <1>4. Drain(b, wire, quiet) /\ reader' = reader
    BY DEF TimerFires
  <1> HIDE DEF b
  <1>5. \A x : Asked(budget', wire', x) = Asked(b, wire, x)
    BY <1>3, <1>4, DrainAsks
  <1>6. QED
    BY <1>2, <1>4, <1>5, NobodyTold DEF Asked

\* A caller that leaves is taken out of both lists.
LEMMA AbandonAsks ==
    ASSUME WaitInv, NEW r \in Readers, Abandon(r)
    PROVE  AskedOnce' /\ OnlyWaitersTold'
  <1>1. /\ budget.queue \in Seq(Job) /\ wire \in Seq(Request) /\ budget \in Fields
        /\ reader \in [Readers -> ReaderTyped]
        /\ \A x : Asked(budget, wire, x) \in Nat
    BY WaitParts
  <1>2. /\ budget'.queue = Left(budget.queue, r) /\ wire' = Left(wire, r)
        /\ reader' = [reader EXCEPT ![r] = Idle]
    BY <1>1 DEF Abandon, Fields
  <1>3. ASSUME NEW x \in Readers
        PROVE  Asked(budget', wire', x) = IF x = r THEN 0 ELSE Asked(budget, wire, x)
    <2>1. /\ Held(budget'.queue, x) = IF x = r THEN 0 ELSE Held(budget.queue, x)
          /\ Held(wire', x) = IF x = r THEN 0 ELSE Held(wire, x)
      BY <1>1, <1>2, HeldLeft
    <2>2. QED
      BY <2>1 DEF Asked
  <1>4. reader'[r].pc = "idle" /\ reader'[r].answer = "none"
    BY <1>1, <1>2 DEF Idle
  <1>5. \A x \in Readers : x # r => reader'[x] = reader[x]
    BY <1>1, <1>2
  <1>6. QED
    BY <1>3, <1>4, <1>5 DEF AskedOnce, OnlyWaitersTold, Waits, WaitInv

\* A reader that goes on had its answer.
LEMMA ReturnAsks ==
    ASSUME WaitInv, NEW r \in Readers, Return(r)
    PROVE  AskedOnce' /\ OnlyWaitersTold'
  <1>1. reader \in [Readers -> ReaderTyped]
    BY WaitParts
  <1>2. /\ reader[r].answer # "none" /\ UNCHANGED <<budget, wire>>
        /\ \/ reader' = [reader EXCEPT ![r] = Idle]
           \/ \E delay \in BackoffDelays(reader[r].attempt + 1) :
                reader' = [reader EXCEPT ![r] =
                  [pc |-> "sleep", answer |-> "none",
                   attempt |-> reader[r].attempt + 1, left |-> delay]]
    BY DEF Return
  <1>3. reader'[r].pc # "wait" /\ reader'[r].answer = "none"
    BY <1>1, <1>2 DEF Idle
  <1>4. \A x \in Readers : x # r => reader'[x] = reader[x]
    BY <1>1, <1>2
  <1>5. QED
    BY <1>2, <1>3, <1>4 DEF AskedOnce, OnlyWaitersTold, Waits, WaitInv

LEMMA TickAsks ==
    ASSUME WaitInv, Tick
    PROVE  AskedOnce' /\ OnlyWaitersTold'
  <1>1. /\ budget.queue \in Seq(Job) /\ wire \in Seq(Request) /\ budget \in Fields
        /\ reader \in [Readers -> ReaderTyped]
    BY WaitParts
  <1>2. budget'.queue = Older(budget.queue) /\ wire' = Older(wire)
    BY <1>1 DEF Tick, Fields
  <1>3. /\ DOMAIN Older(budget.queue) = DOMAIN budget.queue /\ DOMAIN Older(wire) = DOMAIN wire
        /\ \A i \in DOMAIN budget.queue : Older(budget.queue)[i].of = budget.queue[i].of
        /\ \A i \in DOMAIN wire : Older(wire)[i].of = wire[i].of
    <2>1. \A x \in Job \cup Request : [x EXCEPT !.left = Ticked(@)].of = x.of
      BY DEF Job, Request
    <2>2. /\ \A i \in DOMAIN budget.queue : budget.queue[i] \in Job
          /\ \A i \in DOMAIN wire : wire[i] \in Request
      BY <1>1
    <2>3. QED
      BY <2>1, <2>2 DEF Older
  <1>4. \A x : Asked(budget', wire', x) = Asked(budget, wire, x)
    BY <1>2, <1>3, HeldSame DEF Asked
  <1>5. \A x \in Readers : reader'[x].pc = reader[x].pc /\ reader'[x].answer = reader[x].answer
    BY <1>1 DEF Tick, ReaderTyped
  <1>6. QED
    BY <1>4, <1>5, NobodyTold

LEMMA EveryStepAsks ==
    ASSUME WaitInv, [Next]_vars
    PROVE  AskedOnce' /\ OnlyWaitersTold'
  <1>1. ASSUME NEW r \in Readers, Begin(r) \/ Retry(r)
        PROVE  AskedOnce' /\ OnlyWaitersTold'
    BY <1>1, RunAsks DEF Begin, Retry
  <1>2. ASSUME NEW i \in 1..QueueSize, QueueDeadline(i) \/ AbortQueued(i)
        PROVE  AskedOnce' /\ OnlyWaitersTold'
    BY <1>2, RejectAsks DEF QueueDeadline, AbortQueued
  <1>3. CASE UNCHANGED vars
    <2>1. UNCHANGED <<budget, wire, reader>>
      BY <1>3 DEF vars
    <2>2. QED
      BY <2>1, NobodyTold
  <1>4. QED
    BY <1>1, <1>2, <1>3, SentAsks, SettleAsks, RateLimitedAsks, TimerAsks, AbandonAsks,
       ReturnAsks, TickAsks DEF Next

LEMMA InitAsks == Init => AskedOnce /\ OnlyWaitersTold
  <1> SUFFICES ASSUME Init PROVE AskedOnce /\ OnlyWaitersTold
    OBVIOUS
  <1>1. \A r : Held(<<>>, r) = 0
    BY FS_EmptySet DEF Held, Places
  <1>2. QED
    BY <1>1 DEF Init, AskedOnce, OnlyWaitersTold, Asked, Waits, Idle

-----------------------------------------------------------------------------
(* The theorems.                                                           *)

\* Every step, with one case for every action of Next.
LEMMA EveryStep ==
    ASSUME BudgetInv, [Next]_vars
    PROVE  StepKept /\ reader' \in [Readers -> ReaderTyped]
  <1>1. Counted(budget, wire, quiet) /\ reader \in [Readers -> ReaderTyped]
    BY InvParts
  <1>2. ASSUME NEW r \in Readers, Begin(r) \/ Retry(r)
        PROVE  StepKept /\ reader' \in [Readers -> ReaderTyped]
    BY <1>2, RunKept DEF Begin, Retry
  <1>3. ASSUME NEW i \in 1..QueueSize, QueueDeadline(i) \/ AbortQueued(i)
        PROVE  StepKept /\ reader' \in [Readers -> ReaderTyped]
    BY <1>3, RejectKept DEF QueueDeadline, AbortQueued
  <1>4. ASSUME NEW i \in 1..Concurrency, NEW pause \in RetryAfter, RateLimited(i, pause)
        PROVE  StepKept /\ reader' \in [Readers -> ReaderTyped]
    BY <1>1, <1>4, RateLimitedKept DEF RateLimited
  <1>5. CASE TimerFires
    BY <1>1, <1>5, TimerKept DEF TimerFires
  <1>6. CASE UNCHANGED vars
    <2>1. UNCHANGED <<budget, wire, reader, started, quiet>>
      BY <1>6 DEF vars
    <2>2. StepKept
      BY <1>1, <2>1, QuietStep DEF Counted
    <2>3. QED
      BY <1>1, <2>1, <2>2
  <1>7. QED
    BY <1>2, <1>3, <1>4, <1>5, <1>6, SentKept, SettleKept, AbandonKept, ReturnKept, TickKept
       DEF Next

LEMMA InitKept == Init => BudgetInv
  <1> SUFFICES ASSUME Init PROVE BudgetInv
    OBVIOUS
  <1>1. <<>> \in Seq(Job) /\ <<>> \in Seq(Request)
    OBVIOUS
  <1>2. Counted(budget, wire, quiet)
    BY <1>1, BudgetAssumption DEF Init, Counted, Fields, Wait, Greatest, Off
  <1>3. NoLostWakeup
    BY DEF Init, NoLostWakeup
  <1>4. QED
    BY <1>2, <1>3, IdleTyped, InvParts DEF Init

\* The invariant of the scheduler holds whatever the readers, the endpoint and
\* the timers do.
THEOREM BudgetInvariance == Spec => []BudgetInv
  <1>1. BudgetInv /\ [Next]_vars => BudgetInv'
    <2> SUFFICES ASSUME BudgetInv, [Next]_vars PROVE BudgetInv'
      OBVIOUS
    <2>1. StepKept /\ reader' \in [Readers -> ReaderTyped]
      BY EveryStep
    <2>2. QED
      BY <2>1 DEF StepKept, BudgetInv, TypeOK, Counted, Fields, ReaderTyped
  <1>2. QED
    BY InitKept, <1>1, PTL DEF Spec

\* The fields of the budget stay within its limits: the queue is bounded and no
\* pause exceeds the cap.
THEOREM BudgetTypeCorrect == Spec => []TypeOK
  BY BudgetInvariance, PTL DEF BudgetInv

\* run and start never have more requests outstanding than slots, although
\* callers stop waiting for theirs.
THEOREM SlotsAlwaysBounded == Spec => []SlotsBounded
  <1>1. BudgetInv => SlotsBounded
    BY DEF BudgetInv, Counted, SlotsBounded
  <1>2. QED
    BY <1>1, BudgetInvariance, PTL

\* After every call of drain, defer and remove, waiting work has a timer or a
\* busy slot that leads back to drain.
THEOREM WakeupNeverLost == Spec => []NoLostWakeup
  BY BudgetInvariance, PTL DEF BudgetInv

\* drain sends nothing within the interval of the last request or within any
\* pause that defer was asked for, up to its cap.
THEOREM PausesAlwaysHonoured == Spec => PausesHonoured
  <1>1. BudgetInv /\ [Next]_vars => [started' # started => quiet = 0]_vars
    BY EveryStep DEF StepKept
  <1>2. QED
    BY <1>1, BudgetInvariance, PTL DEF Spec, PausesHonoured

\* A reader is waited on by its one request, queued or under way, from the call
\* of run until it is told something: withRpcBackoff never has two requests out
\* for one read, whatever times out, aborts or gives up in between.
THEOREM OneRequestEachHolds == Spec => []OneRequestEach
  <1>1. WaitInv /\ BudgetInv' /\ [Next]_vars => WaitInv'
    BY EveryStepAsks DEF WaitInv
  <1>2. Spec => []WaitInv
    BY InitAsks, InitKept, BudgetInvariance, <1>1, PTL DEF Spec, WaitInv
  <1>3. WaitInv => OneRequestEach
    BY DEF WaitInv, AskedOnce, OneRequestEach, Asked, Held, Places, Waits
  <1>4. QED
    BY <1>2, <1>3, PTL
=============================================================================
