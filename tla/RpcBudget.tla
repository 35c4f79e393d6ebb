------------------------------ MODULE RpcBudget -----------------------------
(***************************************************************************)
(* The one gate all reads of the backend pass on their way to an RPC       *)
(* endpoint (rpc/requestBudget.ts: RpcRequestBudget) and the one retry     *)
(* layer around it (rpc/backoff.ts: withRpcBackoff), for the readers that  *)
(* share an endpoint: indexer, NAV, account synchronisation.               *)
(*                                                                         *)
(* Time passes in ticks and is kept as what is left of each period: Off is *)
(* a timer that is not armed, 0 one whose callback is due.  Callbacks may  *)
(* run late and in any order.  The endpoint may never answer.              *)
(*                                                                         *)
(* Left out: the counters of evidence(), the validation of requests and    *)
(* responses, log lines, and a call whose signal has aborted before it is  *)
(* made (it is rejected and changes nothing).                              *)
(***************************************************************************)
EXTENDS Integers, FiniteSets, SequencesExt

CONSTANTS
    Readers,        \* the loops that read through withRpcBackoff
    Nobody,         \* in the place of a reader that no longer waits
    Concurrency,    \* options.concurrency
    QueueSize,      \* options.queueSize
    Interval,       \* options.intervalMs, configured to 100 at least
    QueueTimeout,   \* options.queueTimeoutMs
    RequestTimeout, \* options.requestTimeoutMs
    RetryAfter,     \* the pauses a 429 answer may ask for
    PauseCap,       \* the longest pause that is granted, 60_000 in defer
    MaxAttempts,    \* RPC_BACKOFF_MAX_ATTEMPTS
    BackoffBase,    \* RPC_BACKOFF_BASE_MS
    BackoffCap      \* RPC_BACKOFF_CAP_MS

ASSUME BudgetAssumption ==
    /\ Nobody \notin Readers
    /\ Concurrency \in Nat \ {0} /\ QueueSize \in Nat \ {0}
    /\ Interval \in Nat \ {0}
    /\ QueueTimeout \in Nat \ {0} /\ RequestTimeout \in Nat \ {0}
    /\ RetryAfter \subseteq Nat /\ PauseCap \in Nat
    /\ MaxAttempts \in Nat \ {0} /\ BackoffBase \in Nat /\ BackoffCap \in Nat

VARIABLES
    budget,     \* the fields of the RpcRequestBudget
    wire,       \* the requests that have started and not settled, oldest first
    reader,     \* the loop of withRpcBackoff in each reader
    started,    \* counters.started, modulo 2: a step that changes it has sent
    quiet       \* ticks for which nothing may be sent: the longest pause asked
                \* for and the interval since the last request, kept apart

vars == <<budget, wire, reader, started, quiet>>

Off == -1
Least(a, b) == IF a < b THEN a ELSE b
Greatest(a, b) == IF a < b THEN b ELSE a
Ticked(left) == IF left > 0 THEN left - 1 ELSE left

\* A Job of the queue and a request under way: who waits for it, what is left
\* of its deadline, and whether it has met a 429.
Job == [of : Readers \cup {Nobody}, left : Nat]
Request == [of : Readers \cup {Nobody}, left : Nat \cup {Off}, limited : BOOLEAN]

TypeOK ==
    /\ budget \in [queue : Seq(Job), active : Nat, timer : Nat \cup {Off},
                   nextStart : 0..Interval, cooldownUntil : 0..PauseCap]
    /\ Len(budget.queue) <= QueueSize
    /\ wire \in Seq(Request)
    /\ reader \in [Readers -> [pc : {"idle", "wait", "sleep"},
                               answer : {"none", "limited", "final"},
                               attempt : 0..MaxAttempts - 1, left : 0..BackoffCap]]
    /\ started \in 0..1 /\ quiet \in Nat

Idle == [pc |-> "idle", answer |-> "none", attempt |-> 0, left |-> 0]

Init ==
    /\ budget = [queue |-> <<>>, active |-> 0, timer |-> Off,
                 nextStart |-> 0, cooldownUntil |-> 0]
    /\ wire = <<>>
    /\ reader = [r \in Readers |-> Idle]
    /\ started = 0 /\ quiet = 0

-----------------------------------------------------------------------------
(* The scheduler.                                                          *)

\* drain passes its first test: nothing is armed, a slot is free, work waits.
Ready(b) == b.timer = Off /\ b.active < Concurrency /\ b.queue # <<>>
Wait(b) == Greatest(b.nextStart, b.cooldownUntil)

\* A job has its slot before drain calls itself again; as the next start is an
\* interval away, that second call can only arm the timer.
Taken(b) ==
    [b EXCEPT !.queue = Tail(@), !.active = @ + 1, !.nextStart = Interval]

\* Job.start: the queue deadline gives way to the request deadline.
\* Variant: the queue deadline is cleared and no request deadline set.
StartedUntimed(w, j) == Append(w, [of |-> j.of, left |-> Off, limited |-> FALSE])
Started(w, j) == Append(w, [of |-> j.of, left |-> RequestTimeout, limited |-> FALSE])

\* drain, from the fields b and the requests w its caller has left, and what is
\* then owed to the endpoint, q of it from before.
Drain(b, w, q) ==
    \/ ~Ready(b) /\ budget' = b /\ wire' = w /\ quiet' = q /\ UNCHANGED started
    \/ /\ Ready(b) /\ Wait(b) > 0
       /\ budget' = [b EXCEPT !.timer = Wait(b)]
       /\ wire' = w /\ quiet' = q /\ UNCHANGED started
    \/ /\ Ready(b) /\ Wait(b) = 0
       /\ budget' = [Taken(b) EXCEPT !.timer = IF Ready(Taken(b)) THEN Interval ELSE Off]
       /\ wire' = Started(w, Head(b.queue))
       /\ started' = 1 - started /\ quiet' = Greatest(q, Interval)

\* finish: whoever still waits for the request is told.
Finish(of, answer) ==
    reader' = [r \in Readers |->
                 IF r = of THEN [reader[r] EXCEPT !.answer = answer] ELSE reader[r]]

\* run: the job is queued behind the others and drain tried at once, unless the
\* queue is full.  rpc-queue-full is no rate limit: withRpcBackoff throws it on.
Run(r) ==
    \/ /\ Len(budget.queue) < QueueSize
       /\ reader' = [reader EXCEPT ![r].pc = "wait"]
       /\ Drain([budget EXCEPT !.queue = Append(@, [of |-> r, left |-> QueueTimeout])],
                wire, quiet)
    \/ /\ Len(budget.queue) >= QueueSize
       /\ reader' = [reader EXCEPT ![r] = Idle]
       /\ UNCHANGED <<budget, wire, started, quiet>>

\* remove and reject: out of the queue, its caller told, the next one tried.
\* Variant: the job stays in the queue.
RemovedNot(i) == budget
Removed(i) == [budget EXCEPT !.queue = RemoveAt(@, i)]
Reject(i) ==
    /\ Finish(budget.queue[i].of, "final")
    /\ Drain(Removed(i), wire, quiet)

\* The callback of job.expires.
QueueDeadline(i) ==
    /\ i \in DOMAIN budget.queue /\ budget.queue[i].left = 0
    /\ Reject(i)

\* The caller's signal aborts while the job waits, or while its request is under
\* way; the request then keeps its slot and its timer.
AbortQueued(i) ==
    /\ i \in DOMAIN budget.queue /\ budget.queue[i].of # Nobody
    /\ Reject(i)

AbortSent(i) ==
    /\ i \in DOMAIN wire /\ wire[i].of # Nobody
    /\ Finish(wire[i].of, "final")
    /\ wire' = [wire EXCEPT ![i].of = Nobody]
    /\ UNCHANGED <<budget, started, quiet>>

\* The timeout of a request: its caller is told, the slot stays taken.
\* Variant: the deadline gives the slot back.
DeadlineReleases(i) ==
    /\ i \in DOMAIN wire /\ wire[i].left = 0
    /\ Finish(wire[i].of, "final")
    /\ Drain([budget EXCEPT !.active = @ - 1],
             [wire EXCEPT ![i].of = Nobody, ![i].left = Off], quiet)
RequestDeadline(i) ==
    /\ i \in DOMAIN wire /\ wire[i].left = 0
    /\ Finish(wire[i].of, "final")
    /\ wire' = [wire EXCEPT ![i].of = Nobody, ![i].left = Off]
    /\ UNCHANGED <<budget, started, quiet>>

\* The task's promise settles: finish, and in the microtask behind it the slot
\* is given back and drain tried, before any caller gets to continue.
Released == [budget EXCEPT !.active = @ - 1]
Settle(i, answer) ==
    /\ i \in DOMAIN wire
    /\ answer = "limited" => wire[i].limited
    /\ Finish(wire[i].of, answer)
    /\ Drain(Released, RemoveAt(wire, i), quiet)

\* A 429, by status or in the body: guardedRpcFetch defers all requests to the
\* endpoint while its own still holds its slot.
\* Variants: the last pause asked for replaces a longer one; any pause is granted.
DeferredToLast(pause) ==
    [budget EXCEPT !.cooldownUntil = Least(pause, PauseCap), !.timer = Off]
DeferredUncapped(pause) ==
    [budget EXCEPT !.cooldownUntil = Greatest(@, pause), !.timer = Off]
Deferred(pause) ==
    [budget EXCEPT !.cooldownUntil = Greatest(@, Least(pause, PauseCap)), !.timer = Off]
\* Variant: the timer is cleared and the queue left to itself.
RateLimitedNoDrain(i, pause) ==
    /\ i \in DOMAIN wire /\ ~wire[i].limited
    /\ budget' = Deferred(pause)
    /\ wire' = [wire EXCEPT ![i].limited = TRUE]
    /\ quiet' = Greatest(quiet, Least(pause, PauseCap))
    /\ UNCHANGED <<reader, started>>
RateLimited(i, pause) ==
    /\ i \in DOMAIN wire /\ ~wire[i].limited
    /\ Drain(Deferred(pause), [wire EXCEPT ![i].limited = TRUE],
             Greatest(quiet, Least(pause, PauseCap)))
    /\ UNCHANGED reader

\* The callback of the scheduler's own timer.
TimerFires ==
    /\ budget.timer = 0
    /\ Drain([budget EXCEPT !.timer = Off], wire, quiet)
    /\ UNCHANGED reader

-----------------------------------------------------------------------------
(* The readers.                                                            *)

\* backoffDelayMs: doubled by every failure up to the cap, off by a quarter
\* either way, rounded.
BackoffDelays(attempt) ==
    LET exp == Least(BackoffBase * 2^(attempt - 1), BackoffCap) IN
    {d \in 0..BackoffCap : /\ 4 * d + 2 > 3 * exp
                           /\ 4 * d < 5 * exp + 2 \/ d = BackoffCap}

\* A new read, and the next attempt of one when its sleep is over.
Begin(r) == reader[r].pc = "idle" /\ Run(r)
Retry(r) == reader[r].pc = "sleep" /\ reader[r].left = 0 /\ Run(r)

\* The answer reaches withRpcBackoff.
Return(r) ==
    LET attempt == reader[r].attempt + 1
        answer == reader[r].answer IN
    /\ reader[r].pc = "wait" /\ answer # "none"
    /\ \/ /\ answer # "limited" \/ attempt >= MaxAttempts
          /\ reader' = [reader EXCEPT ![r] = Idle]
       \/ /\ answer = "limited" /\ attempt < MaxAttempts
          /\ \E delay \in BackoffDelays(attempt) :
               reader' = [reader EXCEPT ![r] =
                 [pc |-> "sleep", answer |-> "none", attempt |-> attempt, left |-> delay]]
    /\ UNCHANGED <<budget, wire, started, quiet>>

\* A caller with a deadline of its own (bounded, around the reads of the balance
\* snapshots) leaves; the request it waited for goes on without it.
Left(s, r) == [i \in DOMAIN s |-> IF s[i].of = r THEN [s[i] EXCEPT !.of = Nobody] ELSE s[i]]
Abandon(r) ==
    /\ reader[r].pc \in {"wait", "sleep"}
    /\ reader' = [reader EXCEPT ![r] = Idle]
    /\ budget' = [budget EXCEPT !.queue = Left(@, r)]
    /\ wire' = Left(wire, r)
    /\ UNCHANGED <<started, quiet>>

\* Nothing that is due has to run before the next tick.
Older(s) == [i \in DOMAIN s |-> [s[i] EXCEPT !.left = Ticked(@)]]
Tick ==
    /\ \/ budget.timer > 0 \/ Wait(budget) > 0
       \/ \E i \in DOMAIN budget.queue : budget.queue[i].left > 0
       \/ \E i \in DOMAIN wire : wire[i].left > 0
       \/ \E r \in Readers : reader[r].left > 0
    /\ budget' = [budget EXCEPT !.queue = Older(@), !.timer = Ticked(@),
                                !.nextStart = Ticked(@), !.cooldownUntil = Ticked(@)]
    /\ wire' = Older(wire)
    /\ reader' = [r \in Readers |-> [reader[r] EXCEPT !.left = Ticked(@)]]
    /\ quiet' = Ticked(quiet)
    /\ UNCHANGED started

-----------------------------------------------------------------------------
Next ==
    \/ \E r \in Readers : Begin(r) \/ Retry(r) \/ Return(r) \/ Abandon(r)
    \/ \E i \in 1..QueueSize : QueueDeadline(i) \/ AbortQueued(i)
    \/ \E i \in 1..Concurrency :
         \/ AbortSent(i) \/ RequestDeadline(i)
         \/ \E answer \in {"limited", "final"} : Settle(i, answer)
         \/ \E pause \in RetryAfter : RateLimited(i, pause)
    \/ TimerFires
    \/ Tick

\* Time passes, the callbacks of due timers run and a reader that can go on
\* does; nobody makes the endpoint answer.  A job only ever moves up in its
\* list, so a callback that stays due is in the end due at one place.
Fairness ==
    /\ WF_vars(Tick) /\ WF_vars(TimerFires)
    /\ \A i \in 1..QueueSize : WF_vars(QueueDeadline(i))
    /\ \A i \in 1..Concurrency : WF_vars(RequestDeadline(i))
    /\ \A r \in Readers : WF_vars(Retry(r) \/ Return(r))

Spec == Init /\ [][Next]_vars /\ Fairness

-----------------------------------------------------------------------------
(* Properties.                                                             *)

\* The endpoint never has more requests of ours outstanding than the budget
\* allows, however many callers have given up on theirs: a slot is taken until
\* the request itself has settled.
SlotsBounded == Len(wire) = budget.active /\ Len(wire) <= Concurrency

\* A reader waits for one request at most, in the queue or under way, and for
\* one exactly until it is told something: no retry goes out beside the request
\* it replaces, and none is told of another's.
OneRequestEach ==
    \A r \in Readers :
        LET queued == {i \in DOMAIN budget.queue : budget.queue[i].of = r}
            sent == {i \in DOMAIN wire : wire[i].of = r} IN
        Cardinality(queued) + Cardinality(sent)
          = IF reader[r].pc = "wait" /\ reader[r].answer = "none" THEN 1 ELSE 0

\* While requests wait, something will look at the queue again: a timer, or the
\* end of a request that holds a slot.
NoLostWakeup ==
    budget.queue # <<>> => budget.timer # Off \/ budget.active >= Concurrency

\* Nothing is sent within an interval of the last request, nor while any pause
\* that was granted to the endpoint (PauseCap at most) is running, whoever was
\* told to pause.
PausesHonoured == [][started' # started => quiet = 0]_vars

\* Every read comes back to its loop, even when the endpoint never answers.
EventuallyAnswered ==
    \A r \in Readers : reader[r].pc # "idle" ~> reader[r].pc = "idle"
=============================================================================
