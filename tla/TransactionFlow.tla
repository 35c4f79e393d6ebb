-------------------------- MODULE TransactionFlow ---------------------------
(***************************************************************************)
(* The flow that takes one reviewed transaction of the app through the     *)
(* wallet to the cluster (use-transaction-flow.ts), with the review modal  *)
(* that starts and hides it, the registry behind the page-level banner     *)
(* (pending-tx.ts), the retry loop (rpc-retry.ts), the wallet-intent       *)
(* assertions and the local sign-and-send path.                            *)
(*                                                                         *)
(* A run is one call of the hook's run().  The hook has one inFlight flag  *)
(* and one React state, which every live run writes: closing the modal     *)
(* before a signature resets both while the run goes on, and a run whose   *)
(* form the user navigated away from goes on without them.  What the       *)
(* cluster accepted is a variable of its own, since the answer may get     *)
(* lost.                                                                   *)
(*                                                                         *)
(* Left out: messages and logs, the lookup-table setup inside prepare      *)
(* (module LookupTables), a reload of the page, and clocks: the 90 s       *)
(* confirmation budget and the third exhausted round of polls may end the  *)
(* confirmation at any time.                                               *)
(***************************************************************************)
EXTENDS Naturals

CONSTANTS
    MaxRuns,        \* bound on how often the user starts a run
    MaxMoves,       \* bound on the switches, and on what hides the modal unseen
    Contexts,       \* wallet and connection pairs the app may have selected
    Home,           \* the one selected first
    RETRY_ATTEMPTS, \* attempts of withRetry
    None            \* no context, no registry entry

\* A line of the pending-transaction registry.
Entry == [status : {"pending", "confirmed", "failed", "submitted"},
          sent : BOOLEAN, hidden : BOOLEAN, dismissed : BOOLEAN]

ASSUME FlowAssumption ==
    /\ {MaxRuns, MaxMoves} \subseteq Nat
    /\ RETRY_ATTEMPTS \in Nat \ {0}
    /\ Home \in Contexts
    /\ None \notin Contexts \cup Nat \cup Entry

Runs == 1..MaxRuns

VARIABLES
    mode,       \* who broadcasts: "wallet", or "local" (sendViaConnection)
    context,    \* currentWalletIntent.current
    inFlight,   \* inFlight.current
    shown,      \* the hook's state
    open,       \* is the review modal open?
    run,        \* where each run is
    entries,    \* the registry of pending transactions, None when removed
    accepted,   \* the runs whose transaction the cluster took
    gone,       \* for a run whose form was left: the last context it looked at
    misread,    \* runs whose broadcast failed in words withRetry does not know
    dropped,    \* runs whose modal went away without a word to the registry
    moves,      \* switches, leaves and modals closed by the form, so far
    overlapped  \* has a run started while another of its form was alive?

hook    == <<shown, inFlight, entries>>
user    == <<mode, context, open, gone, dropped, moves, overlapped>>
cluster == <<accepted, misread>>
vars    == <<user, cluster, run, hook>>

Status == {"idle", "preparing-alt", "simulating", "awaiting-signature",
           "confirming", "confirmed", "submitted", "failed", "rejected"}

\* The stages of a run; "unsent" are the exits the code comments "never sent".
Waiting == {"prepare", "prompt"}
Machine == {"simulate", "guard", "sign", "recheck", "send"}
Settled == {"confirmed", "errored", "submitted"}
Stages == {"new", "confirm", "unsent"} \cup Waiting \cup Machine \cup Settled
Alive(r) == run[r].pc \in Waiting \cup Machine \cup {"confirm"}

TypeOK ==
    /\ mode \in {"wallet", "local"} /\ context \in Contexts
    /\ inFlight \in BOOLEAN /\ open \in BOOLEAN /\ overlapped \in BOOLEAN
    /\ shown \in [status : Status, sent : BOOLEAN, id : Runs \cup {None},
                  retryable : BOOLEAN]
    /\ run \in [Runs -> [pc : Stages, context : Contexts \cup {None},
                         attempt : 1..RETRY_ATTEMPTS, ambiguous : BOOLEAN]]
    /\ entries \in [Runs -> Entry \cup {None}]
    /\ accepted \cup misread \cup dropped \subseteq Runs
    /\ gone \in [Runs -> Contexts \cup {None}] /\ moves \in 0..MaxMoves

\* A run whose locals do not exist, no longer or not yet.
At(pc) == [pc |-> pc, context |-> None, attempt |-> 1, ambiguous |-> FALSE]

INITIAL == [status |-> "idle", sent |-> FALSE, id |-> None, retryable |-> FALSE]

Init ==
    /\ mode \in {"wallet", "local"} /\ context = Home
    /\ inFlight = FALSE /\ open = FALSE /\ overlapped = FALSE
    /\ shown = INITIAL
    /\ run = [r \in Runs |-> At("new")]
    /\ entries = [r \in Runs |-> None]
    /\ accepted = {} /\ misread = {} /\ dropped = {}
    /\ gone = [r \in Runs |-> None] /\ moves = 0

-----------------------------------------------------------------------------
(* The registry.                                                           *)

\* updatePendingTx with a status: an entry that was never sent is dropped at
\* once, a sent one keeps its outcome until the banner's time is up.
Outcome(entry, status) ==
    IF entry # None /\ entry.sent THEN [entry EXCEPT !.status = status] ELSE None

\* Variant: an outcome the budget left open is kept.
TerminalLanded(entry) == entry.status \in {"confirmed", "failed"}

\* The statuses that arm the removal timer.
Terminal(entry) == entry.status \in {"confirmed", "failed", "submitted"}

\* What PendingTxBanner renders: sent, its modal hidden, not dismissed while
\* pending.
OnBanner(entry) ==
    /\ entry.sent /\ entry.hidden
    /\ entry.status # "pending" \/ ~entry.dismissed

-----------------------------------------------------------------------------
(* The pieces of run().                                                    *)

Goto(r, pc) == run' = [run EXCEPT ![r].pc = pc]

\* currentWalletIntent.current: renewed by every render, so that it stands
\* still once the form is left.
CurrentIntent(r) == IF gone[r] = None THEN context ELSE gone[r]

\* assertWalletIntentNow, inside the asynchronous guard ...
Guarded(r) == run[r].context = CurrentIntent(r)
\* Variant: the synchronous assertion is left out.
NoAssertNow(r) == r \in Runs

\* ... and once more in the same synchronous turn as the wallet or RPC call.
AssertNow(r) == run[r].context = CurrentIntent(r)

\* setState and the in-flight flag, which reach no one once the form is left.
Show(r, state) == shown' = IF gone[r] = None THEN state ELSE shown
Release(r)     == inFlight' = (inFlight /\ gone[r] # None)

\* An exit before anything is known to have been sent: the registry entry goes,
\* the state shows the failure, and the in-flight flag is released.
Stop(r, status, retryable) ==
    /\ run' = [run EXCEPT ![r] = At("unsent")]
    /\ entries' = [entries EXCEPT ![r] = None]
    /\ Show(r, [INITIAL EXCEPT !.status = status, !.id = shown.id,
                               !.retryable = retryable])
    /\ Release(r)

\* A signature exists: confirmation starts and the entry becomes a real one.
Sent(r) ==
    /\ run' = [run EXCEPT ![r] = At("confirm")]
    /\ Show(r, [shown EXCEPT !.status = "confirming", !.sent = TRUE])
    /\ entries' = [entries EXCEPT ![r].sent = TRUE]
    /\ UNCHANGED inFlight

\* Variant: only the last broadcast counts.
UncertainNow(r, broadcast) == broadcast /\ mode = "local"

\* signAndSendLocal remembers every broadcast whose answer was lost.
Uncertain(r, broadcast) ==
    run[r].ambiguous \/ (broadcast /\ mode = "local")

\* Variant: one attempt too many.
LateLastAttempt(r) == run[r].attempt > RETRY_ATTEMPTS

LastAttempt(r) == run[r].attempt >= RETRY_ATTEMPTS

\* An attempt of withRetry fails with an error that waiting may cure.
Transient(r, broadcast) ==
    \/ /\ ~LastAttempt(r)
       /\ run' = [run EXCEPT ![r].pc = "recheck", ![r].attempt = @ + 1,
                             ![r].ambiguous = Uncertain(r, broadcast)]
       /\ UNCHANGED hook
    \/ LastAttempt(r) /\ Uncertain(r, broadcast) /\ Sent(r)
    \/ LastAttempt(r) /\ ~Uncertain(r, broadcast) /\ Stop(r, "failed", TRUE)

\* An error withRetry passes on at once.
Deterministic(r, status, retryable) ==
    \/ run[r].ambiguous /\ Sent(r)
    \/ ~run[r].ambiguous /\ Stop(r, status, retryable)

\* The cluster takes the signed bytes; the same bytes again change nothing.
Accept(r) == accepted' = accepted \cup {r}

\* What a broadcast can come to: a signature, an error that isTransientRpcError
\* knows, or any other error.  Neither error says whether the cluster took it.
Broadcast(r) ==
    \/ Accept(r) /\ Sent(r) /\ UNCHANGED misread
    \/ /\ Accept(r) \/ UNCHANGED accepted
       /\ \/ Transient(r, TRUE) /\ UNCHANGED misread
          \/ misread' = misread \cup {r} /\ Deterministic(r, "failed", FALSE)
          \/ misread' = misread \cup {r} /\ Deterministic(r, "rejected", TRUE)

-----------------------------------------------------------------------------
(* The steps of a run.                                                     *)

\* run(): refused while in flight; otherwise the context is captured and the
\* registry entry is armed without a signature.
Start(r) ==
    /\ run[r].pc = "new" /\ \A s \in Runs : s < r => run[s].pc # "new"
    /\ ~inFlight
    /\ inFlight' = TRUE
    /\ overlapped' = (overlapped \/ \E s \in Runs : Alive(s) /\ gone[s] = None)
    /\ entries' = [entries EXCEPT ![r] = [status |-> "pending", sent |-> FALSE,
                                          hidden |-> FALSE, dismissed |-> FALSE]]
    /\ \E prepares \in BOOLEAN :
         /\ run' = [run EXCEPT ![r] =
                      [pc |-> IF prepares THEN "prepare" ELSE "simulate",
                       context |-> context, attempt |-> 1, ambiguous |-> FALSE]]
         /\ shown' = [INITIAL EXCEPT !.id = r, !.status =
                        IF prepares THEN "preparing-alt" ELSE "simulating"]
    /\ UNCHANGED <<mode, context, open, gone, dropped, moves, cluster>>

\* prepare() resolves.
Prepared(r) ==
    /\ run[r].pc = "prepare"
    /\ Goto(r, "simulate")
    /\ Show(r, [INITIAL EXCEPT !.id = r, !.status = "simulating"])
    /\ UNCHANGED <<inFlight, entries, user, cluster>>

\* The build succeeds and its one simulation passes.
Simulated(r) ==
    /\ run[r].pc = "simulate"
    /\ Goto(r, "guard")
    /\ Show(r, [shown EXCEPT !.status = "awaiting-signature"])
    /\ UNCHANGED <<inFlight, entries, user, cluster>>

\* Preparation, build or simulation fails.
StageFails(r) ==
    /\ run[r].pc \in {"prepare", "simulate"}
    /\ \E retryable \in BOOLEAN : Stop(r, "failed", retryable)
    /\ UNCHANGED <<user, cluster>>

\* beforeSign, alone and then again before every attempt to send.
Guard(r) ==
    /\ run[r].pc \in {"guard", "recheck"}
    /\ \/ /\ Guarded(r)
          /\ Goto(r, IF run[r].pc = "recheck" THEN "send"
                     ELSE IF mode = "local" THEN "sign" ELSE "recheck")
          /\ UNCHANGED hook
       \* The context changed, or the caller's own guard objects.
       \/ Deterministic(r, "failed", FALSE)
       \/ run[r].pc = "recheck" /\ Transient(r, FALSE)
       \/ run[r].pc = "guard" /\ Stop(r, "failed", TRUE)
    /\ UNCHANGED <<user, cluster>>

\* The synchronous assertion and, in the same turn, the call it protects: the
\* wallet's signTransaction or sendTransaction, or the local broadcast.
HandOver(r) ==
    /\ run[r].pc \in {"sign", "send"}
    /\ \/ /\ AssertNow(r)
          /\ \/ /\ run[r].pc = "sign" \/ mode = "wallet"
                /\ Goto(r, "prompt")
                /\ UNCHANGED <<hook, cluster>>
             \/ run[r].pc = "send" /\ mode = "local" /\ Broadcast(r)
       \/ Deterministic(r, "failed", FALSE) /\ UNCHANGED cluster
    /\ UNCHANGED user

\* The wallet answers.  A wallet that only signs leads on to the broadcast; one
\* that sends reports what came of it; either may be refused by the user.
Answer(r) ==
    /\ run[r].pc = "prompt"
    /\ \/ mode = "local" /\ Goto(r, "recheck") /\ UNCHANGED <<hook, cluster>>
       \/ mode = "wallet" /\ Broadcast(r)
       \/ Stop(r, "rejected", TRUE) /\ UNCHANGED cluster
       \/ mode = "local" /\ Stop(r, "failed", FALSE) /\ UNCHANGED cluster
    /\ UNCHANGED user

\* The confirmation loop sees a status, or its budget is spent.
Confirm(r) ==
    /\ run[r].pc = "confirm"
    /\ Release(r)
    /\ \E result \in {"confirmed", "errored", "submitted"} :
         LET status == IF result = "errored" THEN "failed" ELSE result IN
         /\ result # "submitted" => r \in accepted
         /\ Goto(r, result)
         /\ entries' = [entries EXCEPT ![r] = Outcome(@, status)]
         /\ Show(r, [INITIAL EXCEPT !.status = status, !.sent = TRUE,
                       !.id = IF result = "errored" THEN shown.id ELSE r])
    /\ UNCHANGED <<user, cluster>>

-----------------------------------------------------------------------------
(* The user, the banner and the cluster.                                   *)

OpenReview ==
    /\ ~open
    /\ open' = TRUE
    /\ dropped' = dropped \ {shown.id}
    /\ UNCHANGED <<mode, context, gone, moves, overlapped, run, cluster, hook>>

\* The modal's one primary action: enabled while idle, or Retry after a failure
\* the flow marked retryable.
Press(r) ==
    /\ open
    /\ \/ shown.status = "idle"
       \/ shown.status \in {"failed", "rejected"} /\ shown.retryable
    /\ Start(r)

\* Variant: a prompt that is still open is not handed to the banner.
HideableSent == shown.sent

\* Is there a sent or live flow for the banner to take over?
Hideable ==
    shown.sent \/ shown.status \in {"preparing-alt", "simulating",
                                    "awaiting-signature", "confirming"}

\* handleClose and the form's close: the entry of the shown run is handed to the
\* banner, and without a signature the hook is reset.
Close ==
    /\ open
    /\ open' = FALSE
    /\ entries' = IF Hideable /\ shown.id # None /\ entries[shown.id] # None
                  THEN [entries EXCEPT ![shown.id].hidden = TRUE] ELSE entries
    /\ IF shown.sent THEN UNCHANGED <<shown, inFlight>>
                     ELSE shown' = INITIAL /\ inFlight' = FALSE
    /\ UNCHANGED <<mode, context, gone, dropped, moves, overlapped, run, cluster>>

Move == moves < MaxMoves /\ moves' = moves + 1

\* An open modal goes away otherwise than through handleClose.
Dropped == dropped \cup {r \in Runs : open /\ shown.id = r /\ entries[r] # None}

\* The form closes its modal itself, without handleClose and without a reset.
CloseByForm ==
    /\ open /\ Move
    /\ open' = FALSE
    /\ dropped' = Dropped
    /\ UNCHANGED <<mode, context, gone, overlapped, run, cluster, hook>>

\* The user navigates away: the form and its hook are gone, their runs go on.
\* Back on the form the hook is a new one.
Leave ==
    /\ Move
    /\ open' = FALSE /\ shown' = INITIAL /\ inFlight' = FALSE
    /\ gone' = [r \in Runs |-> IF Alive(r) /\ gone[r] = None THEN context ELSE gone[r]]
    /\ dropped' = Dropped
    /\ UNCHANGED <<mode, context, overlapped, run, entries, cluster>>

\* The wallet or its network is switched.
Switch ==
    /\ Move
    /\ \E c \in Contexts \ {context} : context' = c
    /\ UNCHANGED <<mode, open, gone, dropped, overlapped, run, cluster, hook>>

\* dismissPendingTx, from a line the banner shows.
Dismiss(r) ==
    /\ entries[r] # None /\ OnBanner(entries[r])
    /\ entries' = [entries EXCEPT ![r].dismissed = TRUE]
    /\ UNCHANGED <<shown, inFlight, user, run, cluster>>

\* The removal timer of an outcome.
Remove(r) ==
    /\ entries[r] # None /\ Terminal(entries[r])
    /\ entries' = [entries EXCEPT ![r] = None]
    /\ UNCHANGED <<shown, inFlight, user, run, cluster>>

\* What a run does without waiting for a person.
Proceed(r) == Simulated(r) \/ StageFails(r) \/ Guard(r) \/ HandOver(r) \/ Confirm(r)

Step(r) ==
    \/ Press(r) \/ Prepared(r) \/ Answer(r) \/ Proceed(r)
    \/ Dismiss(r) \/ Remove(r)

Next == OpenReview \/ Close \/ CloseByForm \/ Leave \/ Switch \/ \E r \in Runs : Step(r)

\* Timers fire and RPC calls return; nobody has to answer a wallet prompt.
Fairness ==
    \A r \in Runs : WF_vars(run[r].pc # "prepare" /\ Proceed(r)) /\ WF_vars(Remove(r))

Spec == Init /\ [][Next]_vars /\ Fairness

-----------------------------------------------------------------------------
(* Properties.                                                             *)

\* Whatever the user switches while guards, simulations and retries are under
\* way, the wallet and the RPC see a transaction only under the wallet and the
\* connection it was reviewed with (assertSigningContext), as long as the form
\* is there: after that the intent it compares with is no longer renewed.
OnlyReviewedContext ==
    [][\A r \in Runs :
          /\ gone[r] = None
          /\ \/ run[r].pc # "prompt" /\ run'[r].pc = "prompt"
             \/ run[r].pc = "send" /\ r \in accepted' \ accepted
          => context = run[r].context]_vars

\* On the local path a run that ends as never sent left nothing on the cluster,
\* whichever answers got lost, whatever guard failed afterwards and whether or
\* not the form was left (sign-and-send-local.ts:38), unless a broadcast failed
\* with an error that isTransientRpcError does not take for a lost answer
\* (sign-and-send-local.ts:40) before any that it does.
LocalFailureIsUnsent ==
    \A r \in Runs :
        run[r].pc = "unsent" /\ mode = "local" /\ r \notin misread => r \notin accepted

\* The same for both paths, as the comments "never sent" at every removal from
\* the registry have it.
NeverSentIsTrue == \A r \in Runs : run[r].pc = "unsent" => r \notin accepted

\* However the modal is closed and reopened, a transaction that was sent is
\* either shown in it or its entry is on the banner's list, as long as no second
\* run of the form was started over a live one.  It goes out of sight only when
\* its modal was closed by the form itself and not reopened (zap-in-form.tsx:221)
\* or the user navigated away while it was open, which the banner means to
\* survive (pending-tx-banner.tsx:19).
HiddenOutcomeSurfaces ==
    overlapped \/ \A r \in Runs \ dropped :
        entries[r] # None /\ entries[r].sent =>
            \/ open /\ shown.id = r
            \/ OnBanner([entries[r] EXCEPT !.dismissed = FALSE])

\* No dead entries: a run that does not wait for the wallet ends within its
\* budgets, and then its entry leaves the registry.
NoDeadEntries ==
    \A r \in Runs :
        run[r].pc \notin Waiting \cup {"new"}
            ~> run[r].pc = "prompt" \/ entries[r] = None
=============================================================================
