----------------------- MODULE TransactionFlowProofs -----------------------
(***************************************************************************)
(* What TransactionFlow keeps for any number of runs, attempts, wallets    *)
(* and networks.  A step of a run ends in one of three exits (Stop, Sent,  *)
(* another attempt) or is a plain move: each of those is proved once.      *)
(***************************************************************************)
EXTENDS TransactionFlow, TLAPS

\* A live run has its entry, still pending: nothing removes it meanwhile.
LiveHasEntry ==
    \A r \in Runs : Alive(r) => entries[r] # None /\ entries[r].status = "pending"

\* Locally, what the cluster may have taken is remembered by the retry loop, or
\* the run is past its broadcast, or it ended on an error nobody could read.
AcceptedIsRemembered ==
    mode = "local" =>
        \A r \in accepted :
            \/ run[r].ambiguous /\ run[r].pc \in {"recheck", "send"}
            \/ run[r].pc \in {"confirm"} \cup Settled
            \/ run[r].pc = "unsent" /\ r \in misread

\* A live run whose form is still there.
Attached(r) == Alive(r) /\ gone[r] = None

\* Without overlap the hook's one state speaks of the one attached run, and an
\* entry is on the screen or with the banner, unless its modal was dropped.
ShownIsLive == \A r \in Runs : Attached(r) => shown.id \in {r, None}
OneLive == \A r, s \in Runs : Attached(r) /\ Attached(s) => r = s
EntryIsVisible ==
    \A r \in Runs \ dropped :
        entries[r] # None => (open /\ shown.id = r) \/ entries[r].hidden
NothingToHide == ~Hideable => shown.id = None \/ entries[shown.id] = None
Exclusive == ShownIsLive /\ OneLive /\ EntryIsVisible /\ NothingToHide

\* What the modal offers to start from holds no signature.
StartUnsent ==
    \/ shown.status = "idle"
    \/ shown.status \in {"failed", "rejected"} /\ shown.retryable
    => ~shown.sent
IdleIsNone == shown.status = "idle" => shown.id = None

IInv ==
    /\ TypeOK
    /\ LiveHasEntry
    /\ AcceptedIsRemembered
    /\ StartUnsent /\ IdleIsNone
    /\ ~overlapped => Exclusive

Process == [pc : Stages, context : Contexts \cup {None},
            attempt : 1..RETRY_ATTEMPTS, ambiguous : BOOLEAN]
Frame == UNCHANGED user

-----------------------------------------------------------------------------

\* A run whose locals are gone is well typed.
LEMMA AtIsProcess == \A pc \in Stages : At(pc) \in Process
BY FlowAssumption DEF At, Process

\* What is known to be unsent may stop.
LEMMA StopKeeps ==
    ASSUME IInv, NEW r \in Runs, Alive(r), Frame,
           accepted' \in {accepted, accepted \cup {r}},
           misread' \in {misread, misread \cup {r}},
           mode = "local" /\ r \in accepted' => r \in misread',
           NEW status \in {"failed", "rejected"}, NEW retryable \in BOOLEAN,
           Stop(r, status, retryable)
    PROVE  IInv'
<1>. USE FlowAssumption DEF IInv, Stop, Frame, user
<1>0. /\ shown' = IF gone[r] = None
                  THEN [INITIAL EXCEPT !.status = status, !.id = shown.id,
                                       !.retryable = retryable]
                  ELSE shown
      /\ inFlight' \in BOOLEAN
  BY DEF Show, Release
<1>1. TypeOK'
  <2>1. run' \in [Runs -> Process]
    BY AtIsProcess DEF TypeOK, Process, Stages
  <2>2. shown' \in [status : Status, sent : BOOLEAN, id : Runs \cup {None},
                   retryable : BOOLEAN]
    BY <1>0 DEF TypeOK, INITIAL, Status
  <2>3. entries' \in [Runs -> Entry \cup {None}]
    BY DEF TypeOK
  <2>. QED  BY <1>0, <2>1, <2>2, <2>3 DEF TypeOK, Process
<1>2. LiveHasEntry'
  BY DEF TypeOK, LiveHasEntry, Alive, At, Waiting, Machine
<1>3. AcceptedIsRemembered'
  BY DEF TypeOK, AcceptedIsRemembered, At, Settled
<1>4. StartUnsent' /\ IdleIsNone'
  BY <1>0 DEF StartUnsent, IdleIsNone, INITIAL
<1>5. ~overlapped' => Exclusive'
  <2>. SUFFICES ASSUME ~overlapped PROVE Exclusive'
    OBVIOUS
  <2>. USE DEF Exclusive, INITIAL
  <2>1. \A s \in Runs : (Attached(s))' => Attached(s) /\ s # r
    BY DEF TypeOK, Attached, Alive, At, Waiting, Machine
  <2>2. shown'.id = shown.id
    BY <1>0 DEF TypeOK
  <2>3. ShownIsLive' /\ OneLive'
    BY <2>1, <2>2 DEF ShownIsLive, OneLive
  <2>4. EntryIsVisible'
    BY <2>2 DEF TypeOK, EntryIsVisible
  <2>5. NothingToHide'
    <3>1. CASE gone[r] = None
      BY <2>2, <3>1 DEF TypeOK, NothingToHide, ShownIsLive, Attached
    <3>2. CASE gone[r] # None
      BY <1>0, <3>2 DEF TypeOK, NothingToHide, Hideable
    <3>. QED  BY <3>1, <3>2
  <2>. QED  BY <2>3, <2>4, <2>5
<1>. QED  BY <1>1, <1>2, <1>3, <1>4, <1>5

\* A known signature leads to the confirmation, whatever the cluster took.
LEMMA SentKeeps ==
    ASSUME IInv, NEW r \in Runs, Alive(r), Frame,
           accepted' \in {accepted, accepted \cup {r}},
           misread' \in {misread, misread \cup {r}}, Sent(r)
    PROVE  IInv'
<1>. USE FlowAssumption DEF IInv, Sent, Frame, user
<1>0. shown' = IF gone[r] = None
               THEN [shown EXCEPT !.status = "confirming", !.sent = TRUE]
               ELSE shown
  BY DEF Show
<1>1. TypeOK'
  <2>1. run' \in [Runs -> Process]
    BY AtIsProcess DEF TypeOK, Process, Stages
  <2>2. shown' \in [status : Status, sent : BOOLEAN, id : Runs \cup {None},
                   retryable : BOOLEAN]
    BY <1>0 DEF TypeOK, Status
  <2>3. entries' \in [Runs -> Entry \cup {None}]
    BY DEF TypeOK, LiveHasEntry, Entry
  <2>. QED  BY <2>1, <2>2, <2>3 DEF TypeOK, Process
<1>2. LiveHasEntry'
  <2>. SUFFICES ASSUME NEW s \in Runs, (Alive(s))'
                PROVE  (entries[s] # None /\ entries[s].status = "pending")'
    BY DEF LiveHasEntry
  <2>1. Alive(s)
    BY DEF TypeOK, Alive, At
  <2>2. entries[r] \in Entry /\ entries'[r] = [entries[r] EXCEPT !.sent = TRUE]
    BY DEF TypeOK, LiveHasEntry
  <2>3. entries[s] # None /\ entries[s].status = "pending"
    BY <2>1 DEF LiveHasEntry
  <2>4. CASE s = r
    <3>. DEFINE e == [entries[r] EXCEPT !.sent = TRUE]
    <3>1. e \in Entry /\ e.status = entries[r].status
      BY ONLY <2>2 DEF Entry
    <3>2. e # None
      BY ONLY <3>1, FlowAssumption
    <3>. HIDE DEF e
    <3>3. entries'[s] = e
      BY <2>2, <2>4 DEF e
    <3>. QED  BY <2>3, <2>4, <3>1, <3>2, <3>3
  <2>5. CASE s # r
    BY <2>3, <2>5 DEF TypeOK
  <2>. QED  BY <2>4, <2>5
<1>3. AcceptedIsRemembered'
  BY DEF TypeOK, AcceptedIsRemembered, At, Settled
<1>4. StartUnsent' /\ IdleIsNone'
  BY <1>0 DEF TypeOK, StartUnsent, IdleIsNone
<1>5. ~overlapped' => Exclusive'
  <2>. SUFFICES ASSUME ~overlapped PROVE Exclusive'
    OBVIOUS
  <2>. USE DEF Exclusive
  <2>1. \A s \in Runs : (Attached(s))' => Attached(s)
    BY DEF TypeOK, Attached, Alive, At
  <2>2. shown'.id = shown.id /\ (shown'.sent \/ shown' = shown)
    BY <1>0 DEF TypeOK
  <2>3. ShownIsLive' /\ OneLive'
    BY <2>1, <2>2 DEF ShownIsLive, OneLive
  <2>4. entries[r] \in Entry /\ \A s \in Runs : entries'[s] # None =>
            entries[s] # None /\ entries'[s].hidden = entries[s].hidden
    BY DEF TypeOK, LiveHasEntry, Entry
  <2>5. EntryIsVisible'
    BY <2>2, <2>4 DEF EntryIsVisible
  <2>6. NothingToHide'
    BY <2>2, <2>4 DEF NothingToHide, Hideable, TypeOK
  <2>. QED  BY <2>3, <2>5, <2>6
<1>. QED  BY <1>1, <1>2, <1>3, <1>4, <1>5

\* Another stage of a live run, with the hook and the registry as they were.
LEMMA StageKeeps ==
    ASSUME IInv, NEW r \in Runs, Alive(r), Frame, UNCHANGED <<hook, misread>>,
           accepted' \in {accepted, accepted \cup {r}},
           NEW to \in Process, run' = [run EXCEPT ![r] = to],
           to.pc \in Waiting \cup Machine,
           mode = "local" /\ r \in accepted' =>
               to.ambiguous /\ to.pc \in {"recheck", "send"}
    PROVE  IInv'
<1>. USE FlowAssumption DEF IInv, Frame, user, hook
<1>1. TypeOK'
  <2>1. run' \in [Runs -> Process]
    BY DEF TypeOK, Process
  <2>. QED  BY <2>1 DEF TypeOK, Process
<1>2. \A s \in Runs : (Alive(s))' => Alive(s)
  BY DEF TypeOK, Alive
<1>7. \A s \in Runs : (Attached(s))' => Attached(s)
  BY <1>2 DEF Attached
<1>3. LiveHasEntry'
  BY <1>2 DEF LiveHasEntry
<1>4. AcceptedIsRemembered'
  BY DEF TypeOK, AcceptedIsRemembered
<1>5. StartUnsent' /\ IdleIsNone'
  BY DEF StartUnsent, IdleIsNone
<1>6. ~overlapped' => Exclusive'
  BY <1>7 DEF Exclusive, ShownIsLive, OneLive, EntryIsVisible, NothingToHide, Hideable
<1>. QED  BY <1>1, <1>3, <1>4, <1>5, <1>6

\* A transient failure inside withRetry: again, given up, or treated as sent.
LEMMA TransientKeeps ==
    ASSUME IInv, NEW r \in Runs, run[r].pc \in {"recheck", "send", "prompt"}, Frame,
           accepted' \in {accepted, accepted \cup {r}}, UNCHANGED misread,
           NEW broadcast \in BOOLEAN, Transient(r, broadcast),
           mode = "local" /\ r \in accepted' => Uncertain(r, broadcast)
    PROVE  IInv'
<1>1. Alive(r)
  BY DEF Alive, Waiting, Machine
<1>2. CASE LastAttempt(r) /\ Uncertain(r, broadcast) /\ Sent(r)
  BY <1>1, <1>2, SentKeeps
<1>3. CASE LastAttempt(r) /\ ~Uncertain(r, broadcast) /\ Stop(r, "failed", TRUE)
  BY <1>1, <1>3, StopKeeps
<1>4. CASE ~LastAttempt(r) /\ UNCHANGED hook
           /\ run' = [run EXCEPT ![r].pc = "recheck", ![r].attempt = @ + 1,
                                 ![r].ambiguous = Uncertain(r, broadcast)]
  <2>. DEFINE to == [run[r] EXCEPT !.pc = "recheck", !.attempt = @ + 1,
                                   !.ambiguous = Uncertain(r, broadcast)]
  <2>1. run \in [Runs -> Process]
    BY DEF IInv, TypeOK, Process
  <2>2. Uncertain(r, broadcast) \in BOOLEAN
    BY <2>1 DEF Uncertain, Process
  <2>3. to \in Process
    BY <1>4, <2>1, <2>2, FlowAssumption
    DEF Process, LastAttempt, Stages, Machine
  <2>4. run' = [run EXCEPT ![r] = to]
    BY <1>4, <2>1
  <2>5. to.pc = "recheck" /\ to.ambiguous = Uncertain(r, broadcast)
    BY <2>1 DEF Process
  <2>. HIDE DEF to
  <2>. QED  BY <1>1, <1>4, <2>3, <2>4, <2>5, StageKeeps DEF Machine
<1>. QED  BY <1>2, <1>3, <1>4 DEF Transient

\* Any other failure: given up, or treated as sent.
LEMMA DeterministicKeeps ==
    ASSUME IInv, NEW r \in Runs, Alive(r), Frame,
           accepted' \in {accepted, accepted \cup {r}},
           misread' \in {misread, misread \cup {r}},
           mode = "local" /\ r \in accepted' => run[r].ambiguous \/ r \in misread',
           NEW status \in {"failed", "rejected"}, NEW retryable \in BOOLEAN,
           Deterministic(r, status, retryable)
    PROVE  IInv'
<1>1. CASE run[r].ambiguous /\ Sent(r)
  BY <1>1, SentKeeps
<1>2. CASE ~run[r].ambiguous /\ Stop(r, status, retryable)
  BY <1>2, StopKeeps
<1>. QED  BY <1>1, <1>2 DEF Deterministic

\* A plain move.
LEMMA GotoKeeps ==
    ASSUME IInv, NEW r \in Runs, run[r].pc \in Waiting \cup Machine, Frame,
           UNCHANGED <<cluster, hook>>,
           NEW pc \in Waiting \cup Machine, Goto(r, pc),
           mode = "local" /\ r \in accepted => pc \in {"recheck", "send"}
    PROVE  IInv'
<1>. DEFINE to == [run[r] EXCEPT !.pc = pc]
<1>1. run \in [Runs -> Process]
  BY DEF IInv, TypeOK, Process
<1>2. to \in Process /\ to.pc = pc /\ to.ambiguous = run[r].ambiguous
  BY <1>1 DEF Process, Stages
<1>3. run' = [run EXCEPT ![r] = to]
  BY <1>1 DEF Goto
<1>4. mode = "local" /\ r \in accepted => run[r].ambiguous
  BY DEF IInv, AcceptedIsRemembered, Waiting, Machine, Settled
<1>. HIDE DEF to
<1>. QED  BY <1>2, <1>3, <1>4, StageKeeps DEF Alive, cluster

\* A move that shows its progress, possibly after the hook was reset.
LEMMA ProgressKeeps ==
    ASSUME IInv, NEW r \in Runs, run[r].pc \in {"prepare", "simulate"}, Frame,
           UNCHANGED <<cluster, inFlight, entries>>,
           NEW pc \in {"simulate", "guard"}, Goto(r, pc),
           NEW status \in {"simulating", "awaiting-signature"},
           NEW id \in {shown.id, r}, NEW before \in {shown, INITIAL},
           Show(r, [before EXCEPT !.status = status, !.id = id])
    PROVE  IInv'
<1>. USE DEF IInv, Frame, user, cluster
<1>1. run' \in [Runs -> Process] /\ run \in [Runs -> Process]
  BY DEF TypeOK, Process, Goto, Stages, Machine
<1>2. /\ shown' \in [status : Status, sent : BOOLEAN, id : Runs \cup {None},
                     retryable : BOOLEAN]
      /\ \/ gone[r] = None /\ shown'.status = status /\ shown'.id = id
         \/ gone[r] # None /\ shown' = shown
  <2>. DEFINE Shape == [status : Status, sent : BOOLEAN, id : Runs \cup {None},
                        retryable : BOOLEAN]
              next == [before EXCEPT !.status = status, !.id = id]
  <2>1. shown \in Shape /\ shown.id \in Runs \cup {None}
    BY DEF TypeOK
  <2>2. INITIAL \in Shape
    BY DEF INITIAL, Status
  <2>3. before \in Shape /\ id \in Runs \cup {None} /\ status \in Status
    BY <2>1, <2>2 DEF Status
  <2>4. next \in Shape /\ next.status = status /\ next.id = id
    BY <2>3
  <2>5. shown' = IF gone[r] = None THEN next ELSE shown
    BY DEF Show
  <2>. HIDE DEF next, Shape
  <2>6. shown' \in Shape
    BY <2>1, <2>4, <2>5
  <2>. QED  BY <2>4, <2>5, <2>6 DEF Shape
<1>3. Alive(r) /\ \A s \in Runs : (Alive(s))' => Alive(s)
  BY <1>1 DEF Alive, Goto, Waiting, Machine, Process
<1>4. TypeOK'
  BY <1>1, <1>2 DEF TypeOK, Process
<1>5. LiveHasEntry'
  BY <1>3 DEF LiveHasEntry
<1>6. AcceptedIsRemembered'
  BY <1>1 DEF AcceptedIsRemembered, Goto, Settled, Process
<1>7. StartUnsent' /\ IdleIsNone'
  BY <1>2 DEF StartUnsent, IdleIsNone
<1>8. ~overlapped' => Exclusive'
  <2>. SUFFICES ASSUME ~overlapped PROVE Exclusive'
    OBVIOUS
  <2>0. \A s \in Runs : (Attached(s))' => Attached(s)
    BY <1>3 DEF Attached
  <2>1. gone[r] = None => \A s \in Runs : Attached(s) => s = r
    BY <1>3 DEF Exclusive, OneLive, Attached
  <2>2. ShownIsLive' /\ OneLive'
    BY <1>2, <2>0, <2>1 DEF Exclusive, ShownIsLive, OneLive
  <2>3. EntryIsVisible'
    <3>. SUFFICES ASSUME NEW s \in Runs \ dropped, entries[s] # None,
                         ~entries[s].hidden
                  PROVE  open /\ shown'.id = s
      BY DEF EntryIsVisible
    <3>1. open /\ shown.id = s
      BY DEF Exclusive, EntryIsVisible
    <3>2. s # None
      BY FlowAssumption DEF Runs
    <3>3. gone[r] = None => s = r
      BY <1>3, <3>1, <3>2 DEF Exclusive, ShownIsLive, Attached
    <3>. QED  BY <1>2, <3>1, <3>3
  <2>4. NothingToHide'
    BY <1>2 DEF Exclusive, NothingToHide, Hideable
  <2>. QED  BY <2>2, <2>3, <2>4 DEF Exclusive
<1>. QED  BY <1>4, <1>5, <1>6, <1>7, <1>8

-----------------------------------------------------------------------------
(* One lemma per action.                                                   *)

LEMMA InitHolds == Init => IInv
<1>. SUFFICES ASSUME Init PROVE IInv
  OBVIOUS
<1>. USE FlowAssumption
<1>1. TypeOK
  <2>1. run \in [Runs -> Process]
    BY AtIsProcess DEF Init, Stages
  <2>2. gone \in [Runs -> Contexts \cup {None}] /\ entries \in [Runs -> Entry \cup {None}]
    BY DEF Init
  <2>3. moves \in 0..MaxMoves /\ accepted \cup misread \cup dropped \subseteq Runs
    BY DEF Init
  <2>4. shown \in [status : Status, sent : BOOLEAN, id : Runs \cup {None},
                   retryable : BOOLEAN]
    BY DEF Init, INITIAL, Status
  <2>. QED  BY <2>1, <2>2, <2>3, <2>4 DEF Init, TypeOK, Process
<1>2. \A r \in Runs : ~Alive(r)
  BY DEF Init, Alive, At, Waiting, Machine
<1>3. LiveHasEntry /\ AcceptedIsRemembered
  BY <1>2 DEF Init, LiveHasEntry, AcceptedIsRemembered
<1>4. StartUnsent /\ IdleIsNone
  BY DEF Init, INITIAL, StartUnsent, IdleIsNone
<1>5. Exclusive
  <2>1. ShownIsLive /\ OneLive
    BY <1>2 DEF ShownIsLive, OneLive, Attached
  <2>2. EntryIsVisible /\ NothingToHide
    BY DEF Init, INITIAL, EntryIsVisible, NothingToHide
  <2>. QED  BY <2>1, <2>2 DEF Exclusive
<1>. QED  BY <1>1, <1>3, <1>4, <1>5 DEF IInv

LEMMA PressKeeps ==
    ASSUME IInv, NEW r \in Runs, Press(r)
    PROVE  IInv'
<1>. USE FlowAssumption DEF IInv, Press, Start, cluster
<1>1. PICK prepares \in BOOLEAN :
        /\ run' = [run EXCEPT ![r] =
                     [pc |-> IF prepares THEN "prepare" ELSE "simulate",
                      context |-> context, attempt |-> 1, ambiguous |-> FALSE]]
        /\ shown' = [INITIAL EXCEPT !.id = r, !.status =
                       IF prepares THEN "preparing-alt" ELSE "simulating"]
  OBVIOUS
<1>2. run \in [Runs -> Process] /\ run' \in [Runs -> Process]
  BY <1>1 DEF TypeOK, Process, Stages, Waiting, Machine
<1>3. /\ shown' \in [status : Status, sent : BOOLEAN, id : Runs \cup {None},
                     retryable : BOOLEAN]
      /\ shown'.id = r /\ ~shown'.sent
      /\ shown'.status \in {"preparing-alt", "simulating"}
  BY <1>1 DEF TypeOK, INITIAL, Status
<1>4. /\ entries' \in [Runs -> Entry \cup {None}]
      /\ entries'[r] # None /\ entries'[r].status = "pending"
      /\ \A s \in Runs \ {r} : entries'[s] = entries[s]
  <2>. DEFINE armed == [status |-> "pending", sent |-> FALSE,
                        hidden |-> FALSE, dismissed |-> FALSE]
  <2>1. armed \in Entry
    BY DEF Entry
  <2>2. armed # None /\ armed.status = "pending"
    BY ONLY <2>1, FlowAssumption
  <2>3. entries' = [entries EXCEPT ![r] = armed] /\ entries \in [Runs -> Entry \cup {None}]
    BY DEF TypeOK
  <2>. HIDE DEF armed
  <2>. QED  BY ONLY <2>1, <2>2, <2>3, r \in Runs
<1>5. \A s \in Runs \ {r} : run'[s] = run[s]
  BY <1>1, <1>2
<1>6. TypeOK'
  BY <1>2, <1>3, <1>4 DEF TypeOK, Process
<1>7. LiveHasEntry'
  BY <1>4, <1>5 DEF LiveHasEntry, Alive
<1>8. AcceptedIsRemembered'
  BY <1>5, <1>2 DEF AcceptedIsRemembered, Settled, TypeOK
<1>9. StartUnsent' /\ IdleIsNone'
  BY <1>3 DEF StartUnsent, IdleIsNone
<1>10. ~overlapped' => Exclusive'
  <2>. SUFFICES ASSUME ~overlapped' PROVE Exclusive'
    OBVIOUS
  <2>1. ~overlapped /\ \A s \in Runs : ~Attached(s)
    BY DEF TypeOK, Attached
  <2>2. ~Hideable
    BY DEF Hideable, StartUnsent
  <2>3. ShownIsLive' /\ OneLive'
    BY <1>3, <1>5, <2>1 DEF ShownIsLive, OneLive, Attached, Alive
  <2>4. EntryIsVisible'
    <3>. SUFFICES ASSUME NEW s \in Runs \ dropped, s # r, entries[s] # None
                  PROVE  entries[s].hidden
      BY <1>3, <1>4 DEF EntryIsVisible
    <3>1. shown.id # s
      BY <2>1, <2>2 DEF Exclusive, NothingToHide, Runs
    <3>. QED  BY <2>1, <3>1 DEF Exclusive, EntryIsVisible
  <2>5. NothingToHide'
    BY <1>3 DEF NothingToHide, Hideable
  <2>. QED  BY <2>3, <2>4, <2>5 DEF Exclusive
<1>. QED  BY <1>6, <1>7, <1>8, <1>9, <1>10

LEMMA PreparedKeeps == ASSUME IInv, NEW r \in Runs, Prepared(r) PROVE IInv'
<1>1. [INITIAL EXCEPT !.id = r, !.status = "simulating"]
        = [INITIAL EXCEPT !.status = "simulating", !.id = r]
  BY DEF INITIAL
<1>. QED  BY <1>1, ProgressKeeps DEF Prepared, Frame

LEMMA SimulatedKeeps == ASSUME IInv, NEW r \in Runs, Simulated(r) PROVE IInv'
<1>1. [shown EXCEPT !.status = "awaiting-signature"]
        = [shown EXCEPT !.status = "awaiting-signature", !.id = shown.id]
  BY DEF IInv, TypeOK
<1>. QED  BY <1>1, ProgressKeeps DEF Simulated, Frame

\* Before its broadcast a local run has nothing on the cluster.
LEMMA NotYetAccepted ==
    ASSUME IInv, NEW r \in Runs,
           run[r].pc \in {"prepare", "simulate", "guard", "sign", "prompt"}
    PROVE  mode = "local" => r \notin accepted
BY DEF IInv, AcceptedIsRemembered, Settled

LEMMA Remembered ==
    ASSUME IInv, NEW r \in Runs, run[r].pc \in Machine
    PROVE  mode = "local" /\ r \in accepted =>
               run[r].ambiguous /\ run[r].pc \in {"recheck", "send"}
BY DEF IInv, AcceptedIsRemembered, Settled, Machine

LEMMA StageFailsKeeps == ASSUME IInv, NEW r \in Runs, StageFails(r) PROVE IInv'
<1>1. Alive(r)
  BY DEF StageFails, Alive, Waiting, Machine
<1>. QED  BY <1>1, NotYetAccepted, StopKeeps DEF StageFails, Frame, cluster

LEMMA GuardKeeps == ASSUME IInv, NEW r \in Runs, Guard(r) PROVE IInv'
<1>. DEFINE next == IF run[r].pc = "recheck" THEN "send"
                    ELSE IF mode = "local" THEN "sign" ELSE "recheck"
<1>1. Frame /\ UNCHANGED cluster /\ run[r].pc \in {"guard", "recheck"} /\ Alive(r)
  BY DEF Guard, Frame, Alive, Machine
<1>6. UNCHANGED accepted /\ UNCHANGED misread
  BY <1>1 DEF cluster
<1>2. CASE Goto(r, next) /\ UNCHANGED hook
  <2>1. next \in Machine /\ run[r].pc \in Machine
    BY <1>1 DEF Machine
  <2>2. mode = "local" /\ r \in accepted => next \in {"recheck", "send"}
    BY <1>1, <2>1, Remembered
  <2>. QED  BY <1>1, <1>2, <2>1, <2>2, GotoKeeps
<1>3. CASE Deterministic(r, "failed", FALSE)
  BY <1>1, <1>3, <1>6, Remembered, DeterministicKeeps DEF Machine
<1>4. CASE run[r].pc = "recheck" /\ Transient(r, FALSE)
  <2>1. mode = "local" /\ r \in accepted => Uncertain(r, FALSE)
    BY <1>4, Remembered DEF Machine, Uncertain
  <2>. QED  BY <1>1, <1>4, <1>6, <2>1, TransientKeeps
<1>5. CASE run[r].pc = "guard" /\ Stop(r, "failed", TRUE)
  BY <1>1, <1>5, <1>6, NotYetAccepted, StopKeeps
<1>. QED  BY <1>2, <1>3, <1>4, <1>5 DEF Guard

LEMMA BroadcastKeeps ==
    ASSUME IInv, NEW r \in Runs, run[r].pc \in {"send", "prompt"}, Frame, Broadcast(r)
    PROVE  IInv'
<1>1. Alive(r)
  BY DEF Alive, Machine, Waiting
<1>2. mode = "local" => Uncertain(r, TRUE)
  BY DEF Uncertain
<1>4. CASE Accept(r) /\ Sent(r) /\ UNCHANGED misread
  BY <1>1, <1>4, SentKeeps DEF Accept
<1>5. CASE Accept(r) \/ UNCHANGED accepted
  <2>1. accepted' \in {accepted, accepted \cup {r}}
    BY <1>5 DEF Accept
  <2>2. CASE Transient(r, TRUE) /\ UNCHANGED misread
    BY <1>2, <2>1, <2>2, TransientKeeps
  <2>3. ASSUME NEW status \in {"failed", "rejected"}, NEW retryable \in BOOLEAN,
               misread' = misread \cup {r}, Deterministic(r, status, retryable)
        PROVE  IInv'
    BY <1>1, <2>1, <2>3, DeterministicKeeps
  <2>4. \/ Transient(r, TRUE) /\ UNCHANGED misread
        \/ misread' = misread \cup {r} /\ Deterministic(r, "failed", FALSE)
        \/ misread' = misread \cup {r} /\ Deterministic(r, "rejected", TRUE)
        \/ Accept(r) /\ Sent(r) /\ UNCHANGED misread
    BY DEF Broadcast
  <2>. QED  BY <1>4, <2>2, <2>3, <2>4
<1>. QED  BY <1>4, <1>5 DEF Broadcast

LEMMA HandOverKeeps == ASSUME IInv, NEW r \in Runs, HandOver(r) PROVE IInv'
<1>1. Frame /\ run[r].pc \in {"sign", "send"} /\ Alive(r)
  BY DEF HandOver, Frame, Alive, Machine
<1>2. CASE /\ run[r].pc = "sign" \/ mode = "wallet"
           /\ Goto(r, "prompt") /\ UNCHANGED <<hook, cluster>>
  <2>1. mode = "local" => r \notin accepted
    BY <1>2, NotYetAccepted DEF IInv, TypeOK
  <2>. QED  BY <1>1, <1>2, <2>1, GotoKeeps DEF Waiting, Machine
<1>3. CASE run[r].pc = "send" /\ Broadcast(r)
  BY <1>1, <1>3, BroadcastKeeps
<1>4. CASE Deterministic(r, "failed", FALSE) /\ UNCHANGED cluster
  BY <1>1, <1>4, Remembered, DeterministicKeeps DEF Machine, cluster
<1>. QED  BY <1>2, <1>3, <1>4 DEF HandOver

LEMMA AnswerKeeps == ASSUME IInv, NEW r \in Runs, Answer(r) PROVE IInv'
<1>1. Frame /\ run[r].pc = "prompt" /\ Alive(r)
  BY DEF Answer, Frame, Alive, Waiting
<1>2. CASE Goto(r, "recheck") /\ UNCHANGED <<hook, cluster>>
  BY <1>1, <1>2, GotoKeeps DEF Waiting, Machine
<1>3. CASE Broadcast(r)
  BY <1>1, <1>3, BroadcastKeeps
<1>4. ASSUME NEW status \in {"failed", "rejected"}, NEW retryable \in BOOLEAN,
             Stop(r, status, retryable), UNCHANGED cluster
      PROVE  IInv'
  BY <1>1, <1>4, NotYetAccepted, StopKeeps DEF cluster
<1>. QED  BY <1>2, <1>3, <1>4 DEF Answer

LEMMA ConfirmKeeps == ASSUME IInv, NEW r \in Runs, Confirm(r) PROVE IInv'
<1>. USE DEF IInv
<1>0. run[r].pc = "confirm" /\ Frame /\ UNCHANGED cluster /\ inFlight' \in BOOLEAN
  BY DEF Confirm, Frame, Release
<1>1. PICK result \in Settled, status \in {"confirmed", "failed", "submitted"},
           id \in {shown.id, r} :
        /\ Goto(r, result)
        /\ entries' = [entries EXCEPT ![r] = Outcome(@, status)]
        /\ Show(r, [INITIAL EXCEPT !.status = status, !.sent = TRUE, !.id = id])
  BY DEF Confirm, Settled
<1>2. run \in [Runs -> Process] /\ run' \in [Runs -> Process]
  BY <1>1 DEF TypeOK, Process, Goto, Stages
<1>3. /\ shown' \in [status : Status, sent : BOOLEAN, id : Runs \cup {None},
                     retryable : BOOLEAN]
      /\ \/ /\ gone[r] = None
            /\ shown'.id \in {shown.id, r} /\ shown'.sent
            /\ shown'.status \in {"confirmed", "failed", "submitted"}
            /\ ~shown'.retryable
         \/ gone[r] # None /\ shown' = shown
  BY <1>1 DEF TypeOK, INITIAL, Status, Show
<1>4. /\ entries' \in [Runs -> Entry \cup {None}]
      /\ entries'[r] # None => entries[r] # None /\ entries'[r].hidden = entries[r].hidden
      /\ \A s \in Runs \ {r} : entries'[s] = entries[s]
  <2>1. entries[r] \in Entry /\ entries \in [Runs -> Entry \cup {None}]
    BY <1>0 DEF LiveHasEntry, Alive, TypeOK
  <2>2. Outcome(entries[r], status) \in {None, [entries[r] EXCEPT !.status = status]}
    BY DEF Outcome
  <2>3. [entries[r] EXCEPT !.status = status] \in Entry
        /\ [entries[r] EXCEPT !.status = status].hidden = entries[r].hidden
    BY <2>1 DEF Entry
  <2>4. entries[r] # None
    BY <2>1, FlowAssumption
  <2>. QED  BY <1>1, <2>1, <2>2, <2>3, <2>4
<1>5. Alive(r) /\ \A s \in Runs : (Alive(s))' => Alive(s) /\ s # r
  BY <1>0, <1>1, <1>2 DEF Settled, Goto, Alive, Waiting, Machine, Process
<1>6. TypeOK'
  BY <1>0, <1>2, <1>3, <1>4 DEF TypeOK, Process, Frame, user, cluster
<1>7. LiveHasEntry'
  BY <1>4, <1>5 DEF LiveHasEntry
<1>8. AcceptedIsRemembered'
  BY <1>0, <1>1, <1>2 DEF AcceptedIsRemembered, Goto, Process, Frame, user, cluster, TypeOK
<1>9. StartUnsent' /\ IdleIsNone'
  BY <1>3 DEF StartUnsent, IdleIsNone
<1>10. ~overlapped' => Exclusive'
  <2>. SUFFICES ASSUME ~overlapped PROVE Exclusive'
    BY <1>0 DEF Frame, user
  <2>0. UNCHANGED <<open, gone, dropped>>
    BY <1>0 DEF Frame, user
  <2>1. \A s \in Runs : (Attached(s))' => Attached(s) /\ s # r
    BY <1>5, <2>0 DEF Attached
  <2>2. gone[r] = None => \A s \in Runs : ~(Attached(s))'
    BY <1>5, <2>1 DEF Exclusive, OneLive, Attached
  <2>3. ShownIsLive' /\ OneLive'
    BY <1>3, <2>1, <2>2 DEF Exclusive, ShownIsLive, OneLive
  <2>4. EntryIsVisible'
    <3>. SUFFICES ASSUME NEW s \in Runs \ dropped, entries[s] # None, ~entries[s].hidden
                  PROVE  open /\ shown'.id = s
      BY <1>4, <2>0 DEF EntryIsVisible
    <3>1. open /\ shown.id = s
      BY DEF Exclusive, EntryIsVisible
    <3>2. gone[r] = None => s = r
      BY <1>5, <3>1, FlowAssumption DEF Exclusive, ShownIsLive, Attached, Runs
    <3>. QED  BY <1>3, <3>1, <3>2
  <2>5. NothingToHide'
    <3>1. CASE gone[r] = None
      BY <1>3, <3>1 DEF NothingToHide, Hideable
    <3>2. CASE gone[r] # None
      BY <1>3, <1>4, <3>2 DEF Exclusive, NothingToHide, Hideable, TypeOK
    <3>. QED  BY <3>1, <3>2
  <2>. QED  BY <2>3, <2>4, <2>5 DEF Exclusive
<1>. QED  BY <1>6, <1>7, <1>8, <1>9, <1>10

LEMMA DismissKeeps == ASSUME IInv, NEW r \in Runs, Dismiss(r) PROVE IInv'
<1>. USE DEF IInv, Dismiss, user, cluster
<1>1. entries[r] \in Entry /\ entries'[r] = [entries[r] EXCEPT !.dismissed = TRUE]
      /\ \A s \in Runs \ {r} : entries'[s] = entries[s]
  BY DEF TypeOK
<1>6. entries'[r] \in Entry /\ entries'[r].status = entries[r].status
  <2>. DEFINE e == [entries[r] EXCEPT !.dismissed = TRUE]
  <2>1. e \in Entry /\ e.status = entries[r].status
    BY ONLY <1>1 DEF Entry
  <2>. QED  BY <1>1, <2>1
<1>2. TypeOK'
  BY <1>1, <1>6 DEF TypeOK
<1>3. LiveHasEntry'
  BY <1>1, <1>6, FlowAssumption DEF LiveHasEntry, Alive
<1>4. AcceptedIsRemembered' /\ StartUnsent' /\ IdleIsNone'
  BY DEF AcceptedIsRemembered, StartUnsent, IdleIsNone
<1>5. ~overlapped' => Exclusive'
  BY <1>1 DEF Exclusive, ShownIsLive, OneLive, Attached, Alive, EntryIsVisible,
              NothingToHide, Hideable, Entry
<1>. QED  BY <1>2, <1>3, <1>4, <1>5

LEMMA RemoveKeeps == ASSUME IInv, NEW r \in Runs, Remove(r) PROVE IInv'
<1>. USE DEF IInv, Remove, user, cluster
<1>1. ~Alive(r)
  BY DEF Terminal, LiveHasEntry
<1>2. TypeOK'
  BY DEF TypeOK
<1>3. LiveHasEntry'
  BY <1>1 DEF LiveHasEntry, Alive, TypeOK
<1>4. AcceptedIsRemembered' /\ StartUnsent' /\ IdleIsNone'
  BY DEF AcceptedIsRemembered, StartUnsent, IdleIsNone
<1>5. ~overlapped' => Exclusive'
  BY DEF Exclusive, ShownIsLive, OneLive, Attached, Alive, EntryIsVisible,
         NothingToHide, Hideable, TypeOK
<1>. QED  BY <1>2, <1>3, <1>4, <1>5

\* Closing is where an entry changes hands.
LEMMA CloseKeeps == ASSUME IInv, Close PROVE IInv'
<1>. USE DEF IInv, Close, cluster
<1>1. /\ entries' \in [Runs -> Entry \cup {None}]
      /\ \A s \in Runs :
           /\ entries'[s] # None <=> entries[s] # None
           /\ entries[s] # None => /\ entries'[s].status = entries[s].status
                                   /\ entries[s].hidden => entries'[s].hidden
  <2>1. CASE entries' = entries
    BY <2>1 DEF TypeOK
  <2>2. CASE shown.id # None /\ entries[shown.id] # None
             /\ entries' = [entries EXCEPT ![shown.id].hidden = TRUE]
    <3>. DEFINE id == shown.id  hid == [entries[id] EXCEPT !.hidden = TRUE]
    <3>1. id \in Runs /\ entries[id] \in Entry
      BY <2>2 DEF TypeOK
    <3>2. hid \in Entry /\ hid.status = entries[id].status /\ hid.hidden
      BY <3>1 DEF Entry
    <3>3. hid # None
      BY <3>2, FlowAssumption
    <3>4. entries' = [entries EXCEPT ![id] = hid] /\ entries \in [Runs -> Entry \cup {None}]
      BY <2>2 DEF TypeOK
    <3>. HIDE DEF hid, id
    <3>5. entries[id] # None
      BY <3>1, FlowAssumption
    <3>. QED  BY ONLY <3>1, <3>2, <3>3, <3>4, <3>5
  <2>. QED  BY <2>1, <2>2
<1>2. /\ shown' \in [status : Status, sent : BOOLEAN, id : Runs \cup {None},
                     retryable : BOOLEAN]
      /\ shown' \in {shown, INITIAL}
  <2>1. shown' \in {shown, INITIAL}
    OBVIOUS
  <2>2. INITIAL \in [status : Status, sent : BOOLEAN, id : Runs \cup {None},
                     retryable : BOOLEAN]
    BY DEF INITIAL, Status
  <2>. QED  BY <2>1, <2>2 DEF TypeOK
<1>3. TypeOK'
  BY <1>1, <1>2 DEF TypeOK
<1>4. LiveHasEntry'
  BY <1>1 DEF LiveHasEntry, Alive
<1>5. AcceptedIsRemembered' /\ StartUnsent' /\ IdleIsNone'
  BY <1>2 DEF AcceptedIsRemembered, StartUnsent, IdleIsNone, INITIAL
<1>6. ~overlapped' => Exclusive'
  <2>. SUFFICES ASSUME ~overlapped PROVE Exclusive'
    OBVIOUS
  <2>1. ShownIsLive' /\ OneLive'
    BY <1>2 DEF Exclusive, ShownIsLive, OneLive, Attached, Alive, INITIAL
  <2>2. EntryIsVisible'
    <3>. SUFFICES ASSUME NEW s \in Runs \ dropped, entries[s] # None
                  PROVE  entries'[s].hidden
      BY <1>1 DEF EntryIsVisible
    <3>1. CASE entries[s].hidden
      BY <1>1, <3>1
    <3>2. CASE shown.id = s
      <4>1. Hideable /\ s # None
        BY <3>2, FlowAssumption DEF Exclusive, NothingToHide, Runs
      <4>2. entries' = [entries EXCEPT ![s].hidden = TRUE] /\ entries[s] \in Entry
        BY <3>2, <4>1 DEF TypeOK
      <4>. QED  BY <4>2 DEF TypeOK, Entry
    <3>. QED  BY <3>1, <3>2 DEF Exclusive, EntryIsVisible
  <2>3. NothingToHide'
    BY <1>1, <1>2 DEF Exclusive, NothingToHide, Hideable, INITIAL, TypeOK
  <2>. QED  BY <2>1, <2>2, <2>3 DEF Exclusive
<1>. QED  BY <1>3, <1>4, <1>5, <1>6

\* Reopening shows again what the modal was dropped with.
LEMMA OpenReviewKeeps == ASSUME IInv, OpenReview PROVE IInv'
<1>. USE DEF IInv, OpenReview, hook, cluster
<1>1. TypeOK'
  BY DEF TypeOK
<1>2. LiveHasEntry' /\ AcceptedIsRemembered' /\ StartUnsent' /\ IdleIsNone'
  BY DEF LiveHasEntry, Alive, AcceptedIsRemembered, StartUnsent, IdleIsNone
<1>3. ~overlapped' => Exclusive'
  BY DEF Exclusive, ShownIsLive, OneLive, Attached, Alive, EntryIsVisible,
         NothingToHide, Hideable
<1>. QED  BY <1>1, <1>2, <1>3

LEMMA SwitchKeeps == ASSUME IInv, Switch PROVE IInv'
<1>. USE FlowAssumption DEF IInv, Switch, Move, hook, cluster
<1>1. TypeOK'
  BY DEF TypeOK
<1>2. LiveHasEntry' /\ AcceptedIsRemembered' /\ StartUnsent' /\ IdleIsNone'
  BY DEF LiveHasEntry, Alive, AcceptedIsRemembered, StartUnsent, IdleIsNone
<1>3. ~overlapped' => Exclusive'
  BY DEF Exclusive, ShownIsLive, OneLive, Attached, Alive, EntryIsVisible,
         NothingToHide, Hideable
<1>. QED  BY <1>1, <1>2, <1>3

LEMMA MovesOn == TypeOK /\ Move => moves' \in 0..MaxMoves
BY FlowAssumption DEF TypeOK, Move

LEMMA DropsRuns == TypeOK => Dropped \subseteq Runs
BY DEF TypeOK, Dropped

LEMMA CloseByFormKeeps == ASSUME IInv, CloseByForm PROVE IInv'
<1>. USE FlowAssumption DEF IInv, CloseByForm, hook, cluster
<1>1. TypeOK'
  BY DropsRuns, MovesOn DEF TypeOK
<1>2. LiveHasEntry' /\ AcceptedIsRemembered' /\ StartUnsent' /\ IdleIsNone'
  BY DEF LiveHasEntry, Alive, AcceptedIsRemembered, StartUnsent, IdleIsNone
<1>3. ~overlapped' => Exclusive'
  BY DEF Exclusive, ShownIsLive, OneLive, Attached, Alive, EntryIsVisible,
         NothingToHide, Hideable, Dropped
<1>. QED  BY <1>1, <1>2, <1>3

\* After a navigation no run is attached, and the new hook shows nothing.
LEMMA LeaveKeeps == ASSUME IInv, Leave PROVE IInv'
<1>. USE FlowAssumption DEF IInv, Leave, cluster
<1>1. gone' \in [Runs -> Contexts \cup {None}]
      /\ \A r \in Runs : Alive(r) => gone'[r] # None
  BY DEF TypeOK
<1>2. shown' \in [status : Status, sent : BOOLEAN, id : Runs \cup {None},
                  retryable : BOOLEAN]
      /\ shown'.status = "idle" /\ ~shown'.sent /\ shown'.id = None
  BY DEF INITIAL, Status
<1>3. TypeOK'
  BY <1>1, <1>2, DropsRuns, MovesOn DEF TypeOK
<1>4. LiveHasEntry' /\ AcceptedIsRemembered'
  BY DEF LiveHasEntry, Alive, AcceptedIsRemembered
<1>5. StartUnsent' /\ IdleIsNone'
  BY <1>2 DEF StartUnsent, IdleIsNone
<1>6. ~overlapped' => Exclusive'
  <2>1. \A r \in Runs : ~(Attached(r))'
    BY <1>1 DEF Attached, Alive
  <2>. QED
    BY <1>2, <2>1 DEF Exclusive, ShownIsLive, OneLive, EntryIsVisible, NothingToHide,
                      Dropped
<1>. QED  BY <1>3, <1>4, <1>5, <1>6

-----------------------------------------------------------------------------
(* The theorems.                                                           *)

LEMMA IInvInductive == IInv /\ [Next]_vars => IInv'
<1>. SUFFICES ASSUME IInv, [Next]_vars PROVE IInv'
  OBVIOUS
<1>1. CASE UNCHANGED vars
  BY <1>1 DEF vars, hook, user, cluster, Attached, IInv, TypeOK, LiveHasEntry, Alive, AcceptedIsRemembered,
     StartUnsent, IdleIsNone, Exclusive, ShownIsLive, OneLive, EntryIsVisible,
     NothingToHide, Hideable
<1>2. CASE OpenReview \/ CloseByForm \/ Leave \/ Switch
  BY <1>2, OpenReviewKeeps, CloseByFormKeeps, LeaveKeeps, SwitchKeeps
<1>3. CASE Close
  BY <1>3, CloseKeeps
<1>4. ASSUME NEW r \in Runs, Step(r) PROVE IInv'
  BY <1>4, PressKeeps, PreparedKeeps, SimulatedKeeps, StageFailsKeeps, GuardKeeps,
     HandOverKeeps, AnswerKeeps, ConfirmKeeps, DismissKeeps, RemoveKeeps
  DEF Step, Proceed
<1>. QED  BY <1>1, <1>2, <1>3, <1>4 DEF Next

\* The inductive invariant: types, live entries, remembered broadcasts, and
\* what the one hook state says while attached runs do not overlap.
THEOREM FlowInvariant == Spec => []IInv
<1>. QED  BY InitHolds, IInvInductive, PTL DEF Spec

\* Every reachable state of the flow has the declared shape: no attempt beyond
\* the retry loop's bound, no entry of another form.
THEOREM FlowTypeCorrect == Spec => []TypeOK
<1>1. IInv => TypeOK
  BY DEF IInv
<1>. QED  BY FlowInvariant, <1>1, PTL

\* On the local path "never sent" is true for any number of attempts, lost
\* answers, failed guards and navigations: a run that stops as unsent left
\* nothing on the cluster, unless signAndSendLocal met an error of a broadcast
\* that isTransientRpcError does not take for a lost answer.
THEOREM LocalFailureSafe == Spec => []LocalFailureIsUnsent
<1>1. IInv => LocalFailureIsUnsent
  BY DEF IInv, AcceptedIsRemembered, LocalFailureIsUnsent, Settled
<1>. QED  BY FlowInvariant, <1>1, PTL

\* While no run is started over a live one of its form, handleClose and
\* reopening never lose a sent transaction: it is in the modal or with the
\* banner, unless the form closed its modal itself or was navigated away from.
THEOREM HiddenOutcomeSafe == Spec => []HiddenOutcomeSurfaces
<1>1. IInv => HiddenOutcomeSurfaces
  <2>. SUFFICES ASSUME IInv, ~overlapped, NEW r \in Runs \ dropped, entries[r] # None,
                       entries[r].sent, ~(open /\ shown.id = r)
                PROVE  OnBanner([entries[r] EXCEPT !.dismissed = FALSE])
    BY DEF HiddenOutcomeSurfaces
  <2>1. entries[r] \in Entry /\ entries[r].hidden
    BY DEF IInv, Exclusive, EntryIsVisible, TypeOK
  <2>. QED  BY <2>1 DEF Entry, OnBanner
<1>. QED  BY FlowInvariant, <1>1, PTL

\* A failure of any kind opens no wallet prompt.
LEMMA NoPrompt ==
    ASSUME run \in [Runs -> Process], NEW r \in Runs, NEW s \in Runs
    PROVE  \A status, retryable, broadcast :
             \/ Stop(s, status, retryable) \/ Sent(s)
             \/ Transient(s, broadcast) \/ Deterministic(s, status, retryable)
             => run[r].pc = "prompt" \/ run'[r].pc # "prompt"
<1>1. \A pc : pc # "prompt" /\ run' = [run EXCEPT ![s] = At(pc)]
             => run[r].pc = "prompt" \/ run'[r].pc # "prompt"
  BY DEF At, Process
<1>2. \A status, retryable : Stop(s, status, retryable) \/ Sent(s)
             => run[r].pc = "prompt" \/ run'[r].pc # "prompt"
  BY <1>1 DEF Stop, Sent
<1>3. \A broadcast : Transient(s, broadcast)
             => run[r].pc = "prompt" \/ run'[r].pc # "prompt"
  <2>. SUFFICES ASSUME NEW broadcast, ~LastAttempt(s),
                       run' = [run EXCEPT ![s].pc = "recheck", ![s].attempt = @ + 1,
                                          ![s].ambiguous = Uncertain(s, broadcast)]
                PROVE  run[r].pc = "prompt" \/ run'[r].pc # "prompt"
    BY <1>2 DEF Transient
  <2>. QED  BY DEF Process
<1>. QED  BY <1>2, <1>3 DEF Deterministic

\* As long as a run's form is there, the wallet and the RPC are called for it
\* only under the context it was reviewed with, however the user switches
\* between two of its steps.
THEOREM ReviewedContextOnly == Spec => OnlyReviewedContext
<1>1. IInv /\ [Next]_vars =>
        [\A r \in Runs :
            /\ gone[r] = None
            /\ \/ run[r].pc # "prompt" /\ run'[r].pc = "prompt"
               \/ run[r].pc = "send" /\ r \in accepted' \ accepted
            => context = run[r].context]_vars
  <2>. SUFFICES ASSUME IInv, Next, NEW r \in Runs, gone[r] = None,
                       \/ run[r].pc # "prompt" /\ run'[r].pc = "prompt"
                       \/ run[r].pc = "send" /\ r \in accepted' \ accepted
                PROVE  context = run[r].context
    OBVIOUS
  <2>1. run \in [Runs -> Process]
    BY DEF IInv, TypeOK, Process
  <2>. USE <2>1
  <2>2. CASE OpenReview \/ Close \/ CloseByForm \/ Leave \/ Switch
    BY <2>2 DEF OpenReview, Close, CloseByForm, Leave, Switch, cluster
  <2>3. ASSUME NEW s \in Runs, Step(s) PROVE context = run[r].context
    <3>1. CASE Press(s)
      <4>1. PICK to : to.pc # "prompt" /\ run' = [run EXCEPT ![s] = to]
        BY <3>1 DEF Press, Start
      <4>2. run[r].pc # "prompt" => run'[r].pc # "prompt"
        BY <4>1
      <4>. QED  BY <3>1, <4>2 DEF Press, Start, cluster
    <3>2. CASE Prepared(s) \/ Simulated(s) \/ StageFails(s) \/ Guard(s)
      <4>1. UNCHANGED accepted
        BY <3>2 DEF Prepared, Simulated, StageFails, Guard, cluster
      <4>2. \A pc : pc # "prompt" /\ Goto(s, pc) /\ run[r].pc # "prompt"
                    => run'[r].pc # "prompt"
        BY DEF Goto, Process
      <4>3. CASE Prepared(s) \/ Simulated(s)
        BY <4>1, <4>2, <4>3 DEF Prepared, Simulated
      <4>4. CASE StageFails(s)
        BY <4>1, <4>4, NoPrompt DEF StageFails
      <4>5. CASE Guard(s)
        BY <4>1, <4>2, <4>5, NoPrompt DEF Guard
      <4>. QED  BY <3>2, <4>3, <4>4, <4>5
    <3>3. CASE HandOver(s)
      <4>1. CASE AssertNow(s) /\ Goto(s, "prompt") /\ UNCHANGED cluster
        BY <4>1 DEF Goto, AssertNow, CurrentIntent, cluster
      <4>2. CASE AssertNow(s) /\ Broadcast(s)
        <5>1. accepted' \subseteq accepted \cup {s}
          BY <4>2 DEF Broadcast, Accept
        <5>2. run[r].pc # "prompt" => run'[r].pc # "prompt"
          BY <4>2, NoPrompt DEF Broadcast
        <5>. QED  BY <4>2, <5>1, <5>2 DEF AssertNow, CurrentIntent
      <4>3. CASE Deterministic(s, "failed", FALSE) /\ UNCHANGED cluster
        BY <4>3, NoPrompt DEF cluster
      <4>. QED  BY <3>3, <4>1, <4>2, <4>3 DEF HandOver
    <3>4. CASE Answer(s)
      <4>1. run[s].pc = "prompt" /\ accepted' \subseteq accepted \cup {s}
        BY <3>4 DEF Answer, Broadcast, Accept, cluster
      <4>2. Goto(s, "recheck") /\ run[r].pc # "prompt" => run'[r].pc # "prompt"
        BY DEF Goto, Process
      <4>3. run[r].pc # "prompt" => run'[r].pc # "prompt"
        BY <3>4, <4>2, NoPrompt DEF Answer, Broadcast
      <4>. QED  BY <4>1, <4>3
    <3>5. CASE Confirm(s) \/ Dismiss(s) \/ Remove(s)
      <4>1. UNCHANGED accepted
        BY <3>5 DEF Confirm, Dismiss, Remove, cluster
      <4>2. CASE Confirm(s)
        <5>1. PICK result \in Settled : run' = [run EXCEPT ![s].pc = result]
          BY <4>2 DEF Confirm, Goto, Settled
        <5>. QED  BY <4>1, <5>1 DEF Process, Settled
      <4>3. CASE Dismiss(s) \/ Remove(s)
        BY <4>1, <4>3 DEF Dismiss, Remove
      <4>. QED  BY <3>5, <4>2, <4>3
    <3>. QED  BY <2>3, <3>1, <3>2, <3>3, <3>4, <3>5 DEF Step, Proceed
  <2>. QED  BY <2>2, <2>3 DEF Next
<1>. QED  BY FlowInvariant, <1>1, PTL DEF Spec, OnlyReviewedContext
=============================================================================
