---------------------------- MODULE ThreadQueue ----------------------------
(***************************************************************************)
(* One thread's message queue: the dispatcher's handlers                   *)
(* (bridge/threads/dispatch.ts), the queue drainer                         *)
(* (bridge/threads/queue-drain.ts), and what surrounds them: the pane's    *)
(* agent, the herd poll that projects its status, archiving, and a bridge  *)
(* restart. Threads share no queue state, so one thread is enough.         *)
(*                                                                         *)
(* The bridge is one JavaScript event loop. A step below is the code       *)
(* between two awaits. A continuation that needs no I/O (a resolved        *)
(* promise, `Promise.resolve().then`) runs before any other step: every    *)
(* other step of Next waits for its Turn.                                  *)
(*                                                                         *)
(* A definition named for a mistake (PutBackTwice, UnholdEvery, ...)       *)
(* stands before the one it is a mistake of. No action uses it: the        *)
(* properties are shown to notice when it takes the other's place.         *)
(*                                                                         *)
(* Rows: `order` is the queue by position, `rowState` the state column,    *)
(* `why` the held_reason column. Message text and attachments are left     *)
(* out: a message is its identity.                                         *)
(***************************************************************************)
EXTENDS Naturals, Sequences, FiniteSets, SequencesExt

CONSTANTS
    Msgs,         \* messages the clients dispatch
    NoMsg,        \* "no message", also the drainer as the owner of a mark
    Modes,        \* the dispatch modes the clients use
    Reads,        \* what a composerReady read may answer
    Outcomes,     \* what a guarded send to a listed pane may come to
    Agent,        \* the statuses the agent in the pane goes through
    Overlap,      \* bound: message.dispatch handlers in flight at once
    MaxCrashes,   \* bound: bridge restarts
    MaxArchives,  \* bound: times the thread is archived
    MaxGaps,      \* bound: times the engine's snapshot drops the pane
    MaxFailures   \* MAX_DRAIN_FAILURES

AllModes    == {"start", "queue", "steer"}
AllReads    == {"yes", "no", "throws"}
AllOutcomes == {"sent", "delivered", "failed", "busy"}
Results     == AllOutcomes \cup {"none", "gone"}
Statuses    == {"idle", "working", "approval"}
HoldReasons == {"restart", "pane-closed", "send-failed", "interrupt-failed", "interrupt-timeout"}

ASSUME ConstantsAssumption ==
    /\ NoMsg \notin Msgs
    /\ Modes \subseteq AllModes /\ Reads \subseteq AllReads /\ Outcomes \subseteq AllOutcomes
    /\ Agent \subseteq Statuses
    /\ Overlap \in Nat /\ MaxCrashes \in Nat /\ MaxArchives \in Nat /\ MaxGaps \in Nat
    /\ MaxFailures \in Nat \ {0}

VARIABLES
    order,       \* queued_messages of the thread, by position
    rowState,    \* [Msgs -> "absent" | "queued" | "sending" | "held"]
    why,         \* [Msgs -> held_reason]
    status,      \* Thread.status, the bridge's projection
    pending,     \* the thread has a pending runtime request
    shelf,       \* Thread.shelf: "active", or archived, by the "user" or as pane-"closed"
    agent,       \* what the agent in the pane is really doing
    listed,      \* engine.current() lists the pane
    pc,          \* [Msgs -> where the message's handler or background steer is]
    out,         \* [Msgs -> outcome of the start or steer send in flight]
    pass,        \* the drain pass in flight: its row, the row's position and outcome, and
                 \* the DrainState it holds (its failures; forgotten by an archive since?)
    passQueued,  \* queuedPass holds the thread
    retry,       \* DrainState.retry is armed
    failures,    \* DrainState.failures
    awaiting,    \* DrainState.awaiting, with the owner of the mark
    closing,     \* the deferred holdClosed of an archive has yet to run
    interrupting,\* the interrupt key went out less than INTERRUPT_REPEAT_MS ago
    intr,        \* a run.interrupt command is waiting for its pane turn
    spent,       \* what is used of the bounds
    sends,       \* history: times each message was submitted to the agent
    fate,        \* history: "open", "cancelled", or "told" (a dispatch.failed names it)
    settledSince,\* history: since the drainer's last send: "no", "yes" (a settle, RUN_WAIT_MS, or
                 \* its failure), or "lifted" (a failed start or steer took the mark away)
    seen         \* history: a poll has reached the projection since this bridge started

queueVars == <<order, rowState, why>>
world     == <<status, pending, shelf, agent, listed>>
drainer   == <<pass, passQueued, retry, failures, awaiting, closing>>
dispatch  == <<pc, out, interrupting, intr>>
history   == <<sends, fate, settledSince, seen>>
vars      == <<queueVars, world, drainer, dispatch, spent, history>>

-----------------------------------------------------------------------------
(* State predicates and row operators *)

NoMark   == [on |-> FALSE, by |-> NoMsg, saw |-> FALSE, timer |-> FALSE]
IdlePass == [pc |-> "idle", row |-> NoMsg, at |-> 0, res |-> "none", strikes |-> 0, forgotten |-> FALSE]

Handling == {"box", "bgStart", "start", "bgSteer"}
Steering == {"sBg", "sBgStopping", "sPress", "sWait", "sLate", "woken", "sSend"}
Places   == {"new", "refused", "done", "rowed"} \cup Handling \cup Steering

TypeOK ==
    /\ order \in Seq(Msgs)
    /\ rowState \in [Msgs -> {"absent", "queued", "sending", "held"}]
    /\ why \in [Msgs -> HoldReasons \cup {"none"}]
    /\ status \in Statuses /\ agent \in Statuses
    /\ pending \in BOOLEAN /\ shelf \in {"active", "user", "closed"} /\ listed \in BOOLEAN
    /\ pc \in [Msgs -> Places]
    /\ out \in [Msgs -> Results]
    /\ pass \in [pc : {"idle", "lift", "box", "send"}, row : Msgs \cup {NoMsg},
                 at : Nat, res : Results, strikes : Nat, forgotten : BOOLEAN]
    /\ passQueued \in BOOLEAN /\ retry \in BOOLEAN /\ closing \in BOOLEAN
    /\ failures \in Nat
    /\ awaiting \in [on : BOOLEAN, by : Msgs \cup {NoMsg}, saw : BOOLEAN, timer : BOOLEAN]
    /\ interrupting \in BOOLEAN /\ intr \in BOOLEAN
    /\ spent \in [crashes : Nat, archives : Nat, gaps : Nat]
    /\ sends \in [Msgs -> Nat]
    /\ fate \in [Msgs -> {"open", "cancelled", "told"}]
    /\ settledSince \in {"no", "lifted", "yes"} /\ seen \in BOOLEAN

Settled       == status = "idle"
Archived      == shelf # "active"
Blocked       == status = "approval" \/ pending
Present(m)    == rowState[m] # "absent"
Some(s)       == \E m \in Msgs : rowState[m] = s
RestartHeld(m) == rowState[m] = "held" /\ why[m] = "restart"
InFlight      == {m \in Msgs : pc[m] \in Handling}

IndexOf(s, m)  == CHOOSE i \in 1..Len(s) : s[i] = m
Without(s, m)  == IF \E i \in 1..Len(s) : s[i] = m THEN RemoveAt(s, IndexOf(s, m)) ELSE s
FirstQueued    == order[CHOOSE i \in 1..Len(order) :
                            /\ rowState[order[i]] = "queued"
                            /\ \A j \in 1..(i - 1) : rowState[order[j]] # "queued"]

PutBackTwice(s, m, at) == InsertAt(s, IF at > Len(s) THEN Len(s) ELSE at, m)

\* normalizeQueue after one row takes back the position it had when it was marked:
\* sorted by position, a tie kept in list order.
PutBack(s, m, at) ==
    LET i    == IndexOf(s, m)
        rest == RemoveAt(s, i)
    IN  CASE at < i -> InsertAt(rest, at + 1, m)
          [] at = i -> s
          [] at > i -> InsertAt(rest, IF at - 1 > Len(s) THEN Len(s) ELSE at - 1, m)

DropIfSending(m) ==
    /\ order' = IF rowState[m] = "sending" THEN Without(order, m) ELSE order
    /\ rowState' = [rowState EXCEPT ![m] = IF @ = "sending" THEN "absent" ELSE @]
    /\ why' = [why EXCEPT ![m] = IF rowState[m] = "sending" THEN "none" ELSE @]

\* Drop one row; the rest keep their order.
Drop(m) ==
    /\ order' = Without(order, m)
    /\ rowState' = [rowState EXCEPT ![m] = "absent"]
    /\ why' = [why EXCEPT ![m] = "none"]

SetRowSwapped(m, s, reason) ==
    /\ rowState' = [rowState EXCEPT ![m] = reason]
    /\ why' = [why EXCEPT ![m] = s]

SetRow(m, s, reason) ==
    /\ rowState' = [rowState EXCEPT ![m] = s]
    /\ why' = [why EXCEPT ![m] = reason]

\* History: a send outside the drain failed and took a mark away with it.
Lifts(sent) == settledSince' = IF ~sent /\ settledSince = "no" THEN "lifted" ELSE settledSince

HoldAllUnsent(reason) ==
    /\ rowState' = [m \in Msgs |-> IF rowState[m] \in {"queued", "held"} THEN "held" ELSE "absent"]
    /\ why' = [m \in Msgs |-> IF rowState[m] = "queued" THEN reason
                              ELSE IF rowState[m] = "held" THEN why[m] ELSE "none"]
    /\ order' = SelectSeq(order, LAMBDA m : rowState[m] # "sending")

HoldAllQueued(reason) ==
    /\ rowState' = [m \in Msgs |-> IF rowState[m] = "queued" THEN "held" ELSE rowState[m]]
    /\ why' = [m \in Msgs |-> IF rowState[m] = "queued" THEN reason ELSE why[m]]
    /\ UNCHANGED order

\* Every row not yet held is held for `reason`.
HoldAll(reason) ==
    /\ rowState' = [m \in Msgs |-> IF Present(m) THEN "held" ELSE "absent"]
    /\ why' = [m \in Msgs |-> IF rowState[m] \in {"queued", "sending"} THEN reason ELSE why[m]]
    /\ UNCHANGED order

UnholdEvery(ms) ==
    /\ rowState' = [m \in Msgs |-> IF ms # {} /\ Present(m) THEN "queued" ELSE rowState[m]]
    /\ why' = [m \in Msgs |-> "none"]
    /\ UNCHANGED order

\* Held rows in `ms` go back on the send path.
Unhold(ms) ==
    /\ rowState' = [m \in Msgs |-> IF m \in ms THEN "queued" ELSE rowState[m]]
    /\ why' = [m \in Msgs |-> IF m \in ms THEN "none" ELSE why[m]]
    /\ UNCHANGED order

-----------------------------------------------------------------------------
(* Marks: one message is on its way to becoming a run *)

BeginSend(by) == awaiting' = [on |-> TRUE, by |-> by, saw |-> FALSE, timer |-> FALSE]

\* `sender.send` looks for the pane at once: a pane the engine does not list is "gone".
Begun == IF listed THEN "none" ELSE "gone"

FinishAlways(by, sent) ==
    awaiting' = IF awaiting.on /\ awaiting.by = by THEN NoMark ELSE awaiting

Finish(by, sent) ==
    awaiting' = IF ~awaiting.on \/ awaiting.by # by THEN awaiting
                ELSE IF ~sent \/ (awaiting.saw /\ Settled) THEN NoMark
                ELSE [awaiting EXCEPT !.timer = TRUE]

\* A continuation is ready to run.
MicrotaskReady ==
    \/ closing
    \/ passQueued /\ pass.pc = "idle"
    \/ pass.res = "gone"
    \/ \E m \in Msgs : pc[m] = "woken" \/ out[m] = "gone"

\* Anything else waits for the continuations: a turn of the event loop.
Turn == ~MicrotaskReady

Init ==
    /\ order = <<>>
    /\ rowState = [m \in Msgs |-> "absent"]
    /\ why = [m \in Msgs |-> "none"]
    /\ status = "idle" /\ agent = "idle"
    /\ pending = FALSE /\ shelf = "active" /\ listed = TRUE
    /\ pc = [m \in Msgs |-> "new"]
    /\ out = [m \in Msgs |-> "none"]
    /\ pass = IdlePass
    /\ passQueued = FALSE /\ retry = FALSE /\ closing = FALSE
    /\ failures = 0
    /\ awaiting = NoMark
    /\ interrupting = FALSE /\ intr = FALSE
    /\ spent = [crashes |-> 0, archives |-> 0, gaps |-> 0]
    /\ sends = [m \in Msgs |-> 0]
    /\ fate = [m \in Msgs |-> "open"]
    /\ settledSince = "yes" /\ seen = TRUE

-----------------------------------------------------------------------------
(* The drain pass (queue-drain.ts) *)

\* Nothing of the thread is on its way, so its pane may be given a message.
FreeBesideSteers == ~Archived /\ Settled /\ ~awaiting.on
Free == ~Archived /\ Settled /\ ~awaiting.on /\ ~Some("sending")

\* A pass that was scheduled starts: every check up to the first await.
PassStart ==
    /\ passQueued /\ pass.pc = "idle"
    /\ passQueued' = FALSE /\ retry' = FALSE
    /\ LET lift  == Free /\ (\E m \in Msgs : RestartHeld(m))
           plain == Free /\ ~(\E m \in Msgs : RestartHeld(m))
       IN  /\ failures' = IF plain /\ ~Some("queued") THEN 0 ELSE failures
           \* composerReady answers null at once for a pane the engine does not list.
           /\ pass' = IF lift /\ ~pending /\ listed
                      THEN [IdlePass EXCEPT !.pc = "lift"]
                      ELSE IF plain /\ Some("queued") /\ listed
                      THEN [IdlePass EXCEPT !.pc = "box", !.row = FirstQueued, !.strikes = failures]
                      ELSE IdlePass
    /\ UNCHANGED <<queueVars, world, awaiting, closing, dispatch, spent, history>>

\* resumeRestartHold after its composer read.
PassLift(read) ==
    /\ pass.pc = "lift"
    /\ pass' = IdlePass
    /\ retry' = (retry \/ read = "no")
    /\ IF /\ read = "yes" /\ ~Archived /\ Settled /\ ~awaiting.on /\ ~pending
          /\ \E m \in Msgs : RestartHeld(m)
       THEN Unhold({m \in Msgs : RestartHeld(m)}) /\ passQueued' = TRUE
       ELSE UNCHANGED <<queueVars, passQueued>>
    /\ UNCHANGED <<world, failures, awaiting, closing, dispatch, spent, history>>

\* After the composer read: look again, then mark the row and begin its send.
PassMark(read) ==
    /\ pass.pc = "box"
    /\ retry' = (retry \/ read = "no")
    /\ LET clear == read = "yes" /\ Free /\ rowState[pass.row] = "queued"
       IN  IF clear /\ FirstQueued = pass.row
           THEN /\ SetRow(pass.row, "sending", "none")
                /\ BeginSend(NoMsg)
                /\ pass' = [pass EXCEPT !.pc = "send", !.at = IndexOf(order, pass.row), !.res = Begun]
                /\ settledSince' = "no"
                /\ UNCHANGED <<order, passQueued>>
           ELSE /\ pass' = IdlePass
                /\ passQueued' = (passQueued \/ clear)
                /\ UNCHANGED <<queueVars, awaiting, settledSince>>
    /\ UNCHANGED <<world, failures, closing, dispatch, spent, sends, fate, seen>>

\* The guarded send of the drained row comes to an outcome in its pane turn.
PassDeliver(o) ==
    /\ pass.pc = "send" /\ pass.res = "none"
    /\ pass' = [pass EXCEPT !.res = o]
    /\ sends' = IF o = "sent" THEN [sends EXCEPT ![pass.row] = @ + 1] ELSE sends
    /\ UNCHANGED <<queueVars, world, passQueued, retry, failures, awaiting, closing,
                   dispatch, spent, fate, settledSince, seen>>

GiveBackNothing(m, s, reason) ==
    IF Present(m) THEN Drop(m) ELSE UNCHANGED queueVars

\* Give the row back to the queue in state `s`, at the position it was marked at.
GiveBack(m, s, reason) ==
    IF Present(m)
    THEN SetRow(m, s, reason) /\ order' = PutBack(order, m, pass.at)
    ELSE UNCHANGED queueVars

\* The pass commits what its send came to. `withRow` does nothing for a row that is gone.
PassCommit ==
    /\ pass.pc = "send" /\ pass.res # "none"
    /\ Finish(NoMsg, pass.res = "sent")
    /\ LET m      == pass.row
           strike == pass.res = "failed"
           out3   == strike /\ pass.strikes + 1 >= MaxFailures
       IN  /\ CASE pass.res \in {"sent", "delivered"} -> Drop(m)
                [] out3 -> GiveBack(m, "held", "send-failed")
                [] OTHER -> GiveBack(m, "queued", "none")
           /\ failures' = CASE pass.forgotten -> failures
                            [] pass.res \in {"sent", "delivered"} \/ out3 -> 0
                            [] strike -> pass.strikes + 1
                            [] OTHER -> failures
           /\ retry' = (retry \/ pass.res = "busy" \/ (strike /\ ~out3))
           /\ fate' = IF pass.res = "delivered" \/ (out3 /\ Present(m))
                      THEN [fate EXCEPT ![m] = "told"] ELSE fate
           /\ settledSince' = IF pass.res # "sent" THEN "yes" ELSE settledSince
    /\ pass' = IdlePass
    /\ UNCHANGED <<world, passQueued, closing, dispatch, spent, sends, seen>>

RetryForgets ==
    /\ retry
    /\ retry' = FALSE
    /\ UNCHANGED <<queueVars, world, pass, passQueued, failures, awaiting, closing, dispatch, spent, history>>

\* The retry timer of the thread fires.
RetryFires ==
    /\ retry
    /\ retry' = FALSE /\ passQueued' = TRUE
    /\ UNCHANGED <<queueVars, world, pass, failures, awaiting, closing, dispatch, spent, history>>

\* RUN_WAIT_MS passed and the sent message's run never showed.
RunWaitFires ==
    /\ awaiting.on /\ awaiting.timer
    /\ awaiting' = NoMark /\ passQueued' = TRUE
    /\ settledSince' = "yes"
    /\ UNCHANGED <<queueVars, world, pass, retry, failures, closing, dispatch, spent, sends, fate, seen>>

\* A run.ended event: it releases the mark only if the run was seen working.
RunEnded ==
    /\ awaiting.on /\ awaiting.saw
    /\ awaiting' = NoMark /\ passQueued' = TRUE
    /\ UNCHANGED <<queueVars, world, pass, retry, failures, closing, dispatch, spent, history>>

\* The deferred holdClosed of thread.archived.
HoldClosed ==
    /\ closing
    /\ closing' = FALSE
    /\ HoldAll("pane-closed")
    /\ UNCHANGED <<world, pass, passQueued, retry, failures, awaiting, dispatch, spent, history>>

-----------------------------------------------------------------------------
(* message.dispatch (dispatch.ts): the handler of one command *)

\* startPath: a guarded send outside the drain.
StartPath(m) ==
    /\ BeginSend(m)
    /\ pc' = [pc EXCEPT ![m] = "start"]
    /\ out' = [out EXCEPT ![m] = Begun]
    /\ UNCHANGED <<queueVars, passQueued>>

Refuse(m) ==
    /\ pc' = [pc EXCEPT ![m] = "refused"]
    /\ UNCHANGED <<queueVars, passQueued, awaiting, out>>

Await(m, place) ==
    /\ pc' = [pc EXCEPT ![m] = place]
    /\ UNCHANGED <<queueVars, passQueued, awaiting, out>>

Rowed(m) == [pc EXCEPT ![m] = "rowed"]

\* enqueue commits the row behind `rows`, the queue as it was read.
CommitRow(m, rows) ==
    /\ order' = Append(rows, m)
    /\ rowState' = [k \in Msgs |-> IF k = m THEN "queued"
                                   ELSE IF \E i \in 1..Len(rows) : rows[i] = k THEN rowState[k] ELSE "absent"]
    /\ why' = [k \in Msgs |-> IF \E i \in 1..Len(rows) : rows[i] = k THEN why[k] ELSE "none"]
    /\ passQueued' = TRUE
    /\ pc' = Rowed(m)
    /\ UNCHANGED <<awaiting, out>>

\* enqueue up to its first await: an empty queue on a resting thread reads the composer first.
\* A pane the engine does not list answers null, which is not `false`: the start path.
Enqueue(m) ==
    IF order = <<>> /\ Settled /\ ~Blocked
    THEN IF listed THEN Await(m, "box") ELSE StartPath(m)
    ELSE CommitRow(m, order)

\* The synchronous part of the handler. A refusal leaves no receipt, so the client may retry.
\* `maint`: the open run is a /compact (openRunIsMaintenance).
Dispatch(m, mode, maint) ==
    /\ pc[m] \in {"new", "refused"} /\ Cardinality(InFlight) < Overlap
    /\ maint => status = "working"
    /\ IF Archived THEN Refuse(m)
       ELSE CASE mode = "queue" -> Enqueue(m)
              [] mode = "start" -> IF Blocked THEN Refuse(m)
                                   ELSE IF Settled THEN StartPath(m) ELSE Await(m, "bgStart")
              [] mode = "steer" -> IF Blocked THEN Refuse(m)
                                   ELSE IF Settled THEN StartPath(m)
                                   ELSE IF maint THEN Enqueue(m) ELSE Await(m, "bgSteer")
    /\ UNCHANGED <<world, pass, retry, failures, closing, interrupting, intr, spent, history>>

\* enqueue after the composer read: `rows` was read before it and was empty.
EnqueueRead(m, read) ==
    /\ pc[m] = "box"
    /\ CASE read = "yes"    -> StartPath(m)
         [] read = "no"     -> CommitRow(m, <<>>)
         [] read = "throws" -> Refuse(m)
    /\ UNCHANGED <<world, pass, retry, failures, closing, interrupting, intr, spent, history>>

\* start while working: only an agent that waits for background agents takes it.
StartRead(m, background) ==
    /\ pc[m] = "bgStart"
    /\ IF background THEN StartPath(m) ELSE Refuse(m)
    /\ UNCHANGED <<world, pass, retry, failures, closing, interrupting, intr, spent, history>>

\* steer while working: straight in when the agent waits for background agents, else a row at
\* the head, already `sending`. The thread is the one read before the await; the open request,
\* the last interrupt and the rows are read now.
SteerRead(m, background) ==
    /\ pc[m] = "bgSteer"
    /\ IF background THEN StartPath(m)
       ELSE IF ~interrupting /\ pending THEN Refuse(m)
       ELSE /\ order' = <<m>> \o order
            /\ SetRow(m, "sending", "none")
            /\ pc' = [pc EXCEPT ![m] = IF interrupting THEN "sBgStopping" ELSE "sBg"]
            /\ passQueued' = TRUE
            /\ UNCHANGED <<awaiting, out>>
    /\ UNCHANGED <<world, pass, retry, failures, closing, interrupting, intr, spent, history>>

\* The guarded send of a start comes to an outcome; then the handler commits it.
StartDeliver(m, o) ==
    /\ pc[m] = "start" /\ out[m] = "none"
    /\ out' = [out EXCEPT ![m] = o]
    /\ sends' = IF o = "sent" THEN [sends EXCEPT ![m] = @ + 1] ELSE sends
    /\ UNCHANGED <<queueVars, world, drainer, pc, interrupting, intr, spent, fate, settledSince, seen>>

StartCommit(m) ==
    /\ pc[m] = "start" /\ out[m] # "none"
    /\ Finish(m, out[m] = "sent") /\ Lifts(out[m] = "sent")
    /\ pc' = [pc EXCEPT ![m] = IF out[m] \in {"busy", "gone"} THEN "refused" ELSE "done"]
    /\ fate' = IF out[m] \in {"failed", "delivered"} THEN [fate EXCEPT ![m] = "told"] ELSE fate
    /\ out' = [out EXCEPT ![m] = "none"]
    /\ UNCHANGED <<queueVars, world, pass, passQueued, retry, failures, closing, interrupting, intr,
                   spent, sends, seen>>

-----------------------------------------------------------------------------
(* runSteer: the background half of a steer *)

\* Off the send path, held at the head of the queue, and the operator told why.
HoldSteer(m, reason) ==
    /\ pc' = Rowed(m)
    /\ IF Present(m)
       THEN /\ order' = <<m>> \o Without(order, m)
            /\ SetRow(m, "held", reason)
            /\ fate' = [fate EXCEPT ![m] = "told"]
       ELSE UNCHANGED <<queueVars, fate>>

\* The last look before a steer is sent: its row is still `sending` on a thread not archived.
SteerSend(m) ==
    /\ IF Archived \/ rowState[m] # "sending"
       THEN pc' = Rowed(m) /\ UNCHANGED <<awaiting, out>>
       ELSE /\ pc' = [pc EXCEPT ![m] = "sSend"]
            /\ out' = [out EXCEPT ![m] = Begun]
            /\ BeginSend(m)
    /\ UNCHANGED <<queueVars, fate>>

\* waitSettled: gone, settled already, or a waiter.
WaitSettled(m) ==
    IF ~Archived /\ Settled THEN SteerSend(m)
    ELSE /\ pc' = [pc EXCEPT ![m] = IF Archived THEN "rowed" ELSE "sWait"]
         /\ UNCHANGED <<queueVars, awaiting, out, fate>>

steerFrame == <<world, pass, retry, failures, closing, intr, spent, sends, settledSince, seen>>

SteerBackground(m, background) ==
    /\ pc[m] \in {"sBg", "sBgStopping"}
    /\ IF background THEN SteerSend(m)
       ELSE IF pc[m] = "sBg"
       THEN pc' = [pc EXCEPT ![m] = "sPress"] /\ UNCHANGED <<queueVars, awaiting, out, fate>>
       ELSE WaitSettled(m)
    /\ UNCHANGED <<passQueued, interrupting, steerFrame>>

\* The interrupt key, in the pane's turn: pressed, or not (pane gone, pane busy, the key failed),
\* or left alone because the run turns out to be a /compact: then the row goes to the back.
SteerPress(m, result) ==
    /\ pc[m] = "sPress"
    /\ result = "pressed" => listed
    /\ CASE result = "pressed" -> WaitSettled(m) /\ interrupting' = TRUE /\ UNCHANGED passQueued
         [] result = "failed"  -> /\ HoldSteer(m, "interrupt-failed")
                                  /\ UNCHANGED <<interrupting, passQueued, awaiting, out>>
         [] result = "maintenance" ->
               /\ pc' = Rowed(m)
               /\ IF Present(m)
                  THEN /\ order' = Append(Without(order, m), m)
                       /\ SetRow(m, "queued", "none")
                       /\ passQueued' = TRUE
                  ELSE UNCHANGED <<queueVars, passQueued>>
               /\ UNCHANGED <<interrupting, awaiting, out, fate>>
    /\ UNCHANGED steerFrame

\* STEER_WAIT_MS passed: one more background read decides.
SteerWaitFires(m) ==
    /\ pc[m] = "sWait"
    /\ pc' = [pc EXCEPT ![m] = "sLate"]
    /\ UNCHANGED <<queueVars, awaiting, out, fate, passQueued, interrupting, steerFrame>>

SteerWaitsOn(m, background) ==
    /\ pc[m] = "sLate"
    /\ IF background THEN SteerSend(m)
       ELSE pc' = [pc EXCEPT ![m] = "sWait"] /\ UNCHANGED <<queueVars, awaiting, out, fate>>
    /\ UNCHANGED <<passQueued, interrupting, steerFrame>>

\* The background read after the wait: an agent that waits for background agents takes the steer.
SteerLate(m, background) ==
    /\ pc[m] = "sLate"
    /\ IF background THEN SteerSend(m)
       ELSE HoldSteer(m, "interrupt-timeout") /\ UNCHANGED <<awaiting, out>>
    /\ UNCHANGED <<passQueued, interrupting, steerFrame>>

\* The waiter was told the thread settled.
SteerWoken(m) ==
    /\ pc[m] = "woken"
    /\ SteerSend(m)
    /\ UNCHANGED <<passQueued, interrupting, steerFrame>>

SteerDeliver(m, o) ==
    /\ pc[m] = "sSend" /\ out[m] = "none"
    /\ out' = [out EXCEPT ![m] = o]
    /\ sends' = IF o = "sent" THEN [sends EXCEPT ![m] = @ + 1] ELSE sends
    /\ UNCHANGED <<queueVars, world, drainer, pc, interrupting, intr, spent, fate, settledSince, seen>>

SteerCommit(m) ==
    /\ pc[m] = "sSend" /\ out[m] # "none"
    /\ Finish(m, out[m] = "sent") /\ Lifts(out[m] = "sent")
    /\ out' = [out EXCEPT ![m] = "none"]
    /\ CASE out[m] = "sent"      -> Drop(m) /\ pc' = Rowed(m) /\ UNCHANGED fate
         [] out[m] = "delivered" -> Drop(m) /\ pc' = Rowed(m) /\ fate' = [fate EXCEPT ![m] = "told"]
         [] OTHER                -> HoldSteer(m, "send-failed")
    /\ UNCHANGED <<world, pass, passQueued, retry, failures, closing, interrupting, intr, spent,
                   sends, seen>>

-----------------------------------------------------------------------------
(* The other commands *)

queueCommand == <<world, pass, retry, failures, awaiting, closing, dispatch, spent, sends, settledSince, seen>>

\* queued.reorder: only of the whole queue as it is now.
Reorder(s) ==
    /\ order # s /\ Len(s) = Len(order)
    /\ \A i \in 1..Len(order) : \E j \in 1..Len(s) : s[j] = order[i]
    /\ order' = s
    /\ passQueued' = TRUE
    /\ UNCHANGED <<rowState, why, fate, queueCommand>>

Cancel(m) ==
    /\ rowState[m] \in {"queued", "held"}
    /\ Drop(m)
    /\ fate' = [fate EXCEPT ![m] = "cancelled"]
    /\ UNCHANGED <<passQueued, queueCommand>>

\* queued.edit: the text is abstracted away; the edited event still schedules a pass.
Edit(m) ==
    /\ rowState[m] \in {"queued", "held"}
    /\ passQueued' = TRUE
    /\ UNCHANGED <<queueVars, fate, queueCommand>>

Resume ==
    /\ ~Archived /\ Some("held")
    /\ Unhold({m \in Msgs : rowState[m] = "held"})
    /\ passQueued' = TRUE
    /\ UNCHANGED <<fate, queueCommand>>

\* run.interrupt: refused unless the thread is working with no open request and no recent press;
\* the key goes out later, in the pane's turn.
InterruptAsk ==
    /\ ~intr /\ ~Archived /\ ~Blocked /\ status = "working" /\ ~interrupting
    /\ intr' = TRUE
    /\ UNCHANGED <<queueVars, world, drainer, pc, out, interrupting, spent, history>>

InterruptPress(pressed) ==
    /\ intr
    /\ pressed => listed
    /\ intr' = FALSE
    /\ interrupting' = (interrupting \/ pressed)
    /\ UNCHANGED <<queueVars, world, drainer, pc, out, spent, history>>

\* INTERRUPT_REPEAT_MS passed.
InterruptExpires ==
    /\ interrupting
    /\ interrupting' = FALSE
    /\ UNCHANGED <<queueVars, world, drainer, pc, out, intr, spent, history>>

-----------------------------------------------------------------------------
(* The world around the queue *)

\* The agent moves, or the operator works in the terminal.
AgentMoves(s) ==
    /\ s \in Agent \ {agent}
    /\ agent' = s
    /\ UNCHANGED <<queueVars, status, pending, shelf, listed, drainer, dispatch, spent, history>>

\* A herd poll reaches the projection (engine update, herd ingest, thread.updated event). A thread
\* archived as closed whose pane is listed again is revived.
Poll ==
    /\ shelf # "user"
    /\ status # agent \/ ~listed \/ ~seen \/ shelf = "closed"
    /\ listed' = TRUE /\ seen' = TRUE /\ shelf' = "active"
    /\ status' = agent
    /\ IF agent = status THEN UNCHANGED <<awaiting, passQueued, pc, interrupting, settledSince>>
       ELSE /\ awaiting' = CASE agent = "working" -> [awaiting EXCEPT !.saw = awaiting.on]
                             [] agent = "idle" -> IF awaiting.saw THEN NoMark ELSE awaiting
                             [] OTHER -> awaiting
            /\ passQueued' = (passQueued \/ agent = "idle")
            /\ pc' = [m \in Msgs |-> IF agent = "idle" /\ pc[m] = "sWait" THEN "woken" ELSE pc[m]]
            /\ interrupting' = (interrupting /\ agent = "working")
            /\ settledSince' = IF agent = "idle" THEN "yes" ELSE settledSince
    /\ UNCHANGED <<queueVars, pending, agent, pass, retry, failures, closing, out, intr,
                   spent, sends, fate>>

\* A thread the operator archived keeps the status it had; only its pane is looked for.
PollArchived ==
    /\ shelf = "user" /\ ~listed
    /\ listed' = TRUE
    /\ UNCHANGED <<queueVars, status, pending, shelf, agent, drainer, dispatch, spent, history>>

\* A partial snapshot: one poll does not list the pane.
PaneDropped ==
    /\ listed /\ spent.gaps < MaxGaps
    /\ listed' = FALSE
    /\ spent' = [spent EXCEPT !.gaps = @ + 1]
    /\ UNCHANGED <<queueVars, status, pending, shelf, agent, drainer, dispatch, history>>

\* Request ingest reads a dialog off the pane of a thread that waits; it commits against the status as
\* it is then. The request closes when it is answered, or expires once the status moved on.
RequestOpens ==
    /\ ~pending /\ status = "approval" /\ ~Archived
    /\ pending' = TRUE
    /\ UNCHANGED <<queueVars, status, shelf, agent, listed, drainer, dispatch, spent, history>>

RequestCloses ==
    /\ pending
    /\ pending' = FALSE
    /\ passQueued' = TRUE
    /\ UNCHANGED <<queueVars, status, shelf, agent, listed, pass, retry, failures, awaiting, closing,
                   dispatch, spent, history>>

\* thread.archived: the drainer forgets the thread and tells its waiters; the hold comes later.
Forget ==
    /\ spent.archives < MaxArchives
    /\ spent' = [spent EXCEPT !.archives = @ + 1]
    /\ awaiting' = NoMark /\ retry' = FALSE /\ failures' = 0
    /\ pass' = [pass EXCEPT !.forgotten = pass.pc # "idle"]
    /\ pc' = [m \in Msgs |-> IF pc[m] = "sWait" THEN "rowed" ELSE pc[m]]
    /\ closing' = TRUE
    /\ interrupting' = FALSE
    /\ settledSince' = "yes"
    /\ UNCHANGED <<queueVars, status, agent, listed, out, intr, sends, fate, seen>>

\* thread.archive: the pane stays.
Archive ==
    /\ shelf = "active"
    /\ shelf' = "user"
    /\ Forget
    /\ UNCHANGED <<pending, passQueued>>

\* Herd ingest misses the pane a second time: its open request expires and the thread is archived.
PaneClosed ==
    /\ shelf = "active" /\ ~listed
    /\ shelf' = "closed"
    /\ pending' = FALSE
    /\ passQueued' = (passQueued \/ pending)
    /\ Forget

\* thread.unarchive, refused while the thread's pane is known to be gone (paneAlive): a thread archived as
\* closed comes back only with its pane. A pane lost for good behind an archived thread is left out.
Unarchive ==
    /\ shelf = "user"
    /\ shelf' = "active"
    /\ UNCHANGED <<queueVars, status, pending, agent, listed, drainer, dispatch, spent, history>>

\* The bridge stops anywhere and starts again: the store stays, the rest is new. start() holds
\* every row and queues a pass by hand for a queue it held. The engine's first poll may or may not
\* be done by then; either way no poll has reached the projection yet.
Restart(polled) ==
    /\ spent.crashes < MaxCrashes
    /\ spent' = [spent EXCEPT !.crashes = @ + 1]
    /\ HoldAll("restart")
    /\ pc' = [m \in Msgs |-> IF pc[m] \in Handling THEN "refused"
                             ELSE IF pc[m] \in Steering THEN "rowed" ELSE pc[m]]
    /\ out' = [m \in Msgs |-> "none"]
    /\ pass' = IdlePass
    /\ passQueued' = (Some("queued") \/ Some("sending"))
    /\ retry' = FALSE /\ failures' = 0 /\ awaiting' = NoMark /\ closing' = FALSE
    /\ interrupting' = FALSE /\ intr' = FALSE
    /\ listed' = polled /\ seen' = FALSE
    /\ settledSince' = "yes"
    /\ UNCHANGED <<status, pending, shelf, agent, sends, fate>>

-----------------------------------------------------------------------------
(* The event loop *)

DrainStep ==
    \/ PassStart
    \/ HoldClosed
    \/ Turn /\ \E read \in Reads : PassLift(read)
    \/ Turn /\ \E read \in Reads : PassMark(read)
    \/ Turn /\ \E o \in Outcomes : PassDeliver(o)
    \/ (Turn \/ pass.res = "gone") /\ PassCommit
    \/ Turn /\ RetryFires
    \/ Turn /\ RunWaitFires
    \/ Turn /\ RunEnded

HandlerStep(m) ==
    \/ Turn /\ \E mode \in Modes, maint \in BOOLEAN : Dispatch(m, mode, maint)
    \/ Turn /\ \E read \in Reads : EnqueueRead(m, read)
    \/ Turn /\ \E background \in BOOLEAN : StartRead(m, background)
    \/ Turn /\ \E background \in BOOLEAN : SteerRead(m, background)
    \/ Turn /\ \E o \in Outcomes : StartDeliver(m, o)
    \/ (Turn \/ out[m] = "gone") /\ StartCommit(m)

SteerStep(m) ==
    \/ SteerWoken(m)
    \/ Turn /\ \E background \in BOOLEAN : SteerBackground(m, background)
    \/ Turn /\ \E result \in {"pressed", "failed", "maintenance"} : SteerPress(m, result)
    \/ Turn /\ SteerWaitFires(m)
    \/ Turn /\ \E background \in BOOLEAN : SteerLate(m, background)
    \/ Turn /\ \E o \in Outcomes : SteerDeliver(m, o)
    \/ (Turn \/ out[m] = "gone") /\ SteerCommit(m)

\* The same steps, whatever continuations are ready.
SteerAdvances(m) ==
    \/ SteerWoken(m) \/ SteerWaitFires(m) \/ SteerCommit(m)
    \/ \E background \in BOOLEAN : SteerBackground(m, background) \/ SteerLate(m, background)
    \/ \E result \in {"pressed", "failed", "maintenance"} : SteerPress(m, result)
    \/ \E o \in Outcomes : SteerDeliver(m, o)

CommandStep ==
    \/ Turn /\ \E s \in SetToSeqs({m \in Msgs : Present(m)}) : Reorder(s)
    \/ Turn /\ \E m \in Msgs : Cancel(m)
    \/ Turn /\ \E m \in Msgs : Edit(m)
    \/ Turn /\ Resume
    \/ Turn /\ InterruptAsk
    \/ Turn /\ \E pressed \in BOOLEAN : InterruptPress(pressed)
    \/ Turn /\ InterruptExpires

WorldStep ==
    \/ Turn /\ \E s \in Agent : AgentMoves(s)
    \/ Turn /\ Poll
    \/ Turn /\ PollArchived
    \/ Turn /\ PaneDropped
    \/ Turn /\ RequestOpens
    \/ Turn /\ RequestCloses
    \/ Turn /\ Archive
    \/ Turn /\ PaneClosed
    \/ Turn /\ Unarchive
    \/ Turn /\ \E polled \in BOOLEAN : Restart(polled)

Next ==
    \/ DrainStep
    \/ \E m \in Msgs : HandlerStep(m)
    \/ \E m \in Msgs : SteerStep(m)
    \/ CommandStep
    \/ WorldStep

Spec == Init /\ [][Next]_vars

(* Every continuation runs, every I/O call comes back, every timer fires (the actions without     *)
(* Turn: a step that is due stays due while continuations go first). A pane that rests shows its  *)
(* composer again and again, and not every send meets a busy pane.                                *)
Fairness ==
    /\ WF_vars(PassStart) /\ WF_vars(HoldClosed)
    /\ WF_vars(\E read \in Reads : PassLift(read) \/ PassMark(read))
    /\ SF_vars(PassLift("yes") \/ PassMark("yes"))
    /\ WF_vars(\E o \in Outcomes : PassDeliver(o))
    /\ SF_vars(\E o \in Outcomes \ {"busy"} : PassDeliver(o))
    /\ WF_vars(PassCommit) /\ WF_vars(RetryFires) /\ WF_vars(RunWaitFires)
    /\ WF_vars(Poll)
    /\ \A m \in Msgs :
        /\ WF_vars(\E read \in Reads : EnqueueRead(m, read))
        /\ WF_vars(\E background \in BOOLEAN : StartRead(m, background) \/ SteerRead(m, background))
        /\ WF_vars(\E o \in Outcomes : StartDeliver(m, o))
        /\ WF_vars(StartCommit(m))
        /\ WF_vars(SteerAdvances(m))

FairSpec == Spec /\ Fairness

-----------------------------------------------------------------------------
(* Safety *)

\* The table is a queue: every row is listed once, the listed messages are the rows, and only a held
\* row has a reason. normalizeQueue and withRow keep it so across marks, put-backs and reorders.
RowsAreAQueue ==
    /\ \A m \in Msgs : Present(m) <=> \E i \in 1..Len(order) : order[i] = m
    /\ \A i, j \in 1..Len(order) : order[i] = order[j] => i = j
    /\ \A m \in Msgs : rowState[m] = "held" <=> why[m] # "none"

\* A row that is `sending` is in the hands of the drain pass or of a steer, so that some step will take
\* it out of `sending`: the queue behind it cannot wait for nobody (queue-drain.ts:325, dispatch.ts:547).
SendingRowOwned ==
    \A m \in Msgs : rowState[m] = "sending" =>
        \/ pass.pc = "send" /\ pass.row = m
        \/ pc[m] \in Steering

\* A message is submitted at most once, and once more for each bridge restart, which forgets what was
\* submitted but not yet committed (T06: "A queued message is sent at most once").
SentAtMostOnce == \A m \in Msgs : sends[m] <= 1 + spent.crashes

\* A message the bridge accepted as a row is a row still, or was submitted, or the operator cancelled it
\* or was told it failed: no path drops it silently (T06: "A row leaves the table only on ...").
NoSilentLoss ==
    \A m \in Msgs : pc[m] = "rowed" => Present(m) \/ sends[m] > 0 \/ fate[m] # "open"

\* The drainer marks a row: the step from the composer read to the send.
DrainMarks == pass.pc = "box" /\ pass'.pc = "send"

\* Between two messages of the drainer the thread settled, or RUN_WAIT_MS passed with no run, or the
\* first one failed, or a start or steer of the operator took the mark over and failed.
DrainNeedsRelease == [][DrainMarks => settledSince # "no"]_vars

\* While a steer's row is ahead of the queue and on its way, the drainer starts no other row, though
\* the steer may have come while the pass was reading the composer (queue-drain.ts:348).
DrainYieldsToSteer ==
    [][DrainMarks => \A m \in Msgs : pc[m] \in Steering => rowState[m] # "sending"]_vars

\* What each message goes through (MessageLife), read off the rows and the handlers.
Life ==
    [m \in Msgs |->
        IF pc[m] \in {"start", "sSend"} \/ (pass.pc = "send" /\ pass.row = m) THEN "sending"
        ELSE IF Present(m) THEN "waiting"
        ELSE IF pc[m] \in {"new", "refused"} \cup Handling THEN "outside" ELSE "over"]

Lives == INSTANCE MessageLife WITH life <- Life

\* Without restarts and archives the dispatcher implements the life of a message.
ImplementsMessageLife == Lives!LifeSpec

-----------------------------------------------------------------------------
(* Liveness *)

\* The pane rests in the herd's view and for good; nothing else asks anything of the thread
\* (QueueDrains of QueueWakeups is about what becomes of its queue then).
Resting  == agent = "idle" /\ ~pending /\ ~Archived /\ listed
Operator == CommandStep \/ \E m \in Msgs, mode \in Modes, maint \in BOOLEAN : Dispatch(m, mode, maint)
Calm     == <>[]Resting /\ <>[][~Operator]_vars

\* A steer comes to an end: sent, held with a reason, or back in the queue.
SteerEnds == \A m \in Msgs : pc[m] \in Steering ~> pc[m] = "rowed" /\ rowState[m] # "sending"

-----------------------------------------------------------------------------
(* What the design document says and the code does not keep *)

\* T06: "The drainer sends one message per settle."
OneDrainPerSettle == [][DrainMarks => settledSince = "yes"]_vars

\* T06: "After a restart nothing is sent until the pane is proven to rest": when the hold lifts, the
\* status it goes by was reported since the restart, or at least happens to be true.
LiftProvesRest ==
    [][pass.pc = "lift" /\ (\E m \in Msgs : RestartHeld(m) /\ rowState'[m] = "queued")
        => seen \/ agent = "idle"]_vars

\* T06: "The hold then lifts itself as soon as the pane is proven to rest".
RestartHoldLifts == Calm => \A m \in Msgs : []<>(~RestartHeld(m))

\* T06: "When a thread becomes settled it takes the lowest `position` row with `state = queued`".
SettledQueueMoves == Calm => \A m \in Msgs : []<>(rowState[m] # "queued")
=============================================================================
