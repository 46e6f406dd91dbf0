--------------------------- MODULE QueueWakeups ----------------------------
(***************************************************************************)
(* Who comes back for the queue of a thread that rests.  ThreadQueue, with *)
(* a history variable for the passes and marks after which nobody does:    *)
(* each is a place of bridge/threads/queue-drain.ts that returns without a *)
(* backOff or a schedule.                                                  *)
(***************************************************************************)
EXTENDS ThreadQueue

\* A read that throws is a step of its own here, apart from the answers.
ASSUME ThrowsApart == "throws" \notin Reads

VARIABLE left  \* history: whether one of these moves was the last word on the queue

\* The pass that was under way in this step has ended, with no other one due.
Over == pass'.pc = "idle" /\ ~retry' /\ ~passQueued'

\* The row was cancelled during that read (:344).
RowVanished == Over /\ pass.pc = "box" /\ Free /\ ~Present(pass.row)

\* The text of the pass's send is in the box, unsubmitted: the operator's turn (:367).
TextDelivered == Over /\ pass.pc = "send" /\ pass.res = "delivered"

\* The row of the pass has failed too often and is held; the rows behind it wait too (:396-404).
RowGivenUp == Over /\ pass.pc = "send" /\ rowState'[pass.row] = "held"

\* A steer is over, held or with its mark taken by a start that failed: a pass that met its row while
\* it was sending does not come again (queue-drain.ts:325).
SteerOver == (\E m \in Msgs : pc[m] \in Steering /\ pc'[m] = "rowed") /\ ~awaiting'.on

\* A start or steer that was refused takes its mark away; a pass that met the mark is over
\* (queue-drain.ts:234, 322).
MarkLifted == awaiting.on /\ awaiting.by # NoMsg /\ ~awaiting'.on /\ ~passQueued'

\* Nobody comes back after this step, unless a pass is due.
Left ==
    /\ ~passQueued'
    /\ left \/ RowVanished \/ TextDelivered \/ RowGivenUp \/ SteerOver \/ MarkLifted

\* The composer read of a pass does not get its turn of the pane (PaneBusyError): the pass throws,
\* and schedule only logs it (guarded-send-route.ts:197, queue-drain.ts:336, 425-429).  The row may
\* still be one to go.
TurnMissed ==
    /\ Turn
    /\ PassLift("throws") \/ PassMark("throws")
    /\ left' = (Left \/ (Over /\ Free))

\* The composer read of an enqueue does not: the command is refused.
EnqueueMissed == Turn /\ (\E m \in Msgs : EnqueueRead(m, "throws")) /\ left' = Left

WakeVars == <<vars, left>>
WakeInit == Init /\ left = FALSE
WakeNext == (Next /\ left' = Left) \/ TurnMissed \/ EnqueueMissed
WakeSpec == WakeInit /\ [][WakeNext]_WakeVars /\ Fairness

\* A queue that is not left behind by one of these moves: once the pane rests and the operator
\* asks nothing more, no row stays queued, whatever composers were not on screen, sends met a busy
\* pane, failed, or had a run too short to be seen, and whatever marks the passes met.
QueueDrains ==
    Calm => \/ \A m \in Msgs : []<>(rowState[m] \in {"absent", "held"})
            \/ <>[]left
=============================================================================
