----------------------------- MODULE EventPoker -----------------------------
(***************************************************************************)
(* bridge/event-poker.ts: the events.subscribe stream that pokes the       *)
(* engine, as operations on the poker's state.  A stream handle is a small *)
(* number; `open` holds the sockets that are really open, the code keeps   *)
(* only `stream`.  The delays are left out: what is left of backoffIdx is  *)
(* whether it is above 0.                                                  *)
(***************************************************************************)
EXTENDS Integers, FiniteSets

CONSTANT Panes

Handles == 1..2

Poker == [stream : {0} \cup Handles, open : SUBSET Handles, up : BOOLEAN,
          healthy : BOOLEAN, backedOff : BOOLEAN, stable : BOOLEAN,
          timer : BOOLEAN, panes : SUBSET Panes, subs : SUBSET Panes,
          droppedPanes : SUBSET Panes, droppedType : BOOLEAN]

\* buildSubscriptions without what a server rejected; the handle becomes `stream`.
Connect(pk) ==
  LET h == CHOOSE h \in Handles : h \notin pk.open
  IN [pk EXCEPT !.stream = h, !.open = @ \cup {h}, !.up = FALSE,
                !.subs = pk.panes \ pk.droppedPanes]

\* scheduleReconnect
ScheduleReconnect(pk) == [pk EXCEPT !.timer = TRUE, !.backedOff = TRUE]

\* dropRejectedSubscription: what a refusal names and was not dropped before.
NewlyDropped(pk, why) ==
  \/ why.t = "type" /\ ~pk.droppedType
  \/ why.t = "panes" /\ ~(why.panes \subseteq pk.droppedPanes)

Forgotten(pk, why) ==
  [pk EXCEPT !.droppedType = @ \/ why.t = "type",
             !.droppedPanes = IF why.t = "panes" THEN @ \cup why.panes ELSE @]

\* As OnDown, without comparing the handle with the stream.
OnDownAnyHandle(pk, h, why) ==
  LET a == [pk EXCEPT !.open = @ \ {h}, !.stream = 0, !.up = FALSE,
                      !.stable = FALSE, !.healthy = FALSE]
  IN IF NewlyDropped(a, why) THEN Connect(Forgotten(a, why)) ELSE ScheduleReconnect(a)

\* onDown of handle h: heard only from the stream of the moment.
OnDown(pk, h, why) ==
  LET a == [pk EXCEPT !.open = @ \ {h}, !.stream = 0, !.up = FALSE,
                      !.stable = FALSE, !.healthy = FALSE]
  IN IF pk.stream # h THEN [pk EXCEPT !.open = @ \ {h}]
     ELSE IF NewlyDropped(a, why) THEN Connect(Forgotten(a, why)) ELSE ScheduleReconnect(a)

\* onUp: a stream that followed a failure must stay up before the backoff resets.
OnUp(pk) ==
  [pk EXCEPT !.up = TRUE, !.healthy = TRUE, !.stable = @ \/ pk.backedOff]

\* The stable timer, and the reconnect timer.
OnStable(pk) == [pk EXCEPT !.stable = FALSE, !.backedOff = FALSE]
OnReconnectTimer(pk) == Connect([pk EXCEPT !.timer = FALSE])

Lost == [t |-> "lost", panes |-> {}]

\* reconnect: the old stream is let go before it is closed, so its onDown is stale.
Reconnect(pk) ==
  LET a == [pk EXCEPT !.timer = FALSE, !.stream = 0]
  IN Connect(IF pk.stream = 0 THEN a ELSE OnDown(a, pk.stream, Lost))

\* setAgentPanes: a changed herd is subscribed to anew.
SetAgentPanes(pk, ids) ==
  IF ids = pk.panes THEN pk ELSE Reconnect([pk EXCEPT !.panes = ids])
=============================================================================
