---------------------------- MODULE MessageLife ----------------------------
(***************************************************************************)
(* What the dispatcher promises of each message, with no queue, drainer,   *)
(* steer or pane in sight: a message is submitted to the agent at most     *)
(* once, and one that was submitted never goes back to wait or to its      *)
(* sender. ThreadQueue implements it while the bridge does not restart and *)
(* the thread is not archived.                                             *)
(***************************************************************************)
EXTENDS Naturals

CONSTANT Msgs

VARIABLES
    life,   \* [Msgs -> where the message is]
    sends   \* [Msgs -> times it was submitted]

lifeVars == <<life, sends>>

Lives == {"outside", "waiting", "sending", "over"}

LifeTypeOK ==
    /\ life \in [Msgs -> Lives]
    /\ sends \in [Msgs -> Nat]

LifeInit ==
    /\ life = [m \in Msgs |-> "outside"]
    /\ sends = [m \in Msgs |-> 0]

Move(m, from, to) ==
    /\ life[m] \in from
    /\ life' = [life EXCEPT ![m] = to]
    /\ UNCHANGED sends

\* The message becomes a row of the queue.
Accept(m) == Move(m, {"outside"}, "waiting")

\* It is on its way to the pane.
Send(m) == Move(m, {"outside", "waiting"}, "sending")

\* The agent takes it: once, and only while it is on its way.
Submit(m) ==
    /\ life[m] = "sending" /\ sends[m] = 0
    /\ sends' = [sends EXCEPT ![m] = 1]
    /\ UNCHANGED life

\* Its send came to nothing: back to the queue, or to the client.
Return(m) ==
    /\ sends[m] = 0
    /\ \E back \in {"waiting", "outside"} : Move(m, {"sending"}, back)

\* Its send is settled, or the operator cancelled it while it waited.
Finish(m) == Move(m, {"sending", "waiting"}, "over")

LifeNext == \E m \in Msgs : Accept(m) \/ Send(m) \/ Submit(m) \/ Return(m) \/ Finish(m)

LifeSpec == LifeInit /\ [][LifeNext]_lifeVars

\* A message reaches the agent at most once.
SubmittedAtMostOnce == \A m \in Msgs : sends[m] <= 1

\* What was submitted never waits again.
SubmittedNeverWaits == \A m \in Msgs : sends[m] > 0 => life[m] \in {"sending", "over"}
=============================================================================
