----------------------------- MODULE PaneQueue -----------------------------
(***************************************************************************)
(* The per-pane write queue (bridge/pane-queue.ts). Every write to a pane  *)
(* is a call of `run`: it chains behind the pane's tail promise, waits its *)
(* turn or gives up after PANE_QUEUE_TIMEOUT_MS, runs its function, and    *)
(* releases. A call that gave up stays in the chain, resolved, so that the *)
(* calls behind it still wait for those ahead of it.                       *)
(*                                                                         *)
(* A call is one invocation of `run`: it arrives once. A function that     *)
(* throws ends like one that returns.                                      *)
(***************************************************************************)
EXTENDS Naturals

CONSTANTS
    Calls,      \* invocations of run
    Keys,       \* pane keys
    KeyOf,      \* [Calls -> Keys]
    NoCall,     \* no tail: Promise.resolve()
    LiveKeys    \* the panes whose functions are known to end (used by FairSpec)

ASSUME CallsAssumption ==
    /\ KeyOf \in [Calls -> Keys]
    /\ NoCall \notin Calls
    /\ LiveKeys \subseteq Keys

VARIABLES
    tails,      \* the tails map: the last call chained under a key
    prev,       \* [Calls -> the tail the call waits for]
    state,      \* [Calls -> "new" | "waiting" | "running" | "gaveUp" | "ended"]
    settled,    \* the calls whose tail promise is resolved
    ahead       \* history: the calls of the pane that came before it

vars == <<tails, prev, state, settled, ahead>>

TypeOK ==
    /\ tails \in [Keys -> Calls \cup {NoCall}]
    /\ prev \in [Calls -> Calls \cup {NoCall}]
    /\ state \in [Calls -> {"new", "waiting", "running", "gaveUp", "ended"}]
    /\ settled \in SUBSET Calls
    /\ ahead \in [Calls -> SUBSET Calls]

Arrived(k) == {c \in Calls : KeyOf[c] = k /\ state[c] # "new"}

\* Mistakes the properties below are shown to notice; no action uses them.
ReleasedByEnd(c) == state[c] = "ended"

\* `release` was called: the call is over, one way or the other.
Released(c) == state[c] \in {"gaveUp", "ended"}

\* The tail in front of the call is resolved.
MyTurn(c) == prev[c] = NoCall \/ prev[c] \in settled

Init ==
    /\ tails = [k \in Keys |-> NoCall]
    /\ prev = [c \in Calls |-> NoCall]
    /\ state = [c \in Calls |-> "new"]
    /\ settled = {}
    /\ ahead = [c \in Calls |-> {}]

ArriveBehindFirst(c) ==
    /\ state[c] = "new"
    /\ state' = [state EXCEPT ![c] = "waiting"]
    /\ prev' = [prev EXCEPT ![c] = tails[KeyOf[c]]]
    /\ tails' = [tails EXCEPT ![KeyOf[c]] = IF @ = NoCall THEN c ELSE @]
    /\ ahead' = [ahead EXCEPT ![c] = Arrived(KeyOf[c])]
    /\ UNCHANGED settled

\* run: read the tail and become the tail, with no await in between.
Arrive(c) ==
    /\ state[c] = "new"
    /\ state' = [state EXCEPT ![c] = "waiting"]
    /\ prev' = [prev EXCEPT ![c] = tails[KeyOf[c]]]
    /\ tails' = [tails EXCEPT ![KeyOf[c]] = c]
    /\ ahead' = [ahead EXCEPT ![c] = Arrived(KeyOf[c])]
    /\ UNCHANGED settled

\* waitTurn resolves and the function starts.
Begin(c) ==
    /\ state[c] = "waiting" /\ MyTurn(c)
    /\ state' = [state EXCEPT ![c] = "running"]
    /\ UNCHANGED <<tails, prev, settled, ahead>>

\* waitTurn's timer fires first: PaneBusyError, and `done` in the catch.
GiveUp(c) ==
    /\ state[c] = "waiting" /\ ~MyTurn(c)
    /\ state' = [state EXCEPT ![c] = "gaveUp"]
    /\ UNCHANGED <<tails, prev, settled, ahead>>

\* The function returns or throws: `done` in the finally.
End(c) ==
    /\ state[c] = "running"
    /\ state' = [state EXCEPT ![c] = "ended"]
    /\ UNCHANGED <<tails, prev, settled, ahead>>

\* The call's tail (prev.then(() => mine)) resolves; the last tail of a pane leaves the map.
Settle(c) ==
    /\ c \notin settled /\ Released(c) /\ MyTurn(c)
    /\ settled' = settled \cup {c}
    /\ tails' = [tails EXCEPT ![KeyOf[c]] = IF @ = c THEN NoCall ELSE @]
    /\ UNCHANGED <<prev, state, ahead>>

Step(c) == Arrive(c) \/ Begin(c) \/ GiveUp(c) \/ End(c) \/ Settle(c)

Next == \E c \in Calls : Step(c)

Spec == Init /\ [][Next]_vars

\* Continuations run; a function ends only on the live panes; no timer is needed.
Fairness ==
    \A c \in Calls :
        /\ WF_vars(Begin(c)) /\ WF_vars(Settle(c))
        /\ KeyOf[c] \in LiveKeys => WF_vars(End(c))

FairSpec == Spec /\ Fairness

-----------------------------------------------------------------------------
(* Properties *)

\* Two functions never run on one pane at once: the text and the Enter of a reply are two RPCs, and no
\* other write may land between them (pane-queue.ts:1-6).
MutualExclusion ==
    \A c, d \in Calls :
        state[c] = "running" /\ state[d] = "running" /\ KeyOf[c] = KeyOf[d] => c = d

\* A function runs only when every call that came before it on the pane is over, also when calls between
\* them gave up while the first still held the pane (pane-queue.ts:36, 44-49).
NoOvertaking ==
    \A c \in Calls : state[c] = "running" => \A d \in ahead[c] : Released(d)

\* The map holds a pane only while a call of it is not resolved, and then the last one to come: a new
\* call never starts beside one that runs, and `size` returns to 0 (pane-queue.ts:40-42).
TailIsLast ==
    \A k \in Keys :
        IF tails[k] = NoCall THEN Arrived(k) \subseteq settled
        ELSE tails[k] \in Arrived(k) \ settled /\ Arrived(k) = ahead[tails[k]] \cup {tails[k]}

\* A slow pane does not stall the others: on a pane whose own functions end every call gets its turn (or
\* gave up), whatever the functions on the other panes do (pane-queue.ts:4-5).
LivePanesServed ==
    \A c \in Calls : KeyOf[c] \in LiveKeys => state[c] = "waiting" ~> state[c] \in {"gaveUp", "ended"}
=============================================================================
